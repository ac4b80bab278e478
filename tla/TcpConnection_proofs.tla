------------------------ MODULE TcpConnection_proofs ------------------------
(* The structures of TCP connections keep their owners, for any number of    *)
(* sockets, peers and events: proofs about TcpConnection.                    *)
EXTENDS TcpConnection, FiniteSetTheorems, SequenceTheorems, TLAPS

Event == {CloseEvent(s) : s \in Sockets \cup {None}}
           \cup {[type |-> "eTCPAcceptEvent", s |-> None]}

Listener == [state : {"eCLOSED", "eTCP_LISTEN", "freed"}, usChildCount : Int,
             pxPeerSocket : Sockets \cup {None}, eventGroup : BOOLEAN]

Worlds == [sock : [Sockets -> SocketType], bound : Seq(Sockets),
           listener : Listener, queue : Seq(Event)]

\* A world w in which only the socket s changes, to c
Put(w, s, c) == [w EXCEPT !.sock[s] = c]

-----------------------------------------------------------------------------
(* Lists of sockets and of events.                                           *)

\* What RemoveFirst does to a list whose elements differ.
LEMMA Removed ==
  ASSUME NEW S, NEW q \in Seq(S), NEW e \in Range(q), IsInjective(q)
  PROVE  /\ RemoveFirst(q, e) \in Seq(S) /\ IsInjective(RemoveFirst(q, e))
         /\ Range(RemoveFirst(q, e)) = Range(q) \ {e}
PROOF
<1>1. DOMAIN q = 1 .. Len(q) /\ Len(q) \in Nat BY LenProperties
<1>2. PICK i \in 1 .. Len(q) : q[i] = e BY <1>1 DEF Range
<1>3. {j \in 1 .. Len(q) : q[j] = e} = {i} BY <1>1, <1>2 DEF IsInjective
<1>4. SelectInSeq(q, LAMBDA v : v = e) = i BY <1>3 DEF SelectInSeq, Min
<1>5. RemoveFirst(q, e) = SubSeq(q, 1, i - 1) \o SubSeq(q, i + 1, Len(q))
  BY <1>2, <1>4 DEF RemoveFirst, RemoveAt
<1> DEFINE a == SubSeq(q, 1, i - 1)
           b == SubSeq(q, i + 1, Len(q))
           r == a \o b
<1>6. \A j \in 1 .. Len(q) : q[j] \in S BY ElementOfSeq
<1>7. /\ a \in Seq(S) /\ Len(a) = i - 1
      /\ \A j \in 1 .. i - 1 : a[j] = q[j]
  BY <1>1, <1>2, <1>6, SubSeqProperties
<1>8. /\ b \in Seq(S) /\ Len(b) = Len(q) - i
      /\ \A j \in 1 .. Len(q) - i : b[j] = q[i + j]
  <2>1. /\ i + 1 \in Int /\ Len(q) \in Int
        /\ \A j \in i + 1 .. Len(q) : q[j] \in S BY <1>1, <1>2, <1>6
  <2>2. /\ b \in Seq(S)
        /\ Len(b) = IF i + 1 <= Len(q) THEN Len(q) - (i + 1) + 1 ELSE 0
        /\ \A j \in 1 .. Len(q) - (i + 1) + 1 : b[j] = q[(i + 1) + j - 1]
    BY <2>1, SubSeqProperties
  <2> HIDE DEF b
  <2>3. ASSUME NEW j \in 1 .. Len(q) - i PROVE b[j] = q[i + j]
    <3>1. j \in 1 .. Len(q) - (i + 1) + 1 /\ (i + 1) + j - 1 = i + j BY <1>1, <1>2
    <3>2. b[j] = q[(i + 1) + j - 1] BY <2>2, <3>1
    <3>3. QED BY <3>1, <3>2
  <2>4. Len(b) = Len(q) - i
    <3>1. CASE i + 1 <= Len(q) BY <1>1, <1>2, <2>2, <3>1
    <3>2. CASE ~ (i + 1 <= Len(q))
      <4>1. i \in Nat /\ i <= Len(q) /\ Len(q) \in Nat /\ ~ (i + 1 <= Len(q)) BY <1>1, <1>2, <3>2
      <4>2. i = Len(q) /\ Len(q) - i = 0 BY <4>1
      <4>3. QED BY <2>2, <3>2, <4>2
    <3>3. QED BY <3>1, <3>2
  <2>5. QED BY <2>2, <2>3, <2>4
<1> HIDE DEF a, b
<1>9. /\ r \in Seq(S) /\ Len(r) = Len(q) - 1
      /\ \A j \in 1 .. Len(q) - 1 : r[j] = IF j < i THEN q[j] ELSE q[j + 1]
  <2>1. /\ r \in Seq(S) /\ Len(r) = Len(a) + Len(b)
        /\ \A j \in 1 .. Len(a) + Len(b) : r[j] = IF j <= Len(a) THEN a[j] ELSE b[j - Len(a)]
    BY <1>7, <1>8, ConcatProperties
  <2> HIDE DEF r
  <2>2. Len(r) = Len(q) - 1 BY <1>1, <1>2, <1>7, <1>8, <2>1
  <2>3. ASSUME NEW j \in 1 .. Len(q) - 1 PROVE r[j] = IF j < i THEN q[j] ELSE q[j + 1]
    <3>1. j \in 1 .. Len(a) + Len(b) BY <1>1, <1>2, <1>7, <1>8
    <3>2. CASE j < i
      <4>1. j <= Len(a) /\ j \in 1 .. i - 1 BY <1>1, <1>2, <1>7, <3>2
      <4>2. QED BY <1>7, <2>1, <3>1, <3>2, <4>1
    <3>3. CASE ~ (j < i)
      <4>1. /\ ~ (j <= Len(a)) /\ j - Len(a) \in 1 .. Len(q) - i
            /\ i + (j - Len(a)) = j + 1 BY <1>1, <1>2, <1>7, <3>3
      <4>2. r[j] = b[j - Len(a)] BY <2>1, <3>1, <4>1
      <4>3. b[j - Len(a)] = q[i + (j - Len(a))] BY <1>8, <4>1
      <4>4. QED BY <3>3, <4>1, <4>2, <4>3
    <3>4. QED BY <3>2, <3>3
  <2>4. QED BY <2>1, <2>2, <2>3
<1> HIDE DEF r
<1>10. DOMAIN r = 1 .. Len(q) - 1 BY <1>9, LenProperties
<1>11. IsInjective(r) BY <1>1, <1>2, <1>9, <1>10 DEF IsInjective
<1>12. Range(r) = Range(q) \ {e}
  <2>1. ASSUME NEW x \in Range(r) PROVE x \in Range(q) \ {e}
    BY <1>1, <1>2, <1>9, <1>10 DEF Range, IsInjective
  <2>2. ASSUME NEW x \in Range(q) \ {e} PROVE x \in Range(r)
    <3>1. PICK j \in 1 .. Len(q) : q[j] = x BY <1>1 DEF Range
    <3>2. CASE j < i BY <1>1, <1>2, <1>9, <1>10, <3>1, <3>2 DEF Range
    <3>3. CASE j > i
      <4>1. j - 1 \in 1 .. Len(q) - 1 /\ r[j - 1] = x BY <1>1, <1>2, <1>9, <3>1, <3>3
      <4>2. QED BY <1>10, <4>1 DEF Range
    <3>4. QED BY <1>2, <3>1, <3>2, <3>3
  <2>3. QED BY <2>1, <2>2
<1>13. QED BY <1>5, <1>9, <1>11, <1>12 DEF r, a, b

\* What Append does to such a list.
LEMMA Appended ==
  ASSUME NEW S, NEW q \in Seq(S), NEW e \in S
  PROVE  /\ Append(q, e) \in Seq(S) /\ Range(Append(q, e)) = Range(q) \cup {e}
         /\ Len(Append(q, e)) = Len(q) + 1
         /\ IsInjective(q) /\ e \notin Range(q) => IsInjective(Append(q, e))
PROOF
<1> DEFINE r == Append(q, e)
<1>1. /\ r \in Seq(S) /\ Len(r) = Len(q) + 1 /\ r[Len(q) + 1] = e
      /\ \A i \in 1 .. Len(q) : r[i] = q[i] BY AppendProperties
<1>2. DOMAIN q = 1 .. Len(q) /\ DOMAIN r = 1 .. Len(q) + 1 /\ Len(q) \in Nat
  BY <1>1, LenProperties
<1> HIDE DEF r
<1>3. Range(r) = Range(q) \cup {e}
  <2>1. \A i \in 1 .. Len(q) + 1 : i \in 1 .. Len(q) \/ i = Len(q) + 1 BY <1>2
  <2>2. Len(q) + 1 \in DOMAIN r /\ \A i \in 1 .. Len(q) : i \in DOMAIN r BY <1>2
  <2>3. QED BY <1>1, <1>2, <2>1, <2>2 DEF Range
<1>4. ASSUME IsInjective(q), e \notin Range(q) PROVE IsInjective(r)
  BY <1>1, <1>2, <1>4 DEF IsInjective, Range
<1>5. QED BY <1>1, <1>3, <1>4 DEF r

\* The elements of a list that differ are as many as it is long.
LEMMA CountedOnce ==
  ASSUME NEW S, NEW q \in Seq(S), IsInjective(q)
  PROVE  IsFiniteSet(Range(q)) /\ Len(q) = Cardinality(Range(q))
PROOF
<1>1. DOMAIN q = 1 .. Len(q) /\ Len(q) \in Nat BY LenProperties
<1>2. IsFiniteSet(1 .. Len(q)) /\ Cardinality(1 .. Len(q)) = Len(q) BY <1>1, FS_Interval
<1>3. q \in [1 .. Len(q) -> Range(q)] BY <1>1, LenProperties DEF Range
<1>4. q \in Surjection(1 .. Len(q), Range(q)) BY <1>1, <1>3 DEF Surjection, Range
<1>5. q \in Injection(1 .. Len(q), Range(q)) BY <1>1, <1>3 DEF Injection, IsInjective
<1>6. QED BY <1>2, <1>4, <1>5, FS_Surjection

-----------------------------------------------------------------------------
(* What the operations of the IP task do to a world.                         *)

LEMMA PutIs ==
  ASSUME NEW w \in Worlds, NEW s \in Sockets, NEW c \in SocketType
  PROVE  /\ Put(w, s, c) \in Worlds /\ Put(w, s, c).sock[s] = c
         /\ \A r \in Sockets : r # s => Put(w, s, c).sock[r] = w.sock[r]
         /\ Put(w, s, c).bound = w.bound /\ Put(w, s, c).queue = w.queue
         /\ Put(w, s, c).listener = w.listener
PROOF
<1>1. w.sock \in [Sockets -> SocketType] BY DEF Worlds
<1> DEFINE k == [w.sock EXCEPT ![s] = c]
<1>2. /\ k \in [Sockets -> SocketType] /\ k[s] = c
      /\ \A r \in Sockets : r # s => k[r] = w.sock[r] BY <1>1
<1> HIDE DEF k
<1>3. Put(w, s, c) = [w EXCEPT !.sock = k] BY DEF Put, k
<1>4. QED BY <1>2, <1>3 DEF Worlds

\* The steps of a state change
Connects(c, state) == NOW_CONNECTED(state) /\ ~ NOW_CONNECTED(c.state)

IsOffered(c, state) == Connects(c, state) /\ c.bPassQueued

IsRefused(c, state) ==
  /\ state = "eCLOSED" /\ ~ NOW_CONNECTED(c.state)
  /\ c.bPassQueued \/ c.bPassAccept

Changed(c, state) ==
  [c EXCEPT !.state = state,
            !.pxPeerSocket = @ /\ ~ IsOffered(c, state),
            !.bPassQueued = @ /\ ~ IsOffered(c, state),
            !.bPassAccept = @ \/ IsOffered(c, state),
            !.eventBits = @ \/ (Connects(c, state) /\ ~ IsOffered(c, state))]

LEMMA ChangedTyped ==
  ASSUME NEW c \in SocketType, NEW state \in States
  PROVE  /\ Changed(c, state) \in SocketType /\ Changed(c, state).state = state
         /\ Changed(c, state).remote = c.remote
         /\ Changed(c, state).ucRepCount = c.ucRepCount
         /\ Changed(c, state).bPassQueued <=> c.bPassQueued /\ ~ IsOffered(c, state)
         /\ Changed(c, state).bPassAccept <=> c.bPassAccept \/ IsOffered(c, state)
PROOF
<1> DEFINE d == Changed(c, state)
           f1 == c.pxPeerSocket /\ ~ IsOffered(c, state)
           f2 == c.bPassQueued /\ ~ IsOffered(c, state)
           f3 == c.bPassAccept \/ IsOffered(c, state)
           f4 == c.eventBits \/ (Connects(c, state) /\ ~ IsOffered(c, state))
<1>1. f1 \in BOOLEAN /\ f2 \in BOOLEAN /\ f3 \in BOOLEAN /\ f4 \in BOOLEAN OBVIOUS
<1>2. d = [c EXCEPT !.state = state, !.pxPeerSocket = f1, !.bPassQueued = f2,
                    !.bPassAccept = f3, !.eventBits = f4] BY DEF Changed
<1>3. (f2 <=> c.bPassQueued /\ ~ IsOffered(c, state)) /\ (f3 <=> c.bPassAccept \/ IsOffered(c, state))
  OBVIOUS
<1> HIDE DEF f1, f2, f3, f4, d
<1>4. d \in SocketType BY <1>1, <1>2 DEF SocketType
<1>5. /\ d.state = state /\ d.remote = c.remote /\ d.ucRepCount = c.ucRepCount
      /\ d.bPassQueued = f2 /\ d.bPassAccept = f3
  BY <1>2 DEF SocketType
<1>6. QED BY <1>3, <1>4, <1>5 DEF d

LEMMA CloseTyped ==
  ASSUME NEW w \in Worlds, NEW s \in Sockets
  PROVE  /\ FreeRTOS_closesocket(w, s) \in Worlds
         /\ FreeRTOS_closesocket(w, s).sock = w.sock
         /\ FreeRTOS_closesocket(w, s).bound = w.bound
         /\ FreeRTOS_closesocket(w, s).listener = w.listener
         /\ FreeRTOS_closesocket(w, s).queue =
               IF Len(w.queue) < QueueLength THEN Append(w.queue, CloseEvent(s)) ELSE w.queue
PROOF
<1>1. w.queue \in Seq(Event) /\ CloseEvent(s) \in Event BY DEF Worlds, Event
<1>2. Append(w.queue, CloseEvent(s)) \in Seq(Event) BY <1>1, Appended
<1>3. QED BY <1>2 DEF FreeRTOS_closesocket, Worlds

LEMMA ChangeIs ==
  ASSUME NEW w \in Worlds, NEW s \in Sockets, NEW state \in States
  PROVE  LET v == vTCPStateChange(w, s, state)
             c == w.sock[s]
         IN  /\ v \in Worlds /\ v.bound = w.bound
             /\ v.sock[s] = Changed(c, state)
             /\ \A r \in Sockets : r # s => v.sock[r] = w.sock[r]
             /\ v.queue = IF IsRefused(c, state) THEN FreeRTOS_closesocket(w, s).queue
                          ELSE w.queue
             /\ v.listener = IF IsOffered(c, state) /\ w.listener.state # "freed"
                             THEN Told(w.listener, s) ELSE w.listener
PROOF
<1> DEFINE c == w.sock[s]
           given == IF IsRefused(c, state) THEN FreeRTOS_closesocket(w, s) ELSE w
           d == Changed(c, state)
           k == IF IsOffered(c, state) /\ w.listener.state # "freed"
                THEN Told(w.listener, s) ELSE w.listener
           v == vTCPStateChange(w, s, state)
<1>1. c \in SocketType /\ w.listener \in Listener BY DEF Worlds
<1>2. d \in SocketType BY <1>1, ChangedTyped
<1>3. k \in Listener BY <1>1 DEF Told, Listener
<1>4. given \in Worlds /\ given.sock = w.sock /\ given.bound = w.bound
      /\ given.listener = w.listener BY CloseTyped
<1>5. v = [given EXCEPT !.sock[s] = d,
                        !.listener = IF IsOffered(c, state) /\ @.state # "freed"
                                     THEN Told(@, s) ELSE @]
  BY DEF vTCPStateChange, Changed, IsOffered, Connects, IsRefused
<1> DEFINE p == Put(given, s, d)
<1>6. v = [p EXCEPT !.listener = k]
  <2> HIDE DEF given, d, v
  <2>1. QED BY <1>4, <1>5 DEF Put, Worlds
<1> HIDE DEF given, d, k, v, c
<1>7. /\ p \in Worlds /\ p.sock[s] = d /\ p.bound = given.bound /\ p.queue = given.queue
      /\ \A r \in Sockets : r # s => p.sock[r] = given.sock[r] BY <1>2, <1>4, PutIs
<1> HIDE DEF p
<1>8. /\ v \in Worlds /\ v.bound = w.bound /\ v.queue = given.queue /\ v.listener = k
      /\ v.sock[s] = d /\ \A r \in Sockets : r # s => v.sock[r] = w.sock[r]
  BY <1>3, <1>4, <1>6, <1>7 DEF Worlds
<1>9. QED BY <1>4, <1>8, CloseTyped DEF given, d, k, v, c

\* What the flags of a socket say of its state: an orphan has not connected,
\* and a child that is offered has.
StateOK(c) ==
  /\ c.bPassQueued => /\ ~ c.bPassAccept
                      /\ c.state \in {"eSYN_RECEIVED", "eCLOSED", "eCLOSE_WAIT"}
  /\ c.bPassAccept => c.state \notin {"eSYN_RECEIVED", "eCONNECT_SYN"}

\* The effects that an operation of the IP task has.  The other sockets of the
\* world are the same;
Others(w, v, s) == v \in Worlds /\ \A r \in Sockets : r # s => v.sock[r] = w.sock[r]

\* s stays where it is,
Keeps(c, d) ==
  /\ d.remote = c.remote /\ (d.bPassQueued <=> c.bPassQueued)
  /\ (d.bPassAccept <=> c.bPassAccept)
  /\ ~ prvTCPSocketIsActive(c.state) => d.state = c.state
  /\ StateOK(c) => StateOK(d)

Quiet(w, v, s) ==
  /\ Others(w, v, s) /\ Keeps(w.sock[s], v.sock[s])
  /\ v.bound = w.bound /\ v.queue = w.queue /\ v.listener = w.listener

\* an orphan is offered to the listener,
Offers(w, v, s) ==
  /\ Others(w, v, s) /\ v.bound = w.bound /\ v.queue = w.queue
  /\ w.sock[s].bPassQueued /\ prvTCPSocketIsActive(w.sock[s].state)
  /\ v.sock[s].remote = w.sock[s].remote
  /\ ~ v.sock[s].bPassQueued /\ v.sock[s].bPassAccept /\ StateOK(v.sock[s])
  /\ v.listener = IF w.listener.state # "freed" THEN Told(w.listener, s) ELSE w.listener

\* an orphan is reset, and an event asks for its deletion,
Refuses(w, v, s) ==
  /\ Others(w, v, s) /\ v.bound = w.bound /\ v.listener = w.listener
  /\ w.sock[s].bPassQueued /\ prvTCPSocketIsActive(w.sock[s].state)
  /\ v.sock[s].remote = w.sock[s].remote /\ v.sock[s].state = "eCLOSED"
  /\ v.sock[s].bPassQueued /\ ~ v.sock[s].bPassAccept
  /\ Len(w.queue) < QueueLength /\ v.queue = Append(w.queue, CloseEvent(s))

\* or s is deleted; when it is an orphan that has waited for too long,
Deletes(w, v, s) ==
  /\ Others(w, v, s) /\ v.sock[s] = Blank
  /\ v.bound = RemoveFirst(w.bound, s) /\ v.queue = w.queue
  /\ v.listener = [w.listener EXCEPT !.usChildCount =
        IF w.listener.state = "eTCP_LISTEN" /\ w.sock[s].remote # Server /\ @ > 0
        THEN @ - 1 ELSE @]

Abandons(w, v, s) ==
  /\ Deletes(w, v, s)
  /\ w.sock[s].bPassQueued /\ prvTCPSocketIsActive(w.sock[s].state)

\* a packet has one of the first three,
Handles(w, v, s) == Quiet(w, v, s) \/ Offers(w, v, s) \/ Refuses(w, v, s)

LEMMA QuietThenQuiet ==
  ASSUME NEW w, NEW v, NEW u, NEW s \in Sockets, Quiet(w, v, s), Quiet(v, u, s)
  PROVE  Quiet(w, u, s)
PROOF BY DEF Quiet, Keeps, Others

LEMMA QuietThenHandles ==
  ASSUME NEW w, NEW v, NEW u, NEW s \in Sockets, Quiet(w, v, s), Handles(v, u, s)
  PROVE  Handles(w, u, s)
PROOF
<1>1. CASE Quiet(v, u, s) BY <1>1, QuietThenQuiet DEF Handles
<1>2. CASE Offers(v, u, s)
  <2>1. Offers(w, u, s) BY <1>2 DEF Quiet, Keeps, Others, Offers
  <2>2. QED BY <2>1 DEF Handles
<1>3. CASE Refuses(v, u, s)
  <2>1. Refuses(w, u, s) BY <1>3 DEF Quiet, Keeps, Others, Refuses
  <2>2. QED BY <2>1 DEF Handles
<1>4. QED BY <1>1, <1>2, <1>3 DEF Handles

LEMMA QuietThenAbandons ==
  ASSUME NEW w, NEW v, NEW u, NEW s \in Sockets, Quiet(w, v, s), Deletes(v, u, s),
         w.sock[s].bPassQueued, prvTCPSocketIsActive(w.sock[s].state)
  PROVE  Abandons(w, u, s)
PROOF BY DEF Quiet, Keeps, Others, Deletes, Abandons

LEMMA PutQuiet ==
  ASSUME NEW w \in Worlds, NEW s \in Sockets, NEW c \in SocketType, Keeps(w.sock[s], c)
  PROVE  Quiet(w, Put(w, s, c), s)
PROOF BY PutIs DEF Quiet, Others

\* A change of state that neither offers a child nor asks for its deletion.
LEMMA ChangeQuiet ==
  ASSUME NEW w \in Worlds, NEW s \in Sockets, NEW state \in States,
         prvTCPSocketIsActive(w.sock[s].state),
         state \notin {"eSYN_RECEIVED", "eCONNECT_SYN"},
         w.sock[s].bPassQueued => state \in {"eCLOSED", "eCLOSE_WAIT"},
         IsRefused(w.sock[s], state) => ~ (Len(w.queue) < QueueLength)
  PROVE  Quiet(w, vTCPStateChange(w, s, state), s)
PROOF
<1> DEFINE c == w.sock[s]
           v == vTCPStateChange(w, s, state)
<1>1. c \in SocketType BY DEF Worlds
<1>2. ~ IsOffered(c, state) BY DEF IsOffered, Connects, NOW_CONNECTED
<1>3. /\ v \in Worlds /\ v.bound = w.bound /\ v.sock[s] = Changed(c, state)
      /\ \A r \in Sockets : r # s => v.sock[r] = w.sock[r]
      /\ v.queue = w.queue /\ v.listener = w.listener
  BY <1>2, ChangeIs, CloseTyped
<1> HIDE DEF v, c
<1>4. Keeps(c, v.sock[s]) BY <1>1, <1>2, <1>3, ChangedTyped DEF Keeps, StateOK, c
<1>5. QED BY <1>3, <1>4 DEF Quiet, Others, c, v

LEMMA ChangeOffers ==
  ASSUME NEW w \in Worlds, NEW s \in Sockets, StateOK(w.sock[s]),
         w.sock[s].bPassQueued, prvTCPSocketIsActive(w.sock[s].state)
  PROVE  Offers(w, vTCPStateChange(w, s, "eESTABLISHED"), s)
PROOF
<1> DEFINE c == w.sock[s]
           v == vTCPStateChange(w, s, "eESTABLISHED")
<1>1. c \in SocketType /\ "eESTABLISHED" \in States BY DEF Worlds, States
<1>2. IsOffered(c, "eESTABLISHED") /\ ~ IsRefused(c, "eESTABLISHED")
  BY DEF IsOffered, Connects, NOW_CONNECTED, StateOK, IsRefused
<1>3. /\ v \in Worlds /\ v.bound = w.bound /\ v.sock[s] = Changed(c, "eESTABLISHED")
      /\ \A r \in Sockets : r # s => v.sock[r] = w.sock[r]
      /\ v.queue = w.queue
      /\ v.listener = IF w.listener.state # "freed" THEN Told(w.listener, s) ELSE w.listener
  BY <1>1, <1>2, ChangeIs
<1> HIDE DEF v, c
<1>4. /\ v.sock[s].remote = c.remote /\ ~ v.sock[s].bPassQueued
      /\ v.sock[s].bPassAccept /\ v.sock[s].state = "eESTABLISHED"
  BY <1>1, <1>2, <1>3, ChangedTyped
<1>5. StateOK(v.sock[s]) BY <1>4 DEF StateOK
<1>6. QED BY <1>3, <1>4, <1>5 DEF Offers, Others, c, v

LEMMA ChangeRefuses ==
  ASSUME NEW w \in Worlds, NEW s \in Sockets, StateOK(w.sock[s]),
         w.sock[s].bPassQueued, prvTCPSocketIsActive(w.sock[s].state),
         Len(w.queue) < QueueLength
  PROVE  Refuses(w, vTCPStateChange(w, s, "eCLOSED"), s)
PROOF
<1> DEFINE c == w.sock[s]
           v == vTCPStateChange(w, s, "eCLOSED")
<1>1. c \in SocketType /\ "eCLOSED" \in States BY DEF Worlds, States
<1>2. ~ IsOffered(c, "eCLOSED") /\ IsRefused(c, "eCLOSED")
  BY DEF IsOffered, Connects, NOW_CONNECTED, StateOK, IsRefused, prvTCPSocketIsActive
<1>3. /\ v \in Worlds /\ v.bound = w.bound /\ v.sock[s] = Changed(c, "eCLOSED")
      /\ \A r \in Sockets : r # s => v.sock[r] = w.sock[r]
      /\ v.queue = Append(w.queue, CloseEvent(s)) /\ v.listener = w.listener
  <2>1. FreeRTOS_closesocket(w, s).queue = Append(w.queue, CloseEvent(s)) BY CloseTyped
  <2>2. QED BY <1>1, <1>2, <2>1, ChangeIs
<1> HIDE DEF v, c
<1>4. /\ v.sock[s].remote = c.remote /\ v.sock[s].bPassQueued
      /\ ~ v.sock[s].bPassAccept /\ v.sock[s].state = "eCLOSED"
  BY <1>1, <1>2, <1>3, ChangedTyped DEF StateOK, c
<1>5. QED BY <1>3, <1>4 DEF Refuses, Others, c, v

LEMMA BlankTyped == Blank \in SocketType
PROOF BY ConnectionAssumption DEF Blank, SocketType, States

LEMMA DeleteIs ==
  ASSUME NEW w \in Worlds, NEW s \in Sockets, s \in Range(w.bound), IsInjective(w.bound)
  PROVE  Deletes(w, vSocketClose(w, s), s)
PROOF
<1> DEFINE q == RemoveFirst(w.bound, s)
           l == [w.listener EXCEPT !.usChildCount =
                   IF w.listener.state = "eTCP_LISTEN" /\ w.sock[s].remote # Server /\ @ > 0
                   THEN @ - 1 ELSE @]
           p == Put(w, s, Blank)
           v == vSocketClose(w, s)
<1>1. q \in Seq(Sockets) BY Removed DEF Worlds
<1>2. l \in Listener BY DEF Worlds, Listener
<1>3. Blank \in SocketType BY BlankTyped
<1>4. /\ p \in Worlds /\ p.sock[s] = Blank /\ p.bound = w.bound /\ p.queue = w.queue
      /\ \A r \in Sockets : r # s => p.sock[r] = w.sock[r] BY <1>3, PutIs
<1> DEFINE k == [w.sock EXCEPT ![s] = Blank]
<1>5. v = [p EXCEPT !.bound = q, !.listener = l]
  <2> DEFINE n == IF /\ w.listener.state = "eTCP_LISTEN" /\ w.sock[s].remote # Server
                     /\ w.listener.usChildCount > 0
                  THEN w.listener.usChildCount - 1 ELSE w.listener.usChildCount
  <2>3. v = [w EXCEPT !.bound = q, !.sock[s] = Blank, !.listener.usChildCount = n]
    BY DEF vSocketClose
  <2>4. l = [w.listener EXCEPT !.usChildCount = n] OBVIOUS
  <2>1. v = [w EXCEPT !.bound = q, !.sock = k, !.listener = l]
    <3> HIDE DEF q, n, v
    <3>1. QED BY <2>3, <2>4 DEF Worlds
  <2>2. p = [w EXCEPT !.sock = k] BY DEF Put, Worlds
  <2> HIDE DEF q, l, k, p, v
  <2>5. QED BY <2>1, <2>2 DEF Worlds
<1> HIDE DEF p, v, q, l, k
<1>6. /\ v \in Worlds /\ v.sock[s] = Blank /\ v.bound = q /\ v.queue = w.queue /\ v.listener = l
      /\ \A r \in Sockets : r # s => v.sock[r] = w.sock[r]
  BY <1>1, <1>2, <1>4, <1>5 DEF Worlds
<1>7. QED BY <1>6 DEF Deletes, Others, q, l, v

-----------------------------------------------------------------------------
(* The operations themselves.                                                *)

LEMMA QuietItself ==
  ASSUME NEW w \in Worlds, NEW s \in Sockets
  PROVE  Quiet(w, w, s)
PROOF BY DEF Quiet, Others, Keeps

LEMMA QuietTyped ==
  ASSUME NEW w, NEW v, NEW s \in Sockets, Quiet(w, v, s), StateOK(w.sock[s])
  PROVE  v \in Worlds /\ StateOK(v.sock[s])
PROOF BY DEF Quiet, Others, Keeps

\* A socket that is connected is nobody's orphan and stays so.
LEMMA ConnectedChange ==
  ASSUME NEW w \in Worlds, NEW s \in Sockets, StateOK(w.sock[s]),
         NOW_CONNECTED(w.sock[s].state),
         NEW state \in States, state \notin {"eSYN_RECEIVED", "eCONNECT_SYN"}
  PROVE  Quiet(w, vTCPStateChange(w, s, state), s)
PROOF
<1>1. prvTCPSocketIsActive(w.sock[s].state) /\ ~ w.sock[s].bPassQueued
  BY DEF NOW_CONNECTED, prvTCPSocketIsActive, StateOK
<1>2. ~ IsRefused(w.sock[s], state) BY DEF IsRefused
<1>3. QED BY <1>1, <1>2, ChangeQuiet

LEMMA PrepareSendQuiet ==
  ASSUME NEW w \in Worlds, NEW s \in Sockets, StateOK(w.sock[s]),
         NEW txDone \in BOOLEAN, NEW silent \in BOOLEAN
  PROVE  Quiet(w, prvTCPPrepareSend(w, s, txDone, silent), s)
PROOF
<1> DEFINE c == w.sock[s]
           d == [c EXCEPT !.bUserShutdown = FALSE, !.bFinSent = TRUE]
           fin == c.state = "eESTABLISHED" /\ c.bUserShutdown /\ txDone
           put == Put(w, s, d)
           sent == IF fin THEN vTCPStateChange(put, s, "eFIN_WAIT_1") ELSE w
           v == prvTCPPrepareSend(w, s, txDone, silent)
<1>1. c \in SocketType BY DEF Worlds
<1>2. d \in SocketType /\ Keeps(c, d) BY <1>1 DEF SocketType, Keeps, StateOK
<1>3. v = IF c.state = "eESTABLISHED" /\ silent
          THEN vTCPStateChange(sent, s, "eCLOSE_WAIT") ELSE sent
  BY DEF prvTCPPrepareSend, Put
<1>4. {"eFIN_WAIT_1", "eCLOSE_WAIT"} \subseteq States BY DEF States
<1>5. Quiet(w, sent, s) /\ (c.state = "eESTABLISHED" => NOW_CONNECTED(sent.sock[s].state))
  <2>1. CASE ~ fin BY <2>1, QuietItself DEF NOW_CONNECTED
  <2>2. CASE fin
    <3>1. Quiet(w, put, s) /\ put \in Worlds /\ put.sock[s] = d BY <1>2, PutQuiet, PutIs
    <3>2. d.state = "eESTABLISHED" BY <1>1, <2>2 DEF SocketType
    <3>3. StateOK(put.sock[s]) /\ NOW_CONNECTED(put.sock[s].state)
      BY <1>2, <3>1, <3>2 DEF Keeps, NOW_CONNECTED
    <3> HIDE DEF put, d
    <3>4. Quiet(put, vTCPStateChange(put, s, "eFIN_WAIT_1"), s)
      BY <1>4, <3>1, <3>3, ConnectedChange
    <3>5. Quiet(w, sent, s) BY <2>2, <3>1, <3>4, QuietThenQuiet
    <3>6. vTCPStateChange(put, s, "eFIN_WAIT_1").sock[s].state = "eFIN_WAIT_1"
      <4>1. put.sock[s] \in SocketType BY <3>1 DEF Worlds
      <4>2. QED BY <1>4, <3>1, <4>1, ChangeIs, ChangedTyped
    <3>7. QED BY <2>2, <3>5, <3>6 DEF NOW_CONNECTED
  <2>3. QED BY <2>1, <2>2
<1> HIDE DEF sent, v, c
<1>6. CASE c.state = "eESTABLISHED" /\ silent
  <2>1. sent \in Worlds /\ StateOK(sent.sock[s]) BY <1>5, QuietTyped DEF c
  <2>2. Quiet(sent, v, s) BY <1>3, <1>4, <1>5, <1>6, <2>1, ConnectedChange
  <2>3. QED BY <1>5, <2>2, QuietThenQuiet DEF v
<1>7. CASE ~ (c.state = "eESTABLISHED" /\ silent) BY <1>3, <1>5, <1>7 DEF v
<1>8. QED BY <1>6, <1>7

LEMMA HandleFinQuiet ==
  ASSUME NEW w \in Worlds, NEW s \in Sockets, StateOK(w.sock[s]),
         NOW_CONNECTED(w.sock[s].state), NEW acksFin \in BOOLEAN
  PROVE  Quiet(w, prvTCPHandleFin(w, s, acksFin), s)
PROOF
<1> DEFINE c == w.sock[s]
           acked == c.bFinAcked \/ (c.bFinSent /\ acksFin)
           d == [c EXCEPT !.bFinSent = TRUE, !.bFinAcked = acked]
           put == Put(w, s, d)
           v == prvTCPHandleFin(w, s, acksFin)
<1>1. c \in SocketType BY DEF Worlds
<1>2. d \in SocketType /\ Keeps(c, d) /\ d.state = c.state
  <2>1. acked \in BOOLEAN OBVIOUS
  <2> HIDE DEF acked
  <2>2. QED BY <1>1, <2>1 DEF SocketType, Keeps, StateOK
<1>3. v = CASE ~ acked -> vTCPStateChange(put, s, "eLAST_ACK")
            [] acked /\ ~ c.bFinRecv -> put
            [] acked /\ c.bFinRecv -> vTCPStateChange(put, s, "eCLOSE_WAIT")
  BY DEF prvTCPHandleFin, Put
<1>4. Quiet(w, put, s) /\ put \in Worlds /\ put.sock[s] = d BY <1>2, PutQuiet, PutIs
<1>5. StateOK(put.sock[s]) /\ NOW_CONNECTED(put.sock[s].state)
  BY <1>2, <1>4 DEF Keeps
<1> HIDE DEF put, d, acked, v
<1>6. /\ Quiet(put, vTCPStateChange(put, s, "eLAST_ACK"), s)
      /\ Quiet(put, vTCPStateChange(put, s, "eCLOSE_WAIT"), s)
  <2>1. {"eLAST_ACK", "eCLOSE_WAIT"} \subseteq States BY DEF States
  <2>2. QED BY <1>4, <1>5, <2>1, ConnectedChange
<1>7. /\ Quiet(w, vTCPStateChange(put, s, "eLAST_ACK"), s)
      /\ Quiet(w, vTCPStateChange(put, s, "eCLOSE_WAIT"), s)
  BY <1>4, <1>6, QuietThenQuiet
<1>8. CASE ~ acked BY <1>3, <1>7, <1>8 DEF v
<1>9. CASE acked /\ ~ c.bFinRecv BY <1>3, <1>4, <1>9 DEF v
<1>10. CASE acked /\ c.bFinRecv BY <1>3, <1>7, <1>10 DEF v
<1>11. QED BY <1>8, <1>9, <1>10

LEMMA HandleSynReceivedHandles ==
  ASSUME NEW w \in Worlds, NEW s \in Sockets, StateOK(w.sock[s]), NEW flags,
         w.sock[s].state \in {"eSYN_RECEIVED", "eCONNECT_SYN"}
  PROVE  Handles(w, prvHandleSynReceived(w, s, flags), s)
PROOF
<1> DEFINE c == w.sock[s]
           v == prvHandleSynReceived(w, s, flags)
<1>1. v = vTCPStateChange(w, s, "eESTABLISHED") \/ v = vTCPStateChange(w, s, "eCLOSE_WAIT")
  BY DEF prvHandleSynReceived
<1>2. prvTCPSocketIsActive(c.state) BY DEF prvTCPSocketIsActive
<1>3. {"eESTABLISHED", "eCLOSE_WAIT"} \subseteq States BY DEF States
<1>4. ~ IsRefused(c, "eESTABLISHED") /\ ~ IsRefused(c, "eCLOSE_WAIT") BY DEF IsRefused
<1>5. Quiet(w, vTCPStateChange(w, s, "eCLOSE_WAIT"), s)
  BY <1>2, <1>3, <1>4, ChangeQuiet
<1>6. \/ Quiet(w, vTCPStateChange(w, s, "eESTABLISHED"), s)
      \/ Offers(w, vTCPStateChange(w, s, "eESTABLISHED"), s)
  <2>1. CASE c.bPassQueued BY <1>2, <2>1, ChangeOffers
  <2>2. CASE ~ c.bPassQueued BY <1>2, <1>3, <1>4, <2>2, ChangeQuiet
  <2>3. QED BY <2>1, <2>2
<1>7. QED BY <1>1, <1>5, <1>6 DEF Handles

LEMMA HandleEstablishedQuiet ==
  ASSUME NEW w \in Worlds, NEW s \in Sockets, StateOK(w.sock[s]), NEW flags,
         w.sock[s].state = "eESTABLISHED",
         NEW acksFin \in BOOLEAN, NEW txDone \in BOOLEAN, NEW all \in BOOLEAN
  PROVE  Quiet(w, prvHandleEstablished(w, s, flags, acksFin, txDone, all), s)
PROOF
<1> DEFINE c == w.sock[s]
           d == [c EXCEPT !.bFinAccepted = TRUE]
           put == Put(w, s, d)
           v == prvHandleEstablished(w, s, flags, acksFin, txDone, all)
<1>1. c \in SocketType BY DEF Worlds
<1>2. d \in SocketType /\ Keeps(c, d) /\ d.state = c.state
  BY <1>1 DEF SocketType, Keeps, StateOK
<1>3. put = [w EXCEPT !.sock[s].bFinAccepted = TRUE] BY DEF Put
<1>4. \/ v = prvTCPHandleFin(put, s, acksFin)
      \/ v = prvTCPPrepareSend(w, s, txDone, FALSE)
  BY <1>3 DEF prvHandleEstablished
<1>5. Quiet(w, put, s) /\ put \in Worlds /\ put.sock[s] = d BY <1>2, PutQuiet, PutIs
<1>6. StateOK(put.sock[s]) /\ NOW_CONNECTED(put.sock[s].state)
  BY <1>2, <1>5 DEF Keeps, NOW_CONNECTED
<1> HIDE DEF put, d, v
<1>7. Quiet(put, prvTCPHandleFin(put, s, acksFin), s) BY <1>5, <1>6, HandleFinQuiet
<1>8. Quiet(w, prvTCPHandleFin(put, s, acksFin), s) BY <1>5, <1>7, QuietThenQuiet
<1>9. Quiet(w, prvTCPPrepareSend(w, s, txDone, FALSE), s) BY PrepareSendQuiet
<1>10. QED BY <1>4, <1>8, <1>9 DEF v

LEMMA HandleStateHandles ==
  ASSUME NEW w \in Worlds, NEW s \in Sockets, StateOK(w.sock[s]), NEW flags,
         prvTCPSocketIsActive(w.sock[s].state),
         NEW acksFin \in BOOLEAN, NEW txDone \in BOOLEAN, NEW all \in BOOLEAN
  PROVE  Handles(w, prvTCPHandleState(w, s, flags, acksFin, txDone, all), s)
PROOF
<1> DEFINE c == w.sock[s]
           d == [c EXCEPT !.ucRepCount = 0, !.bFinRecv = @ \/ "FIN" \in flags]
           v == Put(w, s, d)
           u == prvTCPHandleState(w, s, flags, acksFin, txDone, all)
<1>1. c \in SocketType BY DEF Worlds
<1>2. d \in SocketType /\ Keeps(c, d) /\ d.state = c.state
  <2> DEFINE f == c.bFinRecv \/ "FIN" \in flags
  <2>1. f \in BOOLEAN /\ 0 \in 0 .. ConnectRepeats BY ConnectionAssumption
  <2> HIDE DEF f
  <2>2. [c EXCEPT !.ucRepCount = 0, !.bFinRecv = f] \in SocketType
    BY <1>1, <2>1 DEF SocketType
  <2>3. QED BY <1>1, <2>2 DEF SocketType, Keeps, StateOK, f
<1>3. u = CASE c.state = "eSYN_RECEIVED" /\ flags = {"SYN"} -> v
            [] c.state = "eCONNECT_SYN" \/ (c.state = "eSYN_RECEIVED" /\ flags # {"SYN"}) ->
                  prvHandleSynReceived(v, s, flags)
            [] c.state = "eESTABLISHED" -> prvHandleEstablished(v, s, flags, acksFin, txDone, all)
            [] c.state \in {"eFIN_WAIT_1", "eLAST_ACK"} -> prvTCPHandleFin(v, s, acksFin)
  BY DEF prvTCPHandleState, Put
<1>4. Quiet(w, v, s) /\ v \in Worlds /\ v.sock[s] = d BY <1>2, PutQuiet, PutIs
<1>5. StateOK(v.sock[s]) /\ v.sock[s].state = c.state BY <1>2, <1>4 DEF Keeps
<1> HIDE DEF v, d, u
<1>6. CASE c.state = "eSYN_RECEIVED" /\ flags = {"SYN"}
  <2>1. u = v BY <1>3, <1>6
  <2>2. QED BY <1>4, <2>1 DEF Handles, u
<1>7. CASE c.state = "eCONNECT_SYN" \/ (c.state = "eSYN_RECEIVED" /\ flags # {"SYN"})
  <2>1. u = prvHandleSynReceived(v, s, flags) BY <1>3, <1>7
  <2>2. Handles(v, u, s) BY <1>4, <1>5, <1>7, <2>1, HandleSynReceivedHandles
  <2>3. QED BY <1>4, <2>2, QuietThenHandles DEF u
<1>8. CASE c.state = "eESTABLISHED"
  <2>1. u = prvHandleEstablished(v, s, flags, acksFin, txDone, all) BY <1>3, <1>8
  <2>2. Quiet(v, u, s) BY <1>4, <1>5, <1>8, <2>1, HandleEstablishedQuiet
  <2>3. QED BY <1>4, <2>2, QuietThenQuiet DEF u, Handles
<1>9. CASE c.state \in {"eFIN_WAIT_1", "eLAST_ACK"}
  <2>1. u = prvTCPHandleFin(v, s, acksFin) BY <1>3, <1>9
  <2>2. NOW_CONNECTED(v.sock[s].state) BY <1>5, <1>9 DEF NOW_CONNECTED
  <2>3. Quiet(v, u, s) BY <1>4, <1>5, <2>1, <2>2, HandleFinQuiet
  <2>4. QED BY <1>4, <2>3, QuietThenQuiet DEF u, Handles
<1>10. c.state \in States BY <1>1 DEF SocketType
<1>11. QED BY <1>6, <1>7, <1>8, <1>9, <1>10 DEF States, prvTCPSocketIsActive

LEMMA ResetHandles ==
  ASSUME NEW w \in Worlds, NEW s \in Sockets, StateOK(w.sock[s]),
         prvTCPSocketIsActive(w.sock[s].state)
  PROVE  Handles(w, vTCPStateChange([w EXCEPT !.sock[s].ucRepCount = 0], s, "eCLOSED"), s)
PROOF
<1> DEFINE c == w.sock[s]
           d == [c EXCEPT !.ucRepCount = 0]
           v == Put(w, s, d)
           u == vTCPStateChange(v, s, "eCLOSED")
<1>1. c \in SocketType BY DEF Worlds
<1>2. d \in SocketType /\ Keeps(c, d) /\ d.state = c.state
      /\ d.bPassQueued = c.bPassQueued /\ d.bPassAccept = c.bPassAccept
  <2>1. 0 \in 0 .. ConnectRepeats BY ConnectionAssumption
  <2>2. QED BY <1>1, <2>1 DEF SocketType, Keeps, StateOK
<1>3. v = [w EXCEPT !.sock[s].ucRepCount = 0] BY DEF Put
<1>4. Quiet(w, v, s) /\ v \in Worlds /\ v.sock[s] = d BY <1>2, PutQuiet, PutIs
<1> HIDE DEF d
<1>5. StateOK(v.sock[s]) /\ prvTCPSocketIsActive(v.sock[s].state) BY <1>2, <1>4 DEF Keeps
<1> HIDE DEF v
<1>6. CASE v.sock[s].bPassQueued /\ Len(v.queue) < QueueLength
  <2>1. Refuses(v, u, s) BY <1>4, <1>5, <1>6, ChangeRefuses
  <2>2. QED BY <1>3, <1>4, <2>1, QuietThenHandles DEF Handles
<1>7. CASE ~ (v.sock[s].bPassQueued /\ Len(v.queue) < QueueLength)
  <2>1. IsRefused(v.sock[s], "eCLOSED") => ~ (Len(v.queue) < QueueLength)
    <3>1. SUFFICES ASSUME IsRefused(v.sock[s], "eCLOSED"), ~ v.sock[s].bPassQueued PROVE FALSE
      BY <1>7
    <3>2. v.sock[s].bPassAccept /\ ~ NOW_CONNECTED(v.sock[s].state) BY <3>1 DEF IsRefused
    <3>3. v.sock[s].state \in States BY <1>4, <1>1, <1>2 DEF SocketType
    <3>4. QED BY <1>5, <3>2, <3>3 DEF StateOK, NOW_CONNECTED, prvTCPSocketIsActive, States
  <2>2. "eCLOSED" \in States BY DEF States
  <2>3. Quiet(v, u, s) BY <1>4, <1>5, <2>1, <2>2, ChangeQuiet
  <2>4. QED BY <1>3, <1>4, <2>3, QuietThenHandles DEF Handles
<1>8. QED BY <1>6, <1>7

\* What a packet does.
LEMMA PacketHandles ==
  ASSUME World \in Worlds, \A s \in Sockets : StateOK(sock[s]), Bound \subseteq Sockets,
         NEW p, NEW flags, NEW acksFin \in BOOLEAN, NEW txDone \in BOOLEAN, NEW all \in BOOLEAN,
         xProcessReceivedTCPPacket(p, flags, acksFin, txDone, all)
  PROVE  \E s \in Bound : \E v : Handles(World, v, s) /\ Becomes(v)
PROOF
<1>1. PICK s \in Bound :
        /\ prvTCPSocketIsActive(sock[s].state)
        /\ Becomes(IF "RST" \in flags
                   THEN vTCPStateChange([World EXCEPT !.sock[s].ucRepCount = 0], s, "eCLOSED")
                   ELSE prvTCPHandleState(World, s, flags, acksFin, txDone, all))
  BY DEF xProcessReceivedTCPPacket
<1>2. s \in Sockets /\ World.sock[s] = sock[s] BY DEF World
<1>3. CASE "RST" \in flags
  <2>1. Handles(World, vTCPStateChange([World EXCEPT !.sock[s].ucRepCount = 0], s, "eCLOSED"), s)
    BY <1>1, <1>2, ResetHandles
  <2>2. QED BY <1>1, <1>3, <2>1
<1>4. CASE "RST" \notin flags
  <2>1. Handles(World, prvTCPHandleState(World, s, flags, acksFin, txDone, all), s)
    BY <1>1, <1>2, HandleStateHandles
  <2>2. QED BY <1>1, <1>4, <2>1
<1>5. QED BY <1>3, <1>4

LEMMA SendPacketQuiet ==
  ASSUME NEW w \in Worlds, NEW s \in Sockets, StateOK(w.sock[s]),
         w.sock[s].state = "eCONNECT_SYN", NEW hit \in BOOLEAN
  PROVE  Quiet(w, prvTCPSendPacket(w, s, hit), s)
PROOF
<1> DEFINE c == w.sock[s]
           d == IF c.bConnPrepared THEN c ELSE prvTCPPrepareConnect(c, hit)
           e == [d EXCEPT !.ucRepCount = IF d.bConnPrepared THEN @ + 1 ELSE @]
           v == prvTCPSendPacket(w, s, hit)
<1>1. c \in SocketType /\ ~ c.bPassQueued BY DEF Worlds, StateOK
<1>2. CASE c.ucRepCount >= ConnectRepeats
  <2>1. v = vTCPStateChange(w, s, "eCLOSE_WAIT") BY <1>2 DEF prvTCPSendPacket
  <2>2. "eCLOSE_WAIT" \in States /\ ~ IsRefused(c, "eCLOSE_WAIT") /\ prvTCPSocketIsActive(c.state)
    BY DEF States, IsRefused, prvTCPSocketIsActive
  <2>3. QED BY <1>1, <2>1, <2>2, ChangeQuiet
<1>3. CASE ~ (c.ucRepCount >= ConnectRepeats)
  <2>1. v = Put(w, s, e) BY <1>3 DEF prvTCPSendPacket, Put
  <2>2. c.ucRepCount \in Nat /\ ConnectRepeats \in Nat \ {0} /\ c.ucRepCount + 1 \in 0 .. ConnectRepeats
        /\ 0 \in 0 .. ConnectRepeats /\ 0 + 1 \in 0 .. ConnectRepeats
    BY <1>1, <1>3, ConnectionAssumption DEF SocketType
  <2>3. /\ d \in SocketType /\ d.state = c.state /\ d.remote = c.remote
        /\ d.bPassQueued = c.bPassQueued /\ d.bPassAccept = c.bPassAccept
        /\ (d.bConnPrepared => d.ucRepCount + 1 \in 0 .. ConnectRepeats)
    <3>1. CASE c.bConnPrepared BY <1>1, <2>2, <3>1
    <3>2. CASE ~ c.bConnPrepared
      <4> DEFINE n == IF hit THEN 0 ELSE c.ucRepCount + 1
      <4>1. d = [c EXCEPT !.bConnPrepared = hit, !.ucRepCount = n]
        BY <3>2 DEF prvTCPPrepareConnect
      <4>2. n \in 0 .. ConnectRepeats /\ (hit => n + 1 \in 0 .. ConnectRepeats) BY <2>2
      <4> HIDE DEF n, d
      <4>3. QED BY <1>1, <4>1, <4>2 DEF SocketType
    <3>3. QED BY <3>1, <3>2
  <2> HIDE DEF d
  <2>4. /\ e \in SocketType /\ e.state = c.state /\ e.remote = c.remote
        /\ e.bPassQueued = c.bPassQueued /\ e.bPassAccept = c.bPassAccept
    BY <2>3 DEF SocketType
  <2> HIDE DEF e
  <2>5. Keeps(c, e) BY <2>4 DEF Keeps, StateOK
  <2>6. QED BY <2>1, <2>4, <2>5, PutQuiet
<1>4. QED BY <1>2, <1>3

LEMMA WakeQuiet ==
  ASSUME NEW w \in Worlds, NEW s \in Sockets
  PROVE  Quiet(w, vSocketWakeUpUser(w, s), s)
PROOF
<1> DEFINE c == w.sock[s]
           f == c.eventGroup \/ c.eventBits
           d == [c EXCEPT !.eventGroup = f, !.eventBits = FALSE]
<1>1. c \in SocketType /\ f \in BOOLEAN BY DEF Worlds
<1>2. vSocketWakeUpUser(w, s) = Put(w, s, d) BY DEF vSocketWakeUpUser, Put
<1> HIDE DEF f
<1>3. d \in SocketType /\ Keeps(c, d) BY <1>1 DEF SocketType, Keeps, StateOK
<1>4. QED BY <1>2, <1>3, PutQuiet

LEMMA AgeCheckIs ==
  ASSUME NEW w \in Worlds, NEW s \in Sockets, StateOK(w.sock[s]), Ages(w.sock[s].state),
         s \in Range(w.bound), IsInjective(w.bound)
  PROVE  LET v == prvTCPStatusAgeCheck(w, s)
         IN  Quiet(w, v, s) \/ Abandons(w, v, s)
PROOF
<1> DEFINE v == vTCPStateChange(w, s, "eCLOSE_WAIT")
<1>1. prvTCPSocketIsActive(w.sock[s].state) /\ "eCLOSE_WAIT" \in States
  BY DEF Ages, prvTCPSocketIsActive, States
<1>2. Quiet(w, v, s) BY <1>1, ChangeQuiet DEF IsRefused
<1>3. prvTCPStatusAgeCheck(w, s) = IF v.sock[s].bPassQueued THEN vSocketClose(v, s) ELSE v
  BY DEF prvTCPStatusAgeCheck
<1>4. v \in Worlds /\ v.bound = w.bound /\ (v.sock[s].bPassQueued <=> w.sock[s].bPassQueued)
  BY <1>2 DEF Quiet, Others, Keeps
<1> HIDE DEF v
<1>5. CASE v.sock[s].bPassQueued
  <2>1. Deletes(v, vSocketClose(v, s), s) BY <1>4, DeleteIs
  <2>2. Abandons(w, vSocketClose(v, s), s) BY <1>1, <1>2, <1>4, <1>5, <2>1, QuietThenAbandons
  <2>3. QED BY <1>3, <1>5, <2>2
<1>6. CASE ~ v.sock[s].bPassQueued BY <1>2, <1>3, <1>6
<1>7. QED BY <1>5, <1>6

\* What a timer does.
LEMMA TimerIs ==
  ASSUME World \in Worlds, \A s \in Sockets : StateOK(sock[s]), IsInjective(bound),
         NEW s \in Sockets, NEW hit \in BOOLEAN, NEW txDone \in BOOLEAN,
         NEW silent \in BOOLEAN, NEW aged \in BOOLEAN,
         xTCPTimerCheck(s, hit, txDone, silent, aged)
  PROVE  s \in Bound /\ \E v : (Quiet(World, v, s) \/ Abandons(World, v, s)) /\ Becomes(v)
PROOF
<1> DEFINE state == sock[s].state
           sent == IF state = "eCONNECT_SYN" THEN prvTCPSendPacket(World, s, hit)
                   ELSE prvTCPPrepareSend(World, s, txDone, silent)
           v == xTCPSocketCheck(s, hit, txDone, silent, aged)
<1>1. s \in Bound BY DEF xTCPTimerCheck
<1>2. World.sock[s] = sock[s] /\ World.bound = bound BY DEF World
<1>3. Quiet(World, sent, s)
  <2>1. CASE state = "eCONNECT_SYN" BY <1>2, <2>1, SendPacketQuiet
  <2>2. CASE state # "eCONNECT_SYN" BY <1>2, <2>2, PrepareSendQuiet
  <2>3. QED BY <2>1, <2>2
<1>4. v = IF aged /\ Ages(state) /\ sent.sock[s].state = state
          THEN prvTCPStatusAgeCheck(sent, s) ELSE sent
  BY DEF xTCPSocketCheck
<1> HIDE DEF sent, v
<1>5. Quiet(World, v, s) \/ Abandons(World, v, s)
  <2>1. CASE aged /\ Ages(state) /\ sent.sock[s].state = state
    <3>1. sent \in Worlds /\ StateOK(sent.sock[s]) BY <1>2, <1>3, QuietTyped
    <3>2. sent.bound = bound BY <1>2, <1>3 DEF Quiet
    <3>3. Quiet(sent, v, s) \/ Abandons(sent, v, s)
      BY <1>1, <1>4, <2>1, <3>1, <3>2, AgeCheckIs DEF Bound
    <3>4. CASE Quiet(sent, v, s) BY <1>3, <3>4, QuietThenQuiet
    <3>5. CASE Abandons(sent, v, s)
      <4>1. World.sock[s].bPassQueued BY <1>3, <3>5 DEF Abandons, Quiet, Keeps
      <4>2. prvTCPSocketIsActive(World.sock[s].state)
        BY <1>2, <2>1 DEF Ages, prvTCPSocketIsActive
      <4>3. QED BY <1>3, <3>5, <4>1, <4>2, QuietThenAbandons DEF Abandons
    <3>6. QED BY <3>3, <3>4, <3>5
  <2>2. CASE ~ (aged /\ Ages(state) /\ sent.sock[s].state = state) BY <1>3, <1>4, <2>2
  <2>3. QED BY <2>1, <2>2
<1>6. Becomes(IF s \in Range(v.bound) THEN vSocketWakeUpUser(v, s) ELSE v)
  BY DEF xTCPTimerCheck, v
<1>7. CASE Quiet(World, v, s)
  <2>1. v \in Worlds /\ v.bound = bound BY <1>2, <1>7 DEF Quiet, Others
  <2>2. Quiet(World, vSocketWakeUpUser(v, s), s) BY <1>7, <2>1, WakeQuiet, QuietThenQuiet
  <2>3. QED BY <1>1, <1>6, <2>1, <2>2 DEF Bound
<1>8. CASE Abandons(World, v, s)
  <2>1. v.bound = RemoveFirst(bound, s) BY <1>2, <1>8 DEF Abandons, Deletes
  <2>2. bound \in Seq(Sockets) BY DEF World, Worlds
  <2>3. s \notin Range(v.bound) BY <1>1, <2>1, <2>2, Removed DEF Bound
  <2>4. QED BY <1>1, <1>6, <1>8, <2>3
<1>9. QED BY <1>5, <1>7, <1>8

-----------------------------------------------------------------------------
(* The inductive invariant.                                                  *)

\* Somebody has asked for the deletion of s.
Asked(s) == CloseEvent(s) \in Range(queue)

Typed ==
  /\ World \in Worlds /\ Len(queue) <= QueueLength
  /\ listener.usChildCount \in 0 .. Cardinality(Sockets)
  /\ server \in {"idle", "accept", "ask", "wait", "done", "none"}
  /\ client \in [at : {"none", "idle", "check", "wait"}, s : Sockets \cup {None}]
  /\ client.at \in {"check", "wait"} => client.s \in Sockets
  /\ owned \subseteq Sockets

\* A socket has at most one owner: the stack, which has not given it away yet
\* or has one close event for it, or a task.
SocketOK(s) ==
  /\ StateOK(sock[s])
  /\ s \notin Bound => /\ ~ sock[s].bPassQueued /\ ~ sock[s].bPassAccept
                       /\ s \notin owned /\ ~ Asked(s)
  /\ sock[s].bPassQueued => s \notin owned /\ (Asked(s) => sock[s].state = "eCLOSED")
  /\ sock[s].bPassAccept => s \notin owned /\ ~ Asked(s)
  /\ s \in owned => ~ Asked(s)

CloseOnce ==
  \A s \in Sockets, i, j \in DOMAIN queue :
     queue[i] = CloseEvent(s) /\ queue[j] = CloseEvent(s) => i = j

\* The count is that of the children; before the call of FreeRTOS_listen
\* there are none.
CountOK ==
  /\ ChildrenCounted
  /\ listener.state = "eCLOSED" => Children = {} /\ listener.usChildCount = 0

IInv ==
  /\ Typed /\ IsInjective(bound) /\ \A s \in Sockets : SocketOK(s)
  /\ CloseOnce /\ CountOK /\ OfferIsAcceptable

(* The sets that SocketCustody knows, and how one socket moves.              *)
Closing == {s \in Bound : CloseEvent(s) \in Range(queue)}
Orphans == {s \in Bound : sock[s].bPassQueued /\ CloseEvent(s) \notin Range(queue)}
Waiting == {s \in Bound : sock[s].bPassAccept}

Follows == Custody!Next \/ UNCHANGED Custody!vars

\* s is where it was.
Kept(s) == /\ (s \in Bound' <=> s \in Bound) /\ (s \in owned' <=> s \in owned)
           /\ (s \in Closing' <=> s \in Closing) /\ (s \in Orphans' <=> s \in Orphans)
           /\ (s \in Waiting' <=> s \in Waiting)

InSockets == Bound \subseteq Sockets /\ owned \subseteq Sockets

LEMMA RangeIn == ASSUME NEW S, NEW q \in Seq(S) PROVE Range(q) \subseteq S
PROOF
<1>1. DOMAIN q = 1 .. Len(q) BY LenProperties
<1>2. \A i \in 1 .. Len(q) : q[i] \in S BY ElementOfSeq
<1>3. QED BY <1>1, <1>2 DEF Range

LEMMA BoundIsIn == (Typed => InSockets) /\ (Typed' => InSockets')
PROOF
<1>1. Typed => bound \in Seq(Sockets) BY DEF Typed, World, Worlds
<1>2. Typed' => bound' \in Seq(Sockets) BY DEF Typed, World, Worlds
<1>3. QED BY <1>1, <1>2, RangeIn DEF InSockets, Typed, Bound

LEMMA AllStay ==
  ASSUME InSockets, InSockets', \A s \in Sockets : Kept(s)
  PROVE  Follows
PROOF
<1>1. Free' = Free BY DEF Kept, Free
<1>2. owned' = owned BY DEF Kept, InSockets
<1>3. /\ Closing \subseteq Sockets /\ Orphans \subseteq Sockets /\ Waiting \subseteq Sockets
      /\ Closing' \subseteq Sockets /\ Orphans' \subseteq Sockets /\ Waiting' \subseteq Sockets
  BY DEF Closing, Orphans, Waiting, InSockets
<1>4. Closing' = Closing /\ Orphans' = Orphans /\ Waiting' = Waiting BY <1>3 DEF Kept
<1>5. QED BY <1>1, <1>2, <1>4 DEF Follows, Custody!vars, Closing, Orphans, Waiting

\* The sets when only s moves
LEMMA OneMoves ==
  ASSUME InSockets, InSockets', NEW s \in Sockets, \A r \in Sockets : r # s => Kept(r)
  PROVE  /\ Free' = IF s \in Free' THEN Free \cup {s} ELSE Free \ {s}
         /\ owned' = IF s \in owned' THEN owned \cup {s} ELSE owned \ {s}
         /\ Closing' = IF s \in Closing' THEN Closing \cup {s} ELSE Closing \ {s}
         /\ Orphans' = IF s \in Orphans' THEN Orphans \cup {s} ELSE Orphans \ {s}
         /\ Waiting' = IF s \in Waiting' THEN Waiting \cup {s} ELSE Waiting \ {s}
PROOF
<1>1. /\ Closing \subseteq Sockets /\ Orphans \subseteq Sockets /\ Waiting \subseteq Sockets
      /\ Closing' \subseteq Sockets /\ Orphans' \subseteq Sockets /\ Waiting' \subseteq Sockets
      /\ Free \subseteq Sockets /\ Free' \subseteq Sockets
  BY DEF Closing, Orphans, Waiting, InSockets, Free
<1>2. \A r \in Sockets : r # s => (r \in Free' <=> r \in Free) BY DEF Kept, Free
<1>3. /\ Free' = IF s \in Free' THEN Free \cup {s} ELSE Free \ {s} BY <1>1, <1>2
<1>4. owned' = IF s \in owned' THEN owned \cup {s} ELSE owned \ {s} BY DEF Kept, InSockets
<1>5. Closing' = IF s \in Closing' THEN Closing \cup {s} ELSE Closing \ {s} BY <1>1 DEF Kept
<1>6. Orphans' = IF s \in Orphans' THEN Orphans \cup {s} ELSE Orphans \ {s} BY <1>1 DEF Kept
<1>7. Waiting' = IF s \in Waiting' THEN Waiting \cup {s} ELSE Waiting \ {s} BY <1>1 DEF Kept
<1>8. QED BY <1>3, <1>4, <1>5, <1>6, <1>7

\* The steps of SocketCustody
LEMMA CustodySteps ==
  ASSUME NEW s
  PROVE  /\ s \in Free /\ Free' = Free \ {s} /\ Orphans' = Orphans \cup {s}
               /\ UNCHANGED <<Waiting, owned, Closing>> => Follows
         /\ s \in Free /\ Free' = Free \ {s} /\ owned' = owned \cup {s}
               /\ UNCHANGED <<Orphans, Waiting, Closing>> => Follows
         /\ s \in Orphans /\ Orphans' = Orphans \ {s} /\ Waiting' = Waiting \cup {s}
               /\ UNCHANGED <<Free, owned, Closing>> => Follows
         /\ s \in Waiting /\ Waiting' = Waiting \ {s} /\ owned' = owned \cup {s}
               /\ UNCHANGED <<Free, Orphans, Closing>> => Follows
         /\ s \in Orphans /\ Orphans' = Orphans \ {s} /\ Free' = Free \cup {s}
               /\ UNCHANGED <<Waiting, owned, Closing>> => Follows
         /\ s \in Orphans /\ Orphans' = Orphans \ {s} /\ Closing' = Closing \cup {s}
               /\ UNCHANGED <<Free, Waiting, owned>> => Follows
         /\ s \in owned /\ owned' = owned \ {s} /\ Closing' = Closing \cup {s}
               /\ UNCHANGED <<Free, Orphans, Waiting>> => Follows
         /\ s \in Closing /\ Closing' = Closing \ {s} /\ Free' = Free \cup {s}
               /\ UNCHANGED <<Orphans, Waiting, owned>> => Follows
PROOF BY DEF Follows, Closing, Orphans, Waiting, Custody!Next, Custody!Arrive, Custody!Open,
             Custody!Offer, Custody!Accept, Custody!Abandon, Custody!Refuse, Custody!Close,
             Custody!Delete

\* A socket that nothing happens to stays where it is and keeps its owner.
LEMMA Untouched ==
  ASSUME NEW s \in Sockets, SocketOK(s), sock'[s] = sock[s],
         s \in Bound' <=> s \in Bound, s \in owned' <=> s \in owned, Asked(s)' <=> Asked(s)
  PROVE  SocketOK(s)' /\ Kept(s)
PROOF BY DEF SocketOK, Kept, Closing, Orphans, Waiting, Asked

\* The count when no child comes or goes
LEMMA CountStays ==
  ASSUME CountOK, bound' = bound, \A s \in Bound : sock'[s].remote = sock[s].remote,
         listener'.state = listener.state, listener'.usChildCount = listener.usChildCount
  PROVE  CountOK'
PROOF
<1>1. Bound' = Bound BY DEF Bound
<1>2. Children' = Children BY <1>1 DEF Children
<1>3. QED BY <1>2 DEF CountOK, ChildrenCounted

-----------------------------------------------------------------------------
(* The steps of the IP task.                                                 *)

LEMMA WorldBecomes ==
  ASSUME NEW v \in Worlds, Becomes(v)
  PROVE  World' \in Worlds
PROOF BY DEF Becomes, World, Worlds

LEMMA QuietStep ==
  ASSUME IInv, NEW s \in Bound, NEW v, Quiet(World, v, s), Becomes(v),
         UNCHANGED <<server, client, owned>>
  PROVE  IInv' /\ Follows
PROOF
<1>1. InSockets /\ s \in Sockets BY BoundIsIn DEF IInv, InSockets
<1>2. /\ bound' = bound /\ queue' = queue /\ listener' = listener
      /\ \A r \in Sockets : r # s => sock'[r] = sock[r]
      /\ Keeps(sock[s], sock'[s]) /\ World' \in Worlds
  BY WorldBecomes DEF Quiet, Others, Becomes, World
<1>3. Bound' = Bound /\ \A r \in Sockets : Asked(r)' <=> Asked(r) BY <1>2 DEF Bound, Asked
<1>4. Typed' BY <1>2 DEF IInv, Typed
<1>5. SocketOK(s)' /\ Kept(s)
  <2>1. SocketOK(s) BY <1>1 DEF IInv
  <2>2. SocketOK(s)' BY <1>1, <1>2, <1>3, <2>1 DEF SocketOK, Keeps, prvTCPSocketIsActive
  <2>3. Kept(s) BY <1>2, <1>3 DEF Kept, Closing, Orphans, Waiting, Keeps
  <2>4. QED BY <2>2, <2>3
<1>6. \A r \in Sockets : SocketOK(r)' /\ Kept(r)
  <2>1. ASSUME NEW r \in Sockets, r # s PROVE SocketOK(r)' /\ Kept(r)
    <3>1. SocketOK(r) /\ sock'[r] = sock[r] BY <1>2, <2>1 DEF IInv
    <3>2. QED BY <1>3, <3>1, Untouched
  <2>2. QED BY <1>5, <2>1
<1>7. IsInjective(bound)' /\ CloseOnce' BY <1>2 DEF IInv, CloseOnce
<1>8. CountOK'
  <2>1. \A r \in Bound : sock'[r].remote = sock[r].remote BY <1>1, <1>2 DEF Keeps, InSockets
  <2>2. QED BY <1>2, <2>1, CountStays DEF IInv
<1>9. OfferIsAcceptable'
  <2>1. \A r \in Sockets : sock[r].bPassAccept => sock'[r].bPassAccept BY <1>2 DEF Keeps
  <2>2. QED BY <1>1, <1>2, <1>3, <2>1 DEF IInv, OfferIsAcceptable, InSockets
<1>10. InSockets' BY <1>4, BoundIsIn
<1>11. Follows BY <1>1, <1>6, <1>10, AllStay
<1>12. QED BY <1>4, <1>6, <1>7, <1>8, <1>9, <1>11 DEF IInv

LEMMA OffersStep ==
  ASSUME IInv, NEW s \in Bound, NEW v, Offers(World, v, s), Becomes(v),
         UNCHANGED <<server, client, owned>>
  PROVE  IInv' /\ Follows
PROOF
<1>1. InSockets /\ s \in Sockets BY BoundIsIn DEF IInv, InSockets
<1>2. /\ bound' = bound /\ queue' = queue
      /\ listener' = IF listener.state # "freed" THEN Told(listener, s) ELSE listener
      /\ \A r \in Sockets : r # s => sock'[r] = sock[r]
      /\ sock[s].bPassQueued /\ prvTCPSocketIsActive(sock[s].state)
      /\ sock'[s].remote = sock[s].remote /\ StateOK(sock'[s])
      /\ ~ sock'[s].bPassQueued /\ sock'[s].bPassAccept /\ World' \in Worlds
  BY WorldBecomes DEF Offers, Others, Becomes, World
<1>3. Bound' = Bound /\ \A r \in Sockets : Asked(r)' <=> Asked(r) BY <1>2 DEF Bound, Asked
<1>4. listener \in Listener BY DEF IInv, Typed, World, Worlds
<1>5. /\ listener'.usChildCount = listener.usChildCount /\ listener'.state = listener.state
      /\ listener'.pxPeerSocket \in {listener.pxPeerSocket, s}
  BY <1>2, <1>4 DEF Told, Listener
<1>6. Typed' BY <1>2, <1>5 DEF IInv, Typed
<1>7. s \notin owned /\ ~ Asked(s) /\ ~ sock[s].bPassAccept
  <2>1. SocketOK(s) BY <1>1 DEF IInv
  <2>2. QED BY <1>2, <2>1 DEF SocketOK, StateOK, prvTCPSocketIsActive
<1>8. SocketOK(s)'
  <2>1. StateOK(sock[s])' BY <1>2 DEF StateOK
  <2>2. s \in Bound' /\ s \notin owned' /\ ~ Asked(s)' BY <1>1, <1>3, <1>7
  <2>3. QED BY <1>2, <2>1, <2>2 DEF SocketOK
<1>9. \A r \in Sockets : r # s => SocketOK(r)' /\ Kept(r)
  <2>1. ASSUME NEW r \in Sockets, r # s PROVE SocketOK(r)' /\ Kept(r)
    <3>1. SocketOK(r) /\ sock'[r] = sock[r] BY <1>2, <2>1 DEF IInv
    <3>2. QED BY <1>3, <3>1, Untouched
  <2>2. QED BY <2>1
<1>10. IsInjective(bound)' /\ CloseOnce' BY <1>2 DEF IInv, CloseOnce
<1>11. CountOK'
  <2>1. \A r \in Bound : sock'[r].remote = sock[r].remote BY <1>1, <1>2 DEF InSockets
  <2>2. QED BY <1>2, <1>5, <2>1, CountStays DEF IInv
<1>12. OfferIsAcceptable'
  <2>1. \A r \in Sockets : sock[r].bPassAccept => sock'[r].bPassAccept BY <1>2
  <2>2. QED BY <1>1, <1>2, <1>3, <1>5, <2>1 DEF IInv, OfferIsAcceptable, InSockets
<1>13. InSockets' BY <1>6, BoundIsIn
<1>14. Follows
  <2>1. /\ s \in Orphans /\ s \notin Orphans' /\ s \notin Waiting /\ s \in Waiting'
        /\ s \notin Closing /\ s \notin Closing' /\ s \notin Free /\ s \notin Free'
    BY <1>2, <1>3, <1>7 DEF Orphans, Waiting, Closing, Free, Asked
  <2>2. \A r \in Sockets : r # s => Kept(r) BY <1>9
  <2>3. /\ Orphans' = Orphans \ {s} /\ Waiting' = Waiting \cup {s}
        /\ UNCHANGED <<Free, owned, Closing>>
    BY <1>1, <1>13, <2>1, <2>2, OneMoves
  <2>4. QED BY <2>1, <2>3, CustodySteps
<1>15. QED BY <1>6, <1>8, <1>9, <1>10, <1>11, <1>12, <1>14 DEF IInv

\* A close event joins the queue.
LEMMA ClosePosted ==
  ASSUME IInv, NEW s \in Sockets, Len(queue) < QueueLength,
         queue' = Append(queue, CloseEvent(s))
  PROVE  /\ queue' \in Seq(Event) /\ Len(queue') <= QueueLength /\ Asked(s)'
         /\ \A r \in Sockets : r # s => (Asked(r)' <=> Asked(r))
         /\ ~ Asked(s) => CloseOnce'
PROOF
<1>1. queue \in Seq(Event) /\ CloseEvent(s) \in Event
  BY DEF IInv, Typed, World, Worlds, Event
<1>2. /\ queue' \in Seq(Event) /\ Range(queue') = Range(queue) \cup {CloseEvent(s)}
      /\ Len(queue') = Len(queue) + 1
  BY <1>1, Appended
<1>3. Asked(s)' /\ \A r \in Sockets : r # s => (Asked(r)' <=> Asked(r))
  BY <1>2 DEF Asked, CloseEvent
<1>4. Len(queue') <= QueueLength
  <2>1. Len(queue) \in Nat /\ QueueLength \in Nat BY <1>1, ConnectionAssumption, LenProperties
  <2>2. QED BY <1>2, <2>1
<1>5. ASSUME ~ Asked(s) PROVE CloseOnce'
  <2>1. /\ DOMAIN queue = 1 .. Len(queue) /\ DOMAIN queue' = 1 .. Len(queue) + 1
        /\ Len(queue) \in Nat /\ queue'[Len(queue) + 1] = CloseEvent(s)
        /\ \A i \in 1 .. Len(queue) : queue'[i] = queue[i]
    BY <1>1, <1>2, AppendProperties, LenProperties
  <2>2. \A i \in 1 .. Len(queue) : queue[i] # CloseEvent(s) BY <1>5, <2>1 DEF Asked, Range
  <2>3. \A i \in DOMAIN queue' : i \in 1 .. Len(queue) \/ i = Len(queue) + 1 BY <2>1
  <2>4. ASSUME NEW r \in Sockets, NEW i \in DOMAIN queue', NEW j \in DOMAIN queue',
               queue'[i] = CloseEvent(r), queue'[j] = CloseEvent(r)
        PROVE  i = j
    <3>1. CASE r = s BY <2>1, <2>2, <2>3, <2>4, <3>1
    <3>2. CASE r # s
      <4>1. CloseEvent(r) # CloseEvent(s) BY <3>2 DEF CloseEvent
      <4>2. i \in DOMAIN queue /\ j \in DOMAIN queue BY <2>1, <2>3, <2>4, <4>1
      <4>3. queue[i] = CloseEvent(r) /\ queue[j] = CloseEvent(r) BY <2>1, <2>4, <4>2
      <4>4. QED BY <4>2, <4>3 DEF IInv, CloseOnce
    <3>3. QED BY <3>1, <3>2
  <2>5. QED BY <2>4 DEF CloseOnce
<1>6. QED BY <1>2, <1>3, <1>4, <1>5

LEMMA RefusesStep ==
  ASSUME IInv, NEW s \in Bound, NEW v, Refuses(World, v, s), Becomes(v),
         UNCHANGED <<server, client, owned>>
  PROVE  IInv' /\ Follows
PROOF
<1>1. InSockets /\ s \in Sockets BY BoundIsIn DEF IInv, InSockets
<1>2. /\ bound' = bound /\ listener' = listener
      /\ Len(queue) < QueueLength /\ queue' = Append(queue, CloseEvent(s))
      /\ \A r \in Sockets : r # s => sock'[r] = sock[r]
      /\ sock[s].bPassQueued /\ prvTCPSocketIsActive(sock[s].state)
      /\ sock'[s].remote = sock[s].remote /\ sock'[s].state = "eCLOSED"
      /\ sock'[s].bPassQueued /\ ~ sock'[s].bPassAccept /\ World' \in Worlds
  BY WorldBecomes DEF Refuses, Others, Becomes, World
<1>5. /\ Bound' = Bound /\ Asked(s)'
      /\ \A r \in Sockets : r # s => (Asked(r)' <=> Asked(r))
  BY <1>1, <1>2, ClosePosted DEF Bound
<1>6. Typed' BY <1>1, <1>2, ClosePosted DEF IInv, Typed
<1>7. s \notin owned /\ ~ Asked(s) /\ ~ sock[s].bPassAccept
  <2>1. SocketOK(s) BY <1>1 DEF IInv
  <2>2. QED BY <1>2, <2>1 DEF SocketOK, StateOK, prvTCPSocketIsActive
<1>8. SocketOK(s)' BY <1>2, <1>5, <1>7 DEF SocketOK, StateOK
<1>9. \A r \in Sockets : r # s => SocketOK(r)' /\ Kept(r)
  <2>1. ASSUME NEW r \in Sockets, r # s PROVE SocketOK(r)' /\ Kept(r)
    <3>1. SocketOK(r) /\ sock'[r] = sock[r] BY <1>2, <2>1 DEF IInv
    <3>2. QED BY <1>5, <2>1, <3>1, Untouched
  <2>2. QED BY <2>1
<1>10. CloseOnce' BY <1>1, <1>2, <1>7, ClosePosted
<1>11. CountOK'
  <2>1. \A r \in Bound : sock'[r].remote = sock[r].remote BY <1>1, <1>2 DEF InSockets
  <2>2. QED BY <1>2, <2>1, CountStays DEF IInv
<1>12. OfferIsAcceptable'
  <2>1. \A r \in Sockets : sock[r].bPassAccept => sock'[r].bPassAccept BY <1>2, <1>7
  <2>2. QED BY <1>1, <1>2, <1>5, <2>1 DEF IInv, OfferIsAcceptable, InSockets
<1>13. InSockets' BY <1>6, BoundIsIn
<1>14. Follows
  <2>1. /\ s \in Orphans /\ s \notin Orphans' /\ s \notin Waiting /\ s \notin Waiting'
        /\ s \notin Closing /\ s \in Closing' /\ s \notin Free /\ s \notin Free'
    BY <1>2, <1>5, <1>7 DEF Orphans, Waiting, Closing, Free, Asked
  <2>2. \A r \in Sockets : r # s => Kept(r) BY <1>9
  <2>3. /\ Orphans' = Orphans \ {s} /\ Closing' = Closing \cup {s}
        /\ UNCHANGED <<Free, Waiting, owned>>
    BY <1>1, <1>13, <2>1, <2>2, OneMoves
  <2>4. QED BY <2>1, <2>3, CustodySteps
<1>15. IsInjective(bound)' BY <1>2 DEF IInv
<1>16. QED BY <1>6, <1>8, <1>9, <1>10, <1>11, <1>12, <1>14, <1>15 DEF IInv

\* What the deletion of a socket that waits for nobody leaves.
Deleted(s) ==
  /\ sock'[s] = Blank /\ \A r \in Sockets : r # s => sock'[r] = sock[r]
  /\ bound' = RemoveFirst(bound, s)
  /\ listener' = [listener EXCEPT !.usChildCount =
        IF listener.state = "eTCP_LISTEN" /\ sock[s].remote # Server /\ @ > 0
        THEN @ - 1 ELSE @]

LEMMA DeletedBound ==
  ASSUME IInv, NEW s \in Bound, bound' = RemoveFirst(bound, s)
  PROVE  Bound' = Bound \ {s} /\ IsInjective(bound)'
PROOF
<1>1. bound \in Seq(Sockets) /\ IsInjective(bound) BY DEF IInv, Typed, World, Worlds
<1>2. Range(RemoveFirst(bound, s)) = Range(bound) \ {s} /\ IsInjective(RemoveFirst(bound, s))
  BY <1>1, Removed DEF Bound
<1>3. QED BY <1>2 DEF Bound

LEMMA DeletedCount ==
  ASSUME IInv, NEW s \in Bound, Deleted(s)
  PROVE  CountOK' /\ listener'.usChildCount \in 0 .. Cardinality(Sockets)
PROOF
<1>1. InSockets /\ s \in Sockets BY BoundIsIn DEF IInv, InSockets
<1>2. Bound' = Bound \ {s} BY DeletedBound DEF Deleted
<1>3. listener \in Listener /\ listener.usChildCount \in 0 .. Cardinality(Sockets)
  BY DEF IInv, Typed, World, Worlds
<1>4. IsFiniteSet(Sockets) /\ Cardinality(Sockets) \in Nat BY ConnectionAssumption, FS_CardinalityType
<1>5. IsFiniteSet(Children) /\ Children \subseteq Sockets
  BY <1>1, <1>4, FS_Subset DEF Children, InSockets
<1>6. Children' = Children \ {s} BY <1>1, <1>2 DEF Children, Deleted, InSockets
<1>7. s \in Children <=> sock[s].remote # Server BY DEF Children
<1>8. Cardinality(Children') = IF s \in Children THEN Cardinality(Children) - 1 ELSE Cardinality(Children)
  BY <1>5, <1>6, FS_RemoveElement
<1>9. Cardinality(Children) \in Nat BY <1>5, FS_CardinalityType
<1>10. s \in Children => Cardinality(Children) > 0
  BY <1>5, <1>9, FS_EmptySet
<1>11. listener'.state = listener.state BY <1>3 DEF Deleted, Listener
<1>12. listener'.usChildCount =
         IF listener.state = "eTCP_LISTEN" /\ s \in Children /\ listener.usChildCount > 0
         THEN listener.usChildCount - 1 ELSE listener.usChildCount
  BY <1>3, <1>7 DEF Deleted, Listener
<1>13. listener'.usChildCount \in 0 .. Cardinality(Sockets) BY <1>3, <1>4, <1>12
<1>14. ChildrenCounted'
  <2>1. SUFFICES ASSUME listener.state = "eTCP_LISTEN"
        PROVE  /\ listener'.usChildCount = Cardinality(Children')
               /\ listener'.usChildCount <= Backlog
    BY <1>11 DEF ChildrenCounted
  <2>2. listener.usChildCount = Cardinality(Children) /\ listener.usChildCount <= Backlog
    BY <2>1 DEF IInv, CountOK, ChildrenCounted
  <2>3. Backlog \in Nat BY ConnectionAssumption
  <2>4. CASE s \in Children BY <1>8, <1>9, <1>10, <1>12, <2>1, <2>2, <2>3, <2>4
  <2>5. CASE s \notin Children BY <1>8, <1>12, <2>2, <2>5
  <2>6. QED BY <2>4, <2>5
<1>15. ASSUME listener'.state = "eCLOSED" PROVE Children' = {} /\ listener'.usChildCount = 0
  BY <1>6, <1>11, <1>12, <1>15 DEF IInv, CountOK
<1>16. QED BY <1>13, <1>14, <1>15 DEF CountOK

LEMMA DeletedOffer ==
  ASSUME IInv, NEW s \in Bound, Deleted(s), ~ sock[s].bPassAccept
  PROVE  OfferIsAcceptable'
PROOF
<1>1. InSockets BY BoundIsIn DEF IInv
<1>2. Bound' = Bound \ {s} BY DeletedBound DEF Deleted
<1>3. listener \in Listener BY DEF IInv, Typed, World, Worlds
<1>4. listener'.pxPeerSocket = listener.pxPeerSocket BY <1>3 DEF Deleted, Listener
<1>5. QED BY <1>1, <1>2, <1>4 DEF IInv, OfferIsAcceptable, InSockets, Deleted

\* A deletion by a timer
LEMMA AbandonsStep ==
  ASSUME IInv, NEW s \in Bound, NEW v, Abandons(World, v, s), Becomes(v),
         UNCHANGED <<server, client, owned>>
  PROVE  IInv' /\ Follows
PROOF
<1>1. InSockets /\ s \in Sockets BY BoundIsIn DEF IInv, InSockets
<1>2. /\ Deleted(s) /\ queue' = queue /\ World' \in Worlds
      /\ sock[s].bPassQueued /\ prvTCPSocketIsActive(sock[s].state)
  BY WorldBecomes DEF Abandons, Deletes, Others, Becomes, World, Deleted
<1>3. Bound' = Bound \ {s} /\ IsInjective(bound)' /\ \A r \in Sockets : Asked(r)' <=> Asked(r)
  BY <1>2, DeletedBound DEF Asked, Deleted
<1>4. s \notin owned /\ ~ Asked(s) /\ ~ sock[s].bPassAccept
  <2>1. SocketOK(s) BY <1>1 DEF IInv
  <2>2. QED BY <1>2, <2>1 DEF SocketOK, StateOK, prvTCPSocketIsActive
<1>5. CountOK' /\ listener'.usChildCount \in 0 .. Cardinality(Sockets) BY <1>2, DeletedCount
<1>6. OfferIsAcceptable' BY <1>2, <1>4, DeletedOffer
<1>7. Typed' BY <1>2, <1>5 DEF IInv, Typed
<1>8. SocketOK(s)'
  <2>1. sock'[s] = Blank BY <1>2 DEF Deleted
  <2>2. QED BY <1>3, <1>4, <2>1, <1>1 DEF SocketOK, StateOK, Blank
<1>9. \A r \in Sockets : r # s => SocketOK(r)' /\ Kept(r)
  <2>1. ASSUME NEW r \in Sockets, r # s PROVE SocketOK(r)' /\ Kept(r)
    <3>1. SocketOK(r) /\ sock'[r] = sock[r] BY <1>2, <2>1 DEF IInv, Deleted
    <3>2. QED BY <1>3, <2>1, <3>1, Untouched
  <2>2. QED BY <2>1
<1>10. CloseOnce' BY <1>2 DEF IInv, CloseOnce
<1>11. InSockets' BY <1>7, BoundIsIn
<1>12. Follows
  <2>1. /\ s \in Orphans /\ s \notin Orphans' /\ s \notin Waiting /\ s \notin Waiting'
        /\ s \notin Closing /\ s \notin Closing' /\ s \notin Free /\ s \in Free'
    BY <1>1, <1>2, <1>3, <1>4 DEF Orphans, Waiting, Closing, Free, Asked
  <2>2. \A r \in Sockets : r # s => Kept(r) BY <1>9
  <2>3. /\ Orphans' = Orphans \ {s} /\ Free' = Free \cup {s}
        /\ UNCHANGED <<Waiting, owned, Closing>>
    BY <1>1, <1>4, <1>11, <2>1, <2>2, OneMoves
  <2>4. QED BY <2>1, <2>3, CustodySteps
<1>13. QED BY <1>3, <1>5, <1>6, <1>7, <1>8, <1>9, <1>10, <1>12 DEF IInv

\* An event that is taken from the queue
LEMMA EventTaken ==
  ASSUME IInv, queue # <<>>, queue' = Tail(queue)
  PROVE  /\ Tail(queue) \in Seq(Event) /\ Head(queue) \in Event
         /\ Len(queue') <= QueueLength /\ CloseOnce'
         /\ \A r \in Sockets : Head(queue) # CloseEvent(r) => (Asked(r)' <=> Asked(r))
         /\ \A r \in Sockets : Head(queue) = CloseEvent(r) => Asked(r) /\ ~ Asked(r)'
PROOF
<1>1. queue \in Seq(Event) /\ Len(queue) <= QueueLength BY DEF IInv, Typed, World, Worlds
<1> DEFINE q == Tail(queue)
<1>2. /\ q \in Seq(Event) /\ Head(queue) \in Event /\ Head(queue) = queue[1]
      /\ Len(q) = Len(queue) - 1 /\ \A i \in 1 .. Len(q) : q[i] = queue[i + 1]
      /\ Len(queue) \in Nat \ {0}
  BY <1>1, HeadTailProperties, EmptySeq
<1> HIDE DEF q
<1>3. DOMAIN queue = 1 .. Len(queue) /\ DOMAIN q = 1 .. Len(queue) - 1
  BY <1>1, <1>2, LenProperties
<1>4. queue' = q BY DEF q
<1>5. Len(queue') <= QueueLength BY <1>1, <1>2, <1>4, ConnectionAssumption
<1>6. ASSUME NEW r \in Sockets, NEW i \in DOMAIN q, NEW j \in DOMAIN q,
             q[i] = CloseEvent(r), q[j] = CloseEvent(r)
      PROVE  i = j
  <2>1. i + 1 \in DOMAIN queue /\ j + 1 \in DOMAIN queue
        /\ queue[i + 1] = CloseEvent(r) /\ queue[j + 1] = CloseEvent(r)
    BY <1>2, <1>3, <1>6
  <2>2. i + 1 = j + 1 BY <2>1 DEF IInv, CloseOnce
  <2>3. QED BY <1>2, <1>3, <2>2
<1>7. CloseOnce' BY <1>4, <1>6 DEF CloseOnce
<1>8. \A i \in DOMAIN q : i + 1 \in DOMAIN queue /\ q[i] = queue[i + 1] BY <1>2, <1>3
<1>9. \A i \in DOMAIN queue : i = 1 \/ (i - 1 \in DOMAIN q /\ q[i - 1] = queue[i])
  BY <1>2, <1>3
<1>10. 1 \in DOMAIN queue /\ Range(queue) = {Head(queue)} \cup Range(q)
  <2>1. 1 \in DOMAIN queue BY <1>2, <1>3
  <2>2. QED BY <1>2, <1>8, <1>9, <2>1 DEF Range
<1>11. ASSUME NEW r \in Sockets, Head(queue) # CloseEvent(r) PROVE Asked(r)' <=> Asked(r)
  BY <1>4, <1>10, <1>11 DEF Asked
<1>12. ASSUME NEW r \in Sockets, Head(queue) = CloseEvent(r) PROVE Asked(r) /\ ~ Asked(r)'
  <2>1. Asked(r) BY <1>10, <1>12 DEF Asked
  <2>2. ASSUME NEW i \in DOMAIN q, q[i] = CloseEvent(r) PROVE FALSE
    <3>1. i + 1 \in DOMAIN queue /\ queue[i + 1] = CloseEvent(r) BY <1>8, <2>2
    <3>2. queue[1] = CloseEvent(r) BY <1>2, <1>12
    <3>3. i + 1 = 1 BY <1>10, <3>1, <3>2 DEF IInv, CloseOnce
    <3>4. QED BY <1>2, <1>3, <3>3
  <2>3. QED BY <1>4, <2>1, <2>2 DEF Asked, Range
<1>13. QED BY <1>2, <1>4, <1>5, <1>7, <1>11, <1>12

LEMMA NextWorld ==
  ASSUME sock' \in [Sockets -> SocketType], bound' \in Seq(Sockets),
         listener' \in Listener, queue' \in Seq(Event)
  PROVE  World' \in Worlds
PROOF BY DEF World, Worlds

LEMMA WorldTypes ==
  ASSUME Typed
  PROVE  /\ sock \in [Sockets -> SocketType] /\ bound \in Seq(Sockets)
         /\ listener \in Listener /\ queue \in Seq(Event) /\ World \in Worlds
         /\ World.sock = sock /\ World.bound = bound /\ World.listener = listener
         /\ World.queue = queue
PROOF BY DEF Typed, World, Worlds

\* Nothing happens to the sockets.
LEMMA NobodyMoves ==
  ASSUME IInv, Typed', UNCHANGED <<sock, bound, owned>>,
         \A r \in Sockets : Asked(r)' <=> Asked(r)
  PROVE  (\A r \in Sockets : SocketOK(r)') /\ Follows /\ IsInjective(bound)' /\ Bound' = Bound
PROOF
<1>1. Bound' = Bound BY DEF Bound
<1>2. ASSUME NEW r \in Sockets PROVE SocketOK(r)' /\ Kept(r)
  <2>1. SocketOK(r) /\ sock'[r] = sock[r] BY DEF IInv
  <2>2. QED BY <1>1, <2>1, Untouched
<1>3. InSockets /\ InSockets' BY BoundIsIn DEF IInv
<1>4. QED BY <1>1, <1>2, <1>3, AllStay DEF IInv

LEMMA HandleCloseStep == ASSUME IInv, HandleClose PROVE IInv' /\ Follows
PROOF
<1>0. PICK s : s = Head(queue).s OBVIOUS
<1> DEFINE w == [World EXCEPT !.queue = Tail(@)]
<1>1. /\ queue # <<>> /\ Head(queue).type = "eSocketCloseEvent"
      /\ UNCHANGED <<server, client, owned>>
      /\ Becomes(IF s \in Sockets THEN vSocketClose(w, s)
                 ELSE [w EXCEPT !.listener.state = "freed", !.listener.pxPeerSocket = None])
  BY <1>0 DEF HandleClose, IsEvent
<1>2. /\ sock \in [Sockets -> SocketType] /\ bound \in Seq(Sockets) /\ listener \in Listener
      /\ queue \in Seq(Event) /\ World \in Worlds
      /\ World.sock = sock /\ World.bound = bound /\ World.listener = listener
      /\ World.queue = queue
  BY WorldTypes DEF IInv
<1>3. Tail(queue) \in Seq(Event) /\ Head(queue) \in Event BY <1>1, <1>2, HeadTailProperties
<1>4. /\ w \in Worlds /\ w.sock = sock /\ w.bound = bound /\ w.listener = listener
      /\ w.queue = Tail(queue)
  BY <1>2, <1>3 DEF Worlds
<1>5. Head(queue) = CloseEvent(s) BY <1>0, <1>1, <1>3 DEF Event, CloseEvent
<1> HIDE DEF w
<1>6. InSockets BY BoundIsIn DEF IInv
<1>7. CASE s \in Sockets
  <2> DEFINE v == vSocketClose(w, s)
  <2>1. Asked(s)
    <3>1. 1 \in DOMAIN queue /\ Head(queue) = queue[1]
      BY <1>1, <1>2, HeadTailProperties, LenProperties, EmptySeq
    <3>2. QED BY <1>5, <3>1 DEF Asked, Range
  <2>2. SocketOK(s) BY <1>7 DEF IInv
  <2>3. s \in Bound /\ s \notin owned /\ ~ sock[s].bPassAccept
    BY <2>1, <2>2 DEF SocketOK
  <2>4. Deletes(w, v, s) /\ Becomes(v)
    <3>1. s \in Range(w.bound) /\ IsInjective(w.bound) BY <1>4, <2>3 DEF Bound, IInv
    <3>2. QED BY <1>1, <1>4, <1>7, <3>1, DeleteIs
  <2> HIDE DEF v
  <2>5. Deleted(s) /\ queue' = Tail(queue) /\ World' \in Worlds
    BY <1>4, <2>4, WorldBecomes DEF Deletes, Others, Becomes, Deleted
  <2>6. Bound' = Bound \ {s} /\ IsInjective(bound)' BY <2>3, <2>5, DeletedBound DEF Deleted
  <2>7. CountOK' /\ listener'.usChildCount \in 0 .. Cardinality(Sockets)
    BY <2>3, <2>5, DeletedCount
  <2>8. OfferIsAcceptable' BY <2>3, <2>5, DeletedOffer
  <2>9. /\ Len(queue') <= QueueLength /\ CloseOnce' /\ ~ Asked(s)'
        /\ \A r \in Sockets : r # s => (Asked(r)' <=> Asked(r))
    <3>1. \A r \in Sockets : r # s => Head(queue) # CloseEvent(r) BY <1>5 DEF CloseEvent
    <3>2. QED BY <1>1, <1>5, <1>7, <2>5, <3>1, EventTaken
  <2>10. Typed' BY <1>1, <2>5, <2>7, <2>9 DEF IInv, Typed
  <2>11. SocketOK(s)'
    <3>1. sock'[s] = Blank BY <2>5 DEF Deleted
    <3>2. QED BY <1>1, <2>3, <2>6, <2>9, <3>1 DEF SocketOK, StateOK, Blank
  <2>12. \A r \in Sockets : r # s => SocketOK(r)' /\ Kept(r)
    <3>1. ASSUME NEW r \in Sockets, r # s PROVE SocketOK(r)' /\ Kept(r)
      <4>1. SocketOK(r) /\ sock'[r] = sock[r] BY <2>5, <3>1 DEF IInv, Deleted
      <4>2. r \in owned' <=> r \in owned BY <1>1
      <4>3. QED BY <2>6, <2>9, <3>1, <4>1, <4>2, Untouched
    <3>2. QED BY <3>1
  <2>13. InSockets' BY <2>10, BoundIsIn
  <2>14. Follows
    <3>1. /\ s \in Closing /\ s \notin Closing' /\ s \notin Orphans /\ s \notin Orphans'
          /\ s \notin Waiting /\ s \notin Waiting' /\ s \notin Free /\ s \in Free'
      BY <1>7, <2>1, <2>3, <2>6 DEF Orphans, Waiting, Closing, Free, Asked
    <3>2. s \notin owned' BY <1>1, <2>3
    <3>3. /\ Closing' = Closing \ {s} /\ Free' = Free \cup {s}
          /\ UNCHANGED <<Orphans, Waiting, owned>>
      BY <1>6, <1>7, <2>3, <2>12, <2>13, <3>1, <3>2, OneMoves
    <3>4. QED BY <3>1, <3>3, CustodySteps
  <2>15. QED BY <1>7, <2>6, <2>7, <2>8, <2>9, <2>10, <2>11, <2>12, <2>14 DEF IInv
<1>8. CASE s \notin Sockets
  <2>1. /\ sock' = sock /\ bound' = bound /\ queue' = Tail(queue)
        /\ listener' = [listener EXCEPT !.state = "freed", !.pxPeerSocket = None]
    BY <1>1, <1>4, <1>8 DEF Becomes, Worlds
  <2>2. /\ listener' \in Listener /\ listener'.usChildCount = listener.usChildCount
        /\ listener'.state = "freed" /\ listener'.pxPeerSocket = None
    BY <1>2, <2>1 DEF Listener
  <2>3. World' \in Worlds BY <1>2, <1>3, <2>1, <2>2, NextWorld
  <2>4. /\ Len(queue') <= QueueLength /\ CloseOnce'
        /\ \A r \in Sockets : Asked(r)' <=> Asked(r)
    <3>1. \A r \in Sockets : Head(queue) # CloseEvent(r) BY <1>5, <1>8 DEF CloseEvent
    <3>2. QED BY <1>1, <2>1, <3>1, EventTaken
  <2>5. Typed' BY <1>1, <2>2, <2>3, <2>4 DEF IInv, Typed
  <2>6. (\A r \in Sockets : SocketOK(r)') /\ Follows /\ IsInjective(bound)'
    BY <1>1, <2>1, <2>4, <2>5, NobodyMoves
  <2>7. CountOK' BY <2>2 DEF CountOK, ChildrenCounted
  <2>8. OfferIsAcceptable' BY <2>2 DEF OfferIsAcceptable
  <2>9. QED BY <2>4, <2>5, <2>6, <2>7, <2>8 DEF IInv
<1>9. QED BY <1>7, <1>8

LEMMA HandleAcceptStep == ASSUME IInv, HandleAccept PROVE IInv' /\ Follows
PROOF
<1>1. /\ queue # <<>> /\ Head(queue).type = "eTCPAcceptEvent" /\ queue' = Tail(queue)
      /\ UNCHANGED <<sock, bound, server, client, owned>>
      /\ \/ listener' = listener
         \/ \E i \in DOMAIN bound :
               /\ sock[bound[i]].bPassAccept
               /\ listener' = [listener EXCEPT !.pxPeerSocket = bound[i], !.eventGroup = TRUE]
  BY DEF HandleAccept, IsEvent
<1>2. /\ sock \in [Sockets -> SocketType] /\ bound \in Seq(Sockets) /\ listener \in Listener
  BY WorldTypes DEF IInv
<1>3. /\ Tail(queue) \in Seq(Event) /\ Len(queue') <= QueueLength /\ CloseOnce'
      /\ \A r \in Sockets : Asked(r)' <=> Asked(r)
  <2>1. \A r \in Sockets : Head(queue) # CloseEvent(r)
    <3>1. \A r : CloseEvent(r).type = "eSocketCloseEvent" BY DEF CloseEvent
    <3>2. QED BY <1>1, <3>1
  <2>2. QED BY <1>1, <2>1, EventTaken
<1>4. /\ listener' \in Listener /\ listener'.usChildCount = listener.usChildCount
      /\ listener'.state = listener.state /\ OfferIsAcceptable'
  <2>1. CASE listener' = listener BY <1>1, <1>2, <2>1 DEF IInv, OfferIsAcceptable, Bound
  <2>2. ASSUME NEW i \in DOMAIN bound, sock[bound[i]].bPassAccept,
               listener' = [listener EXCEPT !.pxPeerSocket = bound[i], !.eventGroup = TRUE]
        PROVE  /\ listener' \in Listener /\ listener'.usChildCount = listener.usChildCount
               /\ listener'.state = listener.state /\ OfferIsAcceptable'
    <3>1. bound[i] \in Sockets /\ bound[i] \in Bound
      BY <1>2, LenProperties, ElementOfSeq DEF Bound, Range
    <3>2. /\ listener' \in Listener /\ listener'.usChildCount = listener.usChildCount
          /\ listener'.state = listener.state /\ listener'.pxPeerSocket = bound[i]
      BY <1>2, <2>2, <3>1 DEF Listener
    <3>3. OfferIsAcceptable' BY <1>1, <2>2, <3>1, <3>2 DEF OfferIsAcceptable, Bound
    <3>4. QED BY <3>2, <3>3
  <2>3. QED BY <1>1, <2>1, <2>2
<1>5. World' \in Worlds BY <1>1, <1>2, <1>3, <1>4, NextWorld
<1>6. Typed' BY <1>1, <1>3, <1>4, <1>5 DEF IInv, Typed
<1>7. (\A r \in Sockets : SocketOK(r)') /\ Follows /\ IsInjective(bound)'
  BY <1>1, <1>3, <1>6, NobodyMoves
<1>8. CountOK'
  <2>1. bound' = bound /\ \A r \in Bound : sock'[r].remote = sock[r].remote BY <1>1
  <2>2. QED BY <1>4, <2>1, CountStays DEF IInv
<1>9. QED BY <1>3, <1>4, <1>6, <1>7, <1>8 DEF IInv

-----------------------------------------------------------------------------
(* A new child.                                                              *)

LEMMA Allocated == ASSUME NEW s \in NextFree PROVE s \in Free
PROOF BY DEF NextFree

\* What a new socket at the end of the list leaves.
LEMMA NewBound ==
  ASSUME IInv, NEW s \in Free, bound' = Append(bound, s)
  PROVE  bound' \in Seq(Sockets) /\ Bound' = Bound \cup {s} /\ IsInjective(bound)'
PROOF
<1>1. bound \in Seq(Sockets) /\ IsInjective(bound) /\ s \in Sockets /\ s \notin Range(bound)
  BY WorldTypes DEF IInv, Free, Bound
<1>2. QED BY <1>1, Appended DEF Bound

LEMMA HandleListenStep ==
  ASSUME IInv, NEW p, prvHandleListen(p)
  PROVE  IInv' /\ Follows
PROOF
<1>1. PICK s \in NextFree :
        /\ sock' = [sock EXCEPT ![s] =
              [Blank EXCEPT !.remote = p, !.bPassQueued = TRUE,
                            !.pxPeerSocket = TRUE, !.state = "eSYN_RECEIVED"]]
        /\ bound' = Append(bound, s)
  BY DEF prvHandleListen
<1>2. /\ p \in Peers /\ listener.state = "eTCP_LISTEN" /\ listener.usChildCount < Backlog
      /\ listener' = [listener EXCEPT !.usChildCount = @ + 1]
      /\ UNCHANGED <<queue, server, client, owned>>
  BY DEF prvHandleListen
<1>3. s \in Free /\ s \in Sockets /\ s \notin Bound BY Allocated DEF Free
<1>4. /\ sock \in [Sockets -> SocketType] /\ bound \in Seq(Sockets) /\ listener \in Listener
      /\ queue \in Seq(Event)
  BY WorldTypes DEF IInv
<1> DEFINE c == [Blank EXCEPT !.remote = p, !.bPassQueued = TRUE,
                              !.pxPeerSocket = TRUE, !.state = "eSYN_RECEIVED"]
<1>5. /\ c \in SocketType /\ c.remote = p /\ c.bPassQueued /\ ~ c.bPassAccept
      /\ c.state = "eSYN_RECEIVED"
  <2>1. Blank \in SocketType /\ "eSYN_RECEIVED" \in States BY BlankTyped DEF States
  <2>2. c \in SocketType /\ c.remote = p /\ c.bPassQueued /\ c.state = "eSYN_RECEIVED"
        /\ c.bPassAccept = Blank.bPassAccept
    BY <1>2, <2>1 DEF SocketType
  <2>3. QED BY <2>2 DEF Blank
<1>6. /\ sock' \in [Sockets -> SocketType] /\ sock'[s] = c
      /\ \A r \in Sockets : r # s => sock'[r] = sock[r]
  BY <1>1, <1>3, <1>4, <1>5
<1> HIDE DEF c
<1>7. bound' \in Seq(Sockets) /\ Bound' = Bound \cup {s} /\ IsInjective(bound)'
  BY <1>1, <1>3, NewBound
<1>8. /\ listener' \in Listener /\ listener'.usChildCount = listener.usChildCount + 1
      /\ listener'.state = "eTCP_LISTEN" /\ listener'.pxPeerSocket = listener.pxPeerSocket
  BY <1>2, <1>4 DEF Listener
<1>9. InSockets BY BoundIsIn DEF IInv
<1>10. \A r \in Sockets : Asked(r)' <=> Asked(r) BY <1>2 DEF Asked
<1>11. ~ sock[s].bPassQueued /\ ~ sock[s].bPassAccept /\ s \notin owned /\ ~ Asked(s)
  BY <1>3 DEF IInv, SocketOK
<1>12. CountOK' /\ listener'.usChildCount \in 0 .. Cardinality(Sockets)
  <2>1. p # Server BY <1>2, ConnectionAssumption
  <2>2. Children' = Children \cup {s}
    BY <1>3, <1>5, <1>6, <1>7, <1>9, <2>1 DEF Children, InSockets
  <2>3. IsFiniteSet(Sockets) /\ Cardinality(Sockets) \in Nat /\ Backlog \in Nat
    BY ConnectionAssumption, FS_CardinalityType
  <2>4. IsFiniteSet(Children) /\ Children \cup {s} \subseteq Sockets /\ s \notin Children
    BY <1>3, <1>9, <2>3, FS_Subset DEF Children, InSockets
  <2>5. Cardinality(Children) \in Nat /\ Cardinality(Children') = Cardinality(Children) + 1
    BY <2>2, <2>4, FS_AddElement, FS_CardinalityType
  <2>6. Cardinality(Children') <= Cardinality(Sockets) BY <2>2, <2>3, <2>4, FS_Subset
  <2>7. listener.usChildCount = Cardinality(Children)
    BY <1>2 DEF IInv, CountOK, ChildrenCounted
  <2>8. listener'.usChildCount = Cardinality(Children') BY <1>8, <2>5, <2>7
  <2>9. Cardinality(Children') <= Backlog BY <1>2, <2>3, <2>5, <2>7
  <2>10. CountOK' BY <1>8, <2>8, <2>9 DEF CountOK, ChildrenCounted
  <2>11. QED BY <2>3, <2>5, <2>6, <2>8, <2>10
<1>13. World' \in Worlds BY <1>2, <1>4, <1>6, <1>7, <1>8, NextWorld
<1>14. Typed' BY <1>2, <1>12, <1>13 DEF IInv, Typed
<1>15. SocketOK(s)'
  <2>1. s \in Bound' /\ s \notin owned' /\ ~ Asked(s)' BY <1>2, <1>3, <1>7, <1>10, <1>11
  <2>2. QED BY <1>5, <1>6, <2>1 DEF SocketOK, StateOK
<1>16. \A r \in Sockets : r # s => SocketOK(r)' /\ Kept(r)
  <2>1. ASSUME NEW r \in Sockets, r # s PROVE SocketOK(r)' /\ Kept(r)
    <3>1. SocketOK(r) /\ sock'[r] = sock[r] BY <1>6, <2>1 DEF IInv
    <3>2. (r \in Bound' <=> r \in Bound) /\ (r \in owned' <=> r \in owned) BY <1>2, <1>7, <2>1
    <3>3. QED BY <1>10, <3>1, <3>2, Untouched
  <2>2. QED BY <2>1
<1>17. CloseOnce' BY <1>2 DEF IInv, CloseOnce
<1>18. OfferIsAcceptable'
  <2>1. listener.pxPeerSocket # s BY <1>3, <1>11, ConnectionAssumption DEF IInv, OfferIsAcceptable
  <2>2. QED BY <1>6, <1>7, <1>8, <1>9, <2>1 DEF IInv, OfferIsAcceptable, InSockets
<1>19. InSockets' BY <1>14, BoundIsIn
<1>20. Follows
  <2>1. /\ s \notin Closing /\ s \notin Closing' /\ s \notin Orphans /\ s \in Orphans'
        /\ s \notin Waiting /\ s \notin Waiting' /\ s \in Free /\ s \notin Free'
    BY <1>3, <1>5, <1>6, <1>7, <1>10, <1>11 DEF Orphans, Waiting, Closing, Free, Asked
  <2>2. s \notin owned /\ s \notin owned' BY <1>2, <1>11
  <2>3. /\ Free' = Free \ {s} /\ Orphans' = Orphans \cup {s}
        /\ UNCHANGED <<Waiting, owned, Closing>>
    BY <1>3, <1>9, <1>16, <1>19, <2>1, <2>2, OneMoves
  <2>4. QED BY <2>1, <2>3, CustodySteps
<1>21. QED BY <1>7, <1>12, <1>14, <1>15, <1>16, <1>17, <1>18, <1>20 DEF IInv

-----------------------------------------------------------------------------
(* The calls of the tasks.                                                   *)

\* The sockets and the queue stay as they are.
LEMMA TaskStep ==
  ASSUME IInv, UNCHANGED <<sock, bound, queue, owned>>, listener' \in Listener,
         listener'.usChildCount = listener.usChildCount,
         listener'.pxPeerSocket \in {listener.pxPeerSocket, None}, CountOK',
         server' \in {"idle", "accept", "ask", "wait", "done", "none"},
         client' \in [at : {"none", "idle", "check", "wait"}, s : Sockets \cup {None}],
         client'.at \in {"check", "wait"} => client'.s \in Sockets
  PROVE  IInv' /\ Follows
PROOF
<1>1. World' \in Worlds BY WorldTypes, NextWorld DEF IInv
<1>2. Typed' BY <1>1 DEF IInv, Typed
<1>3. \A r \in Sockets : Asked(r)' <=> Asked(r) BY DEF Asked
<1>4. (\A r \in Sockets : SocketOK(r)') /\ Follows /\ IsInjective(bound)' /\ Bound' = Bound
  BY <1>2, <1>3, NobodyMoves
<1>5. CloseOnce' BY DEF IInv, CloseOnce
<1>6. OfferIsAcceptable' BY <1>4 DEF IInv, OfferIsAcceptable
<1>7. QED BY <1>2, <1>4, <1>5, <1>6 DEF IInv

\* The same when the listener stays in its state
LEMMA WaitStep ==
  ASSUME IInv, UNCHANGED <<sock, bound, queue, owned>>, listener' \in Listener,
         listener'.usChildCount = listener.usChildCount, listener'.state = listener.state,
         listener'.pxPeerSocket \in {listener.pxPeerSocket, None},
         server' \in {"idle", "accept", "ask", "wait", "done", "none"},
         client' \in [at : {"none", "idle", "check", "wait"}, s : Sockets \cup {None}],
         client'.at \in {"check", "wait"} => client'.s \in Sockets
  PROVE  IInv' /\ Follows
PROOF
<1>1. CountOK' BY CountStays DEF IInv
<1>2. QED BY <1>1, TaskStep

\* An event that is not about a socket joins the queue.
LEMMA PostStep ==
  ASSUME IInv, UNCHANGED <<sock, bound, listener, client, owned>>,
         server' \in {"idle", "accept", "ask", "wait", "done", "none"},
         Len(queue) < QueueLength, NEW e \in Event, queue' = Append(queue, e),
         \A r \in Sockets : e # CloseEvent(r)
  PROVE  IInv' /\ Follows
PROOF
<1>1. queue \in Seq(Event) BY WorldTypes DEF IInv
<1>2. /\ queue' \in Seq(Event) /\ Range(queue') = Range(queue) \cup {e}
      /\ Len(queue') = Len(queue) + 1
  BY <1>1, Appended
<1>3. \A r \in Sockets : Asked(r)' <=> Asked(r) BY <1>2 DEF Asked
<1>4. World' \in Worlds BY <1>2, WorldTypes, NextWorld DEF IInv
<1>5. Typed'
  <2>1. Len(queue) \in Nat /\ QueueLength \in Nat BY <1>1, ConnectionAssumption, LenProperties
  <2>2. Len(queue') <= QueueLength BY <1>2, <2>1
  <2>3. QED BY <1>4, <2>2 DEF IInv, Typed
<1>6. (\A r \in Sockets : SocketOK(r)') /\ Follows /\ IsInjective(bound)' /\ Bound' = Bound
  BY <1>3, <1>5, NobodyMoves
<1>7. CloseOnce'
  <2>1. /\ DOMAIN queue = 1 .. Len(queue) /\ DOMAIN queue' = 1 .. Len(queue) + 1
        /\ Len(queue) \in Nat /\ queue'[Len(queue) + 1] = e
        /\ \A i \in 1 .. Len(queue) : queue'[i] = queue[i]
    BY <1>1, <1>2, AppendProperties, LenProperties
  <2>2. \A i \in DOMAIN queue' : i \in 1 .. Len(queue) \/ i = Len(queue) + 1 BY <2>1
  <2>3. ASSUME NEW r \in Sockets, NEW i \in DOMAIN queue', NEW j \in DOMAIN queue',
               queue'[i] = CloseEvent(r), queue'[j] = CloseEvent(r)
        PROVE  i = j
    <3>1. i \in DOMAIN queue /\ j \in DOMAIN queue BY <2>1, <2>2, <2>3
    <3>2. queue[i] = CloseEvent(r) /\ queue[j] = CloseEvent(r) BY <2>1, <2>3, <3>1
    <3>3. QED BY <3>1, <3>2 DEF IInv, CloseOnce
  <2>4. QED BY <2>3 DEF CloseOnce
<1>8. CountOK' BY CountStays DEF IInv
<1>9. OfferIsAcceptable' BY <1>6 DEF IInv, OfferIsAcceptable
<1>10. QED BY <1>5, <1>6, <1>7, <1>8, <1>9 DEF IInv

\* One socket changes, and neither its flags nor its owner.
LEMMA SocketStep ==
  ASSUME IInv, NEW s \in Sockets, NEW c \in SocketType, sock' = [sock EXCEPT ![s] = c],
         UNCHANGED <<bound, listener, queue, server, owned>>,
         c.remote = sock[s].remote, c.bPassQueued = sock[s].bPassQueued,
         c.bPassAccept = sock[s].bPassAccept, c.state = sock[s].state \/ s \in owned,
         client' \in [at : {"none", "idle", "check", "wait"}, s : Sockets \cup {None}],
         client'.at \in {"check", "wait"} => client'.s \in Sockets
  PROVE  IInv' /\ Follows
PROOF
<1>1. InSockets BY BoundIsIn DEF IInv
<1>2. /\ sock' \in [Sockets -> SocketType] /\ sock'[s] = c
      /\ \A r \in Sockets : r # s => sock'[r] = sock[r]
  BY WorldTypes DEF IInv
<1>3. Bound' = Bound /\ \A r \in Sockets : Asked(r)' <=> Asked(r) BY DEF Bound, Asked
<1>4. World' \in Worlds BY <1>2, WorldTypes, NextWorld DEF IInv
<1>5. Typed' BY <1>4 DEF IInv, Typed
<1>6. SocketOK(s)' /\ Kept(s)
  <2>1. SocketOK(s) BY DEF IInv
  <2>2. (s \in owned => ~ c.bPassQueued /\ ~ c.bPassAccept) BY <2>1 DEF SocketOK
  <2>3. StateOK(sock[s])' BY <1>2, <2>1, <2>2 DEF SocketOK, StateOK
  <2>4. SocketOK(s)' BY <1>2, <1>3, <2>1, <2>2, <2>3 DEF SocketOK
  <2>5. Kept(s) BY <1>2, <1>3 DEF Kept, Closing, Orphans, Waiting
  <2>6. QED BY <2>4, <2>5
<1>7. \A r \in Sockets : SocketOK(r)' /\ Kept(r)
  <2>1. ASSUME NEW r \in Sockets, r # s PROVE SocketOK(r)' /\ Kept(r)
    <3>1. SocketOK(r) /\ sock'[r] = sock[r] BY <1>2, <2>1 DEF IInv
    <3>2. QED BY <1>3, <3>1, Untouched
  <2>2. QED BY <1>6, <2>1
<1>8. CloseOnce' /\ IsInjective(bound)' BY DEF IInv, CloseOnce
<1>9. CountOK'
  <2>1. \A r \in Bound : sock'[r].remote = sock[r].remote BY <1>1, <1>2 DEF InSockets
  <2>2. QED BY <2>1, CountStays DEF IInv
<1>10. OfferIsAcceptable'
  <2>1. \A r \in Sockets : sock[r].bPassAccept => sock'[r].bPassAccept BY <1>2
  <2>2. QED BY <1>1, <1>3, <2>1 DEF IInv, OfferIsAcceptable, InSockets
<1>11. InSockets' BY <1>5, BoundIsIn
<1>12. Follows BY <1>1, <1>7, <1>11, AllStay
<1>13. QED BY <1>5, <1>7, <1>8, <1>9, <1>10, <1>12 DEF IInv

LEMMA ListenStep == ASSUME IInv, FreeRTOS_listen PROVE IInv' /\ Follows
PROOF
<1>1. /\ server = "idle" /\ listener.state = "eCLOSED"
      /\ listener' = [listener EXCEPT !.state = "eTCP_LISTEN"]
      /\ UNCHANGED <<sock, bound, queue, server, client, owned>>
  BY DEF FreeRTOS_listen
<1>2. listener \in Listener BY WorldTypes DEF IInv
<1>3. /\ listener' \in Listener /\ listener'.usChildCount = listener.usChildCount
      /\ listener'.state = "eTCP_LISTEN" /\ listener'.pxPeerSocket = listener.pxPeerSocket
  BY <1>1, <1>2 DEF Listener
<1>4. CountOK'
  <2>1. Children = {} /\ listener.usChildCount = 0 BY <1>1 DEF IInv, CountOK
  <2>2. Children' = Children BY <1>1 DEF Children, Bound
  <2>3. Cardinality({}) = 0 /\ Backlog \in Nat BY FS_EmptySet, ConnectionAssumption
  <2>4. listener'.usChildCount = Cardinality(Children') /\ listener'.usChildCount <= Backlog
    BY <1>3, <2>1, <2>2, <2>3
  <2>5. QED BY <1>3, <2>4 DEF CountOK, ChildrenCounted
<1>5. QED BY <1>1, <1>3, <1>4, TaskStep DEF IInv, Typed

\* The calls that leave the sockets alone
LEMMA WaitSteps ==
  ASSUME IInv, AcceptCall \/ AcceptNothing \/ AcceptWoken \/ AcceptTimesOut
               \/ ConnectCheck \/ ConnectTimesOut
  PROVE  IInv' /\ Follows
PROOF
<1>1. listener \in Listener BY WorldTypes DEF IInv
<1>2. CASE AcceptCall BY <1>1, <1>2, WaitStep DEF AcceptCall, IInv, Typed
<1>3. CASE AcceptTimesOut BY <1>1, <1>3, WaitStep DEF AcceptTimesOut, IInv, Typed
<1>4. CASE AcceptNothing
  <2>1. listener' = [listener EXCEPT !.pxPeerSocket = None] BY <1>4 DEF AcceptNothing
  <2>2. /\ listener' \in Listener /\ listener'.usChildCount = listener.usChildCount
        /\ listener'.state = listener.state /\ listener'.pxPeerSocket = None
    BY <1>1, <2>1 DEF Listener
  <2>3. QED BY <1>4, <2>2, WaitStep DEF AcceptNothing, IInv, Typed
<1>5. CASE AcceptWoken
  <2>1. listener' = [listener EXCEPT !.eventGroup = FALSE] BY <1>5 DEF AcceptWoken
  <2>2. /\ listener' \in Listener /\ listener'.usChildCount = listener.usChildCount
        /\ listener'.state = listener.state /\ listener'.pxPeerSocket = listener.pxPeerSocket
    BY <1>1, <2>1 DEF Listener
  <2>3. QED BY <1>5, <2>2, WaitStep DEF AcceptWoken, IInv, Typed
<1>6. CASE ConnectCheck \/ ConnectTimesOut
  <2>1. /\ client.at \in {"check", "wait"} /\ UNCHANGED <<sock, bound, listener, queue, server, owned>>
        /\ \E at \in {"idle", "wait"} : client' = [client EXCEPT !.at = at]
    BY <1>6 DEF ConnectCheck, ConnectTimesOut
  <2>2. PICK at \in {"idle", "wait"} : client' = [client EXCEPT !.at = at] BY <2>1
  <2>3. /\ client \in [at : {"none", "idle", "check", "wait"}, s : Sockets \cup {None}]
        /\ client.s \in Sockets
        /\ server \in {"idle", "accept", "ask", "wait", "done", "none"}
    BY <2>1 DEF IInv, Typed
  <2>4. /\ client' \in [at : {"none", "idle", "check", "wait"}, s : Sockets \cup {None}]
        /\ client'.s \in Sockets
    BY <2>2, <2>3
  <2>5. QED BY <1>1, <2>1, <2>3, <2>4, WaitStep
<1>7. QED BY <1>2, <1>3, <1>4, <1>5, <1>6

LEMMA PostSteps == ASSUME IInv, AcceptAsk \/ CloseListener PROVE IInv' /\ Follows
PROOF
<1>1. CASE AcceptAsk
  <2> DEFINE e == [type |-> "eTCPAcceptEvent", s |-> None]
  <2>1. e \in Event /\ \A r \in Sockets : e # CloseEvent(r) BY DEF Event, CloseEvent
  <2>2. QED BY <1>1, <2>1, PostStep DEF AcceptAsk
<1>2. CASE CloseListener
  <2>1. CloseEvent(None) \in Event BY DEF Event
  <2>2. \A r \in Sockets : CloseEvent(None) # CloseEvent(r)
    BY ConnectionAssumption DEF CloseEvent
  <2>3. QED BY <1>2, <2>1, <2>2, PostStep DEF CloseListener
<1>3. QED BY <1>1, <1>2

LEMMA SocketSteps ==
  ASSUME IInv, ConnectWoken \/ \E s \in Sockets : FreeRTOS_shutdown(s)
  PROVE  IInv' /\ Follows
PROOF
<1>1. /\ sock \in [Sockets -> SocketType]
      /\ client \in [at : {"none", "idle", "check", "wait"}, s : Sockets \cup {None}]
      /\ client.at \in {"check", "wait"} => client.s \in Sockets
  BY WorldTypes DEF IInv, Typed
<1>2. CASE ConnectWoken
  <2> DEFINE c == [sock[client.s] EXCEPT !.eventGroup = FALSE]
  <2>1. client.s \in Sockets BY <1>1, <1>2 DEF ConnectWoken
  <2>2. PICK s \in Sockets : s = client.s BY <2>1
  <2>3. PICK d : d = [sock[s] EXCEPT !.eventGroup = FALSE] OBVIOUS
  <2>4. /\ d \in SocketType /\ d.remote = sock[s].remote /\ d.state = sock[s].state
        /\ d.bPassQueued = sock[s].bPassQueued /\ d.bPassAccept = sock[s].bPassAccept
    BY <1>1, <2>3 DEF SocketType
  <2>5. sock' = [sock EXCEPT ![s] = d] BY <1>1, <1>2, <2>2, <2>3 DEF ConnectWoken
  <2>6. /\ client' = [client EXCEPT !.at = "check"]
        /\ UNCHANGED <<bound, listener, queue, server, owned>> BY <1>2 DEF ConnectWoken
  <2>7. /\ client' \in [at : {"none", "idle", "check", "wait"}, s : Sockets \cup {None}]
        /\ client'.s \in Sockets
    BY <1>1, <2>1, <2>6
  <2>8. QED BY <2>4, <2>5, <2>6, <2>7, SocketStep
<1>3. ASSUME NEW s \in Sockets, FreeRTOS_shutdown(s) PROVE IInv' /\ Follows
  <2>1. PICK d : d = [sock[s] EXCEPT !.bUserShutdown = TRUE] OBVIOUS
  <2>2. /\ d \in SocketType /\ d.remote = sock[s].remote /\ d.state = sock[s].state
        /\ d.bPassQueued = sock[s].bPassQueued /\ d.bPassAccept = sock[s].bPassAccept
    BY <1>1, <2>1 DEF SocketType
  <2>3. sock' = [sock EXCEPT ![s] = d] BY <1>1, <1>3, <2>1 DEF FreeRTOS_shutdown
  <2>4. UNCHANGED <<bound, listener, queue, server, client, owned>> BY <1>3 DEF FreeRTOS_shutdown
  <2>5. QED BY <1>1, <2>2, <2>3, <2>4, SocketStep
<1>4. QED BY <1>2, <1>3

\* A child is accepted.
LEMMA AcceptTakeStep == ASSUME IInv, AcceptTake PROVE IInv' /\ Follows
PROOF
<1>1. PICK s \in Offered : /\ sock' = [sock EXCEPT ![s].bPassAccept = FALSE]
                           /\ owned' = owned \cup {s}
  BY DEF AcceptTake
<1>2. /\ listener' = [listener EXCEPT !.pxPeerSocket = None] /\ server' = "ask"
      /\ UNCHANGED <<bound, queue, client>>
  BY DEF AcceptTake
<1>3. s \in Sockets /\ sock[s].bPassAccept BY DEF Offered
<1>4. /\ sock \in [Sockets -> SocketType] /\ listener \in Listener
      /\ queue \in Seq(Event) /\ bound \in Seq(Sockets)
  BY WorldTypes DEF IInv
<1>5. PICK c : c = [sock[s] EXCEPT !.bPassAccept = FALSE] OBVIOUS
<1>6. /\ c \in SocketType /\ c.remote = sock[s].remote /\ c.bPassQueued = sock[s].bPassQueued
      /\ ~ c.bPassAccept /\ c.state = sock[s].state
  BY <1>3, <1>4, <1>5 DEF SocketType
<1>7. /\ sock' \in [Sockets -> SocketType] /\ sock'[s] = c
      /\ \A r \in Sockets : r # s => sock'[r] = sock[r]
  BY <1>1, <1>3, <1>4, <1>5, <1>6
<1>8. /\ listener' \in Listener /\ listener'.usChildCount = listener.usChildCount
      /\ listener'.state = listener.state /\ listener'.pxPeerSocket = None
  BY <1>2, <1>4 DEF Listener
<1>9. Bound' = Bound /\ \A r \in Sockets : Asked(r)' <=> Asked(r) BY <1>2 DEF Bound, Asked
<1>10. s \in Bound /\ ~ Asked(s) /\ ~ sock[s].bPassQueued /\ s \notin owned
  <2>1. SocketOK(s) BY <1>3 DEF IInv
  <2>2. QED BY <1>3, <2>1 DEF SocketOK, StateOK
<1>11. World' \in Worlds BY <1>2, <1>4, <1>7, <1>8, NextWorld
<1>12. Typed' BY <1>1, <1>2, <1>3, <1>8, <1>11 DEF IInv, Typed
<1>13. SocketOK(s)'
  <2>1. s \in Bound' /\ ~ Asked(s)' /\ ~ sock'[s].bPassQueued /\ ~ sock'[s].bPassAccept
    BY <1>3, <1>6, <1>7, <1>9, <1>10
  <2>2. StateOK(sock[s])' BY <2>1 DEF StateOK
  <2>3. QED BY <2>1, <2>2 DEF SocketOK
<1>14. \A r \in Sockets : r # s => SocketOK(r)' /\ Kept(r)
  <2>1. ASSUME NEW r \in Sockets, r # s PROVE SocketOK(r)' /\ Kept(r)
    <3>1. SocketOK(r) /\ sock'[r] = sock[r] BY <1>7, <2>1 DEF IInv
    <3>2. r \in owned' <=> r \in owned BY <1>1, <2>1
    <3>3. QED BY <1>9, <3>1, <3>2, Untouched
  <2>2. QED BY <2>1
<1>15. IsInjective(bound)' /\ CloseOnce' BY <1>2 DEF IInv, CloseOnce
<1>16. InSockets /\ InSockets' BY <1>12, BoundIsIn DEF IInv
<1>17. CountOK'
  <2>1. \A r \in Bound : sock'[r].remote = sock[r].remote BY <1>6, <1>7, <1>16 DEF InSockets
  <2>2. QED BY <1>2, <1>8, <2>1, CountStays DEF IInv
<1>18. OfferIsAcceptable' BY <1>8 DEF OfferIsAcceptable
<1>19. Follows
  <2>1. /\ s \notin Closing /\ s \notin Closing' /\ s \notin Orphans /\ s \notin Orphans'
        /\ s \in Waiting /\ s \notin Waiting' /\ s \notin Free /\ s \notin Free' /\ s \in owned'
    BY <1>1, <1>3, <1>6, <1>7, <1>9, <1>10 DEF Orphans, Waiting, Closing, Free, Asked
  <2>2. /\ Waiting' = Waiting \ {s} /\ owned' = owned \cup {s}
        /\ UNCHANGED <<Free, Orphans, Closing>>
    BY <1>3, <1>14, <1>16, <2>1, OneMoves
  <2>3. QED BY <2>1, <2>2, CustodySteps
<1>20. QED BY <1>12, <1>13, <1>14, <1>15, <1>17, <1>18, <1>19 DEF IInv

\* A task gives a socket back.
LEMMA CloseOwnedStep ==
  ASSUME IInv, NEW s \in Sockets, CloseOwned(s)
  PROVE  IInv' /\ Follows
PROOF
<1>1. /\ s \in owned /\ Len(queue) < QueueLength /\ owned' = owned \ {s}
      /\ client' = IF s = client.s THEN [at |-> "idle", s |-> None] ELSE client
      /\ UNCHANGED <<sock, bound, listener, server>>
  BY DEF CloseOwned
<1>2. /\ sock \in [Sockets -> SocketType] /\ listener \in Listener
      /\ bound \in Seq(Sockets) /\ World \in Worlds /\ World.queue = queue
  BY WorldTypes DEF IInv
<1>3. queue' = Append(queue, CloseEvent(s))
  BY <1>1, <1>2, CloseTyped DEF CloseOwned
<1>4. /\ s \in Bound /\ ~ Asked(s) /\ ~ sock[s].bPassQueued /\ ~ sock[s].bPassAccept
      /\ StateOK(sock[s])
  BY <1>1 DEF IInv, SocketOK
<1>5. /\ queue' \in Seq(Event) /\ Len(queue') <= QueueLength /\ Asked(s)' /\ CloseOnce'
      /\ \A r \in Sockets : r # s => (Asked(r)' <=> Asked(r))
  BY <1>1, <1>3, <1>4, ClosePosted
<1>6. World' \in Worlds BY <1>1, <1>2, <1>5, NextWorld
<1>7. Typed'
  <2>1. /\ client' \in [at : {"none", "idle", "check", "wait"}, s : Sockets \cup {None}]
        /\ client'.at \in {"check", "wait"} => client'.s \in Sockets
    <3>1. CASE s = client.s
      <4>1. client' = [at |-> "idle", s |-> None] BY <1>1, <3>1
      <4>2. QED BY <4>1
    <3>2. CASE s # client.s
      <4>1. client' = client BY <1>1, <3>2
      <4>2. QED BY <4>1 DEF IInv, Typed
    <3>3. QED BY <3>1, <3>2
  <2>2. QED BY <1>1, <1>5, <1>6, <2>1 DEF IInv, Typed
<1>8. Bound' = Bound BY <1>1 DEF Bound
<1>9. SocketOK(s)'
  <2>1. /\ s \in Bound' /\ s \notin owned' /\ ~ sock'[s].bPassQueued /\ ~ sock'[s].bPassAccept
    BY <1>1, <1>4, <1>8
  <2>2. StateOK(sock[s])' BY <2>1 DEF StateOK
  <2>3. QED BY <2>1, <2>2 DEF SocketOK
<1>10. \A r \in Sockets : r # s => SocketOK(r)' /\ Kept(r)
  <2>1. ASSUME NEW r \in Sockets, r # s PROVE SocketOK(r)' /\ Kept(r)
    <3>1. SocketOK(r) /\ sock'[r] = sock[r] BY <1>1, <2>1 DEF IInv
    <3>2. r \in owned' <=> r \in owned BY <1>1, <2>1
    <3>3. QED BY <1>5, <1>8, <2>1, <3>1, <3>2, Untouched
  <2>2. QED BY <2>1
<1>11. IsInjective(bound)' BY <1>1 DEF IInv
<1>12. CountOK' BY <1>1, CountStays DEF IInv
<1>13. OfferIsAcceptable' BY <1>1, <1>8 DEF IInv, OfferIsAcceptable
<1>14. InSockets /\ InSockets' BY <1>7, BoundIsIn DEF IInv
<1>15. Follows
  <2>1. /\ s \notin Closing /\ s \in Closing' /\ s \notin Orphans /\ s \notin Orphans'
        /\ s \notin Waiting /\ s \notin Waiting' /\ s \notin Free /\ s \notin Free' /\ s \notin owned'
    BY <1>1, <1>4, <1>5, <1>8 DEF Orphans, Waiting, Closing, Free, Asked
  <2>2. /\ owned' = owned \ {s} /\ Closing' = Closing \cup {s}
        /\ UNCHANGED <<Free, Orphans, Waiting>>
    BY <1>10, <1>14, <2>1, OneMoves
  <2>3. QED BY <1>1, <2>2, CustodySteps
<1>16. QED BY <1>5, <1>7, <1>9, <1>10, <1>11, <1>12, <1>13, <1>15 DEF IInv

\* A task connects, with a new socket or with its old one.
LEMMA ConnectStep == ASSUME IInv, FreeRTOS_connect PROVE IInv' /\ Follows
PROOF
<1>1. UNCHANGED <<listener, queue, server>> BY DEF FreeRTOS_connect
<1>2. /\ sock \in [Sockets -> SocketType] /\ listener \in Listener
      /\ queue \in Seq(Event) /\ bound \in Seq(Sockets)
  BY WorldTypes DEF IInv
<1>3. ASSUME NEW s \in NextFree,
             sock' = [sock EXCEPT ![s] = [Blank EXCEPT !.remote = Server, !.state = "eCONNECT_SYN"]],
             bound' = Append(bound, s), client' = [at |-> "check", s |-> s],
             owned' = owned \cup {s}
      PROVE  IInv' /\ Follows
  <2>1. s \in Free /\ s \in Sockets /\ s \notin Bound BY Allocated DEF Free
  <2>2. PICK c : c = [Blank EXCEPT !.remote = Server, !.state = "eCONNECT_SYN"] OBVIOUS
  <2>3. /\ c \in SocketType /\ c.remote = Server /\ ~ c.bPassQueued /\ ~ c.bPassAccept
    <3>1. Blank \in SocketType /\ "eCONNECT_SYN" \in States BY BlankTyped DEF States
    <3>2. c \in SocketType /\ c.remote = Server /\ c.bPassQueued = Blank.bPassQueued
          /\ c.bPassAccept = Blank.bPassAccept
      BY <2>2, <3>1 DEF SocketType
    <3>3. QED BY <3>2 DEF Blank
  <2>4. /\ sock' \in [Sockets -> SocketType] /\ sock'[s] = c
        /\ \A r \in Sockets : r # s => sock'[r] = sock[r]
    BY <1>2, <1>3, <2>1, <2>2, <2>3
  <2>5. bound' \in Seq(Sockets) /\ Bound' = Bound \cup {s} /\ IsInjective(bound)'
    BY <1>3, <2>1, NewBound
  <2>6. \A r \in Sockets : Asked(r)' <=> Asked(r) BY <1>1 DEF Asked
  <2>7. ~ sock[s].bPassQueued /\ ~ sock[s].bPassAccept /\ s \notin owned /\ ~ Asked(s)
    BY <2>1 DEF IInv, SocketOK
  <2>8. World' \in Worlds BY <1>1, <1>2, <2>4, <2>5, NextWorld
  <2>9. Typed'
    <3>1. /\ client' \in [at : {"none", "idle", "check", "wait"}, s : Sockets \cup {None}]
          /\ client'.s \in Sockets
      BY <1>3, <2>1
    <3>2. QED BY <1>1, <1>3, <2>1, <2>8, <3>1 DEF IInv, Typed
  <2>10. SocketOK(s)'
    <3>1. s \in Bound' /\ ~ Asked(s)' /\ ~ sock'[s].bPassQueued /\ ~ sock'[s].bPassAccept
      BY <2>1, <2>3, <2>4, <2>5, <2>6, <2>7
    <3>2. StateOK(sock[s])' BY <3>1 DEF StateOK
    <3>3. QED BY <3>1, <3>2 DEF SocketOK
  <2>11. \A r \in Sockets : r # s => SocketOK(r)' /\ Kept(r)
    <3>1. ASSUME NEW r \in Sockets, r # s PROVE SocketOK(r)' /\ Kept(r)
      <4>1. SocketOK(r) /\ sock'[r] = sock[r] BY <2>4, <3>1 DEF IInv
      <4>2. (r \in Bound' <=> r \in Bound) /\ (r \in owned' <=> r \in owned)
        BY <1>3, <2>5, <3>1
      <4>3. QED BY <2>6, <4>1, <4>2, Untouched
    <3>2. QED BY <3>1
  <2>12. CloseOnce' BY <1>1 DEF IInv, CloseOnce
  <2>13. InSockets /\ InSockets' BY <2>9, BoundIsIn DEF IInv
  <2>14. CountOK'
    <3>1. Children' = Children BY <2>1, <2>3, <2>4, <2>5, <2>13 DEF Children, InSockets
    <3>2. QED BY <1>1, <3>1 DEF IInv, CountOK, ChildrenCounted
  <2>15. OfferIsAcceptable'
    <3>1. listener.pxPeerSocket # s BY <2>1, <2>7, ConnectionAssumption DEF IInv, OfferIsAcceptable
    <3>2. QED BY <1>1, <2>4, <2>5, <2>13, <3>1 DEF IInv, OfferIsAcceptable, InSockets
  <2>16. Follows
    <3>1. /\ s \notin Closing /\ s \notin Closing' /\ s \notin Orphans /\ s \notin Orphans'
          /\ s \notin Waiting /\ s \notin Waiting' /\ s \in Free /\ s \notin Free' /\ s \in owned'
      BY <1>3, <2>1, <2>3, <2>4, <2>5, <2>6, <2>7 DEF Orphans, Waiting, Closing, Free, Asked
    <3>2. /\ Free' = Free \ {s} /\ owned' = owned \cup {s}
          /\ UNCHANGED <<Orphans, Waiting, Closing>>
      BY <2>1, <2>11, <2>13, <3>1, OneMoves
    <3>3. QED BY <3>1, <3>2, CustodySteps
  <2>17. QED BY <2>5, <2>9, <2>10, <2>11, <2>12, <2>14, <2>15, <2>16 DEF IInv
<1>4. ASSUME NEW s \in owned \cap {client.s},
             sock' = [sock EXCEPT ![s].state = "eCONNECT_SYN", ![s].bConnPrepared = FALSE,
                                  ![s].ucRepCount = 0],
             client' = [client EXCEPT !.at = "check"], UNCHANGED <<bound, owned>>
      PROVE  IInv' /\ Follows
  <2>1. s \in Sockets /\ client \in [at : {"none", "idle", "check", "wait"}, s : Sockets \cup {None}]
    BY DEF IInv, Typed
  <2>2. PICK c : c = [sock[s] EXCEPT !.state = "eCONNECT_SYN", !.bConnPrepared = FALSE,
                                     !.ucRepCount = 0] OBVIOUS
  <2>3. /\ c \in SocketType /\ c.remote = sock[s].remote /\ c.bPassQueued = sock[s].bPassQueued
        /\ c.bPassAccept = sock[s].bPassAccept
    <3>1. "eCONNECT_SYN" \in States /\ 0 \in 0 .. ConnectRepeats /\ sock[s] \in SocketType
      BY <1>2, <2>1, ConnectionAssumption DEF States
    <3>2. QED BY <2>2, <3>1 DEF SocketType
  <2>4. sock' = [sock EXCEPT ![s] = c] BY <1>2, <1>4, <2>1, <2>2
  <2>5. /\ client' \in [at : {"none", "idle", "check", "wait"}, s : Sockets \cup {None}]
        /\ client'.s \in Sockets
    BY <1>4, <2>1
  <2>6. QED BY <1>1, <1>4, <2>1, <2>3, <2>4, <2>5, SocketStep
<1>5. QED BY <1>3, <1>4 DEF FreeRTOS_connect

-----------------------------------------------------------------------------
(* The theorems.                                                             *)

\* The invariant holds at the start, where every socket is free.
LEMMA InitInvariant == Init => IInv /\ Custody!Init
PROOF
<1>1. SUFFICES ASSUME Init PROVE IInv /\ Custody!Init OBVIOUS
<1>2. /\ sock = [s \in Sockets |-> Blank] /\ bound = <<>> /\ queue = <<>> /\ owned = {}
      /\ listener = [state |-> "eCLOSED", usChildCount |-> 0, pxPeerSocket |-> None,
                     eventGroup |-> FALSE]
      /\ server \in {"idle", "none"}
      /\ client \in [at : {"none", "idle"}, s : {None}]
  BY <1>1 DEF Init
<1>3. /\ bound \in Seq(Sockets) /\ queue \in Seq(Event) /\ Len(queue) = 0
      /\ DOMAIN bound = {} /\ DOMAIN queue = {}
  <2>1. <<>> \in Seq(Sockets) /\ <<>> \in Seq(Event) /\ Len(<<>>) = 0 BY EmptySeq
  <2>2. \A S : \A q \in Seq(S) : DOMAIN q = 1 .. Len(q) BY LenProperties
  <2>3. 1 .. 0 = {} OBVIOUS
  <2>4. DOMAIN bound = 1 .. Len(bound) /\ DOMAIN queue = 1 .. Len(queue) BY <1>2, <2>1, <2>2
  <2>5. QED BY <1>2, <2>1, <2>3, <2>4
<1>4. Bound = {} /\ Range(queue) = {} BY <1>3 DEF Bound, Range
<1>5. Typed
  <2>1. sock \in [Sockets -> SocketType] BY <1>2, BlankTyped
  <2>2. listener \in Listener BY <1>2 DEF Listener
  <2>3. World \in Worlds BY <1>3, <2>1, <2>2 DEF World, Worlds
  <2>4. Cardinality(Sockets) \in Nat /\ QueueLength \in Nat
    BY ConnectionAssumption, FS_CardinalityType
  <2>5. listener.usChildCount \in 0 .. Cardinality(Sockets) /\ Len(queue) <= QueueLength
    BY <1>2, <1>3, <2>4
  <2>6. QED BY <1>2, <2>3, <2>5 DEF Typed
<1>6. IsInjective(bound) /\ CloseOnce BY <1>3 DEF IsInjective, CloseOnce
<1>7. ASSUME NEW s \in Sockets PROVE SocketOK(s)
  <2>1. sock[s] = Blank BY <1>2
  <2>2. QED BY <1>2, <1>4, <2>1 DEF SocketOK, StateOK, Blank, Asked
<1>8. CountOK /\ OfferIsAcceptable
  BY <1>2, <1>4 DEF CountOK, ChildrenCounted, OfferIsAcceptable, Children
<1>9. Custody!Init BY <1>2, <1>4 DEF Custody!Init, Free
<1>10. QED BY <1>5, <1>6, <1>7, <1>8, <1>9 DEF IInv

\* A step of the program keeps the invariant and is one of SocketCustody.
LEMMA StepInvariant == IInv /\ [Next]_vars => IInv' /\ Follows
PROOF
<1>1. SUFFICES ASSUME IInv, [Next]_vars PROVE IInv' /\ Follows OBVIOUS
<1>2. World \in Worlds /\ (\A s \in Sockets : StateOK(sock[s])) /\ IsInjective(bound)
      /\ Bound \subseteq Sockets
  BY <1>1, BoundIsIn DEF IInv, Typed, SocketOK, InSockets
<1>3. ASSUME NEW p, prvHandleListen(p) PROVE IInv' /\ Follows
  BY <1>1, <1>3, HandleListenStep
<1>4. ASSUME NEW p, NEW flags, NEW acksFin \in BOOLEAN, NEW txDone \in BOOLEAN,
             NEW all \in BOOLEAN, xProcessReceivedTCPPacket(p, flags, acksFin, txDone, all)
      PROVE  IInv' /\ Follows
  <2>1. PICK s \in Bound : \E v : Handles(World, v, s) /\ Becomes(v)
    BY <1>2, <1>4, PacketHandles
  <2>2. PICK v : Handles(World, v, s) /\ Becomes(v) BY <2>1
  <2>3. UNCHANGED <<server, client, owned>> BY <1>4 DEF xProcessReceivedTCPPacket
  <2>4. CASE Quiet(World, v, s) BY <1>1, <2>2, <2>3, <2>4, QuietStep
  <2>5. CASE Offers(World, v, s) BY <1>1, <2>2, <2>3, <2>5, OffersStep
  <2>6. CASE Refuses(World, v, s) BY <1>1, <2>2, <2>3, <2>6, RefusesStep
  <2>7. QED BY <2>2, <2>4, <2>5, <2>6 DEF Handles
<1>5. ASSUME NEW s \in Sockets, NEW hit \in BOOLEAN, NEW txDone \in BOOLEAN,
             NEW silent \in BOOLEAN, NEW aged \in BOOLEAN,
             xTCPTimerCheck(s, hit, txDone, silent, aged)
      PROVE  IInv' /\ Follows
  <2>1. s \in Bound BY <1>5 DEF xTCPTimerCheck
  <2>2. PICK v : (Quiet(World, v, s) \/ Abandons(World, v, s)) /\ Becomes(v)
    BY <1>2, <1>5, TimerIs
  <2>3. UNCHANGED <<server, client, owned>> BY <1>5 DEF xTCPTimerCheck
  <2>4. CASE Quiet(World, v, s) BY <1>1, <2>1, <2>2, <2>3, <2>4, QuietStep
  <2>5. CASE Abandons(World, v, s) BY <1>1, <2>1, <2>2, <2>3, <2>5, AbandonsStep
  <2>6. QED BY <2>2, <2>4, <2>5
<1>6. CASE Packets BY <1>3, <1>4, <1>6 DEF Packets
<1>7. CASE Timers
  <2>1. PICK s \in Bound :
          \E hit \in {FALSE, sock[s].state = "eCONNECT_SYN"},
             txDone \in {FALSE, sock[s].bUserShutdown},
             silent \in {FALSE, sock[s].state = "eESTABLISHED"},
             aged \in {FALSE, Ages(sock[s].state)} :
                xTCPTimerCheck(s, hit, txDone, silent, aged)
    BY <1>7 DEF Timers
  <2>2. PICK hit \in {FALSE, sock[s].state = "eCONNECT_SYN"},
             txDone \in {FALSE, sock[s].bUserShutdown},
             silent \in {FALSE, sock[s].state = "eESTABLISHED"},
             aged \in {FALSE, Ages(sock[s].state)} :
                xTCPTimerCheck(s, hit, txDone, silent, aged)
    BY <2>1
  <2>3. s \in Sockets /\ sock[s].bUserShutdown \in BOOLEAN
    BY <1>2 DEF World, Worlds, SocketType
  <2>4. Ages(sock[s].state) \in BOOLEAN /\ (sock[s].state = "eCONNECT_SYN") \in BOOLEAN
        /\ (sock[s].state = "eESTABLISHED") \in BOOLEAN /\ FALSE \in BOOLEAN
    BY DEF Ages
  <2>5. hit \in BOOLEAN BY <2>2, <2>4, Zenon
  <2>6. txDone \in BOOLEAN BY <2>2, <2>3, <2>4, Zenon
  <2>7. silent \in BOOLEAN BY <2>2, <2>4, Zenon
  <2>8. aged \in BOOLEAN BY <2>2, <2>4, Zenon
  <2>9. QED BY <1>5, <2>2, <2>3, <2>5, <2>6, <2>7, <2>8
<1>8. CASE Events BY <1>1, <1>8, HandleCloseStep, HandleAcceptStep DEF Events
<1>9. CASE Calls
  <2>1. CASE FreeRTOS_listen BY <1>1, <2>1, ListenStep
  <2>2. CASE Accepting BY <1>1, <2>2, WaitSteps, AcceptTakeStep, PostSteps DEF Accepting
  <2>3. CASE AcceptTimesOut \/ ConnectCheck \/ ConnectTimesOut BY <1>1, <2>3, WaitSteps
  <2>4. CASE CloseListener BY <1>1, <2>4, PostSteps
  <2>5. CASE FreeRTOS_connect BY <1>1, <2>5, ConnectStep
  <2>6. CASE ConnectWoken BY <1>1, <2>6, SocketSteps
  <2>7. CASE \E s \in Sockets : FreeRTOS_shutdown(s) \/ CloseOwned(s)
    BY <1>1, <2>7, SocketSteps, CloseOwnedStep
  <2>8. QED BY <1>9, <2>1, <2>2, <2>3, <2>4, <2>5, <2>6, <2>7 DEF Calls
<1>10. CASE UNCHANGED vars
  <2>1. /\ UNCHANGED <<sock, bound, listener, queue, server, client, owned>>
    BY <1>10 DEF vars
  <2>2. listener \in Listener BY <1>1, WorldTypes DEF IInv
  <2>3. QED BY <1>1, <2>1, <2>2, WaitStep DEF IInv, Typed
<1>11. QED BY <1>1, <1>6, <1>7, <1>8, <1>9, <1>10 DEF Next

THEOREM Invariant == Spec => []IInv
PROOF
<1>1. Init => IInv BY InitInvariant
<1>2. IInv /\ [Next]_vars => IInv' BY StepInvariant
<1>3. QED BY <1>1, <1>2, PTL DEF Spec

\* States and counters are in their range and the backlog of the listener
\* counts its children (vSocketClose, prvTCPSetSocketCount), for every number
\* of sockets and peers.
THEOREM Children_are_counted == Spec => []ConnectionInv
PROOF
<1>1. IInv => ConnectionInv
  <2>1. SUFFICES ASSUME IInv PROVE ConnectionInv OBVIOUS
  <2>2. /\ sock \in [Sockets -> SocketType] /\ bound \in Seq(Sockets) /\ listener \in Listener
    BY <2>1, WorldTypes DEF IInv
  <2>3. Len(bound) = Cardinality(Bound)
    BY <2>1, <2>2, CountedOnce DEF IInv, Bound
  <2>4. TypeOK BY <2>1, <2>2, <2>3 DEF IInv, Typed, TypeOK, Listener
  <2>5. QED BY <2>1, <2>4 DEF ConnectionInv, IInv, CountOK
<1>2. QED BY <1>1, Invariant, PTL

\* What the listener's pxPeerSocket points to may be accepted.
THEOREM Offers_are_acceptable == Spec => []OfferIsAcceptable
PROOF
<1>1. IInv => OfferIsAcceptable BY DEF IInv
<1>2. QED BY <1>1, Invariant, PTL

\* No socket has two owners, and none is deleted under a task.
THEOREM Connections_keep_custody == Spec => ImplementsCustody
PROOF
<1>1. Init => IInv /\ Custody!Init BY InitInvariant
<1>2. IInv /\ [Next]_vars => IInv' /\ [Custody!Next]_(Custody!vars)
  BY StepInvariant DEF Follows
<1>3. QED BY <1>1, <1>2, PTL DEF Spec, ImplementsCustody, Custody!Spec

=============================================================================
