-------------------------- MODULE NetworkPath_proofs --------------------------
(***************************************************************************)
(* Proofs about NetworkPath, for every number of buffers, descriptors and  *)
(* ARP requests: the receive ring stays in step with the DMA, reception    *)
(* stalls only on a starved pool, no buffer is in two hands or lost but by *)
(* an answer that is too long to be sent, the event queue has room for the *)
(* handler, and the path implements BufferCustody.                         *)
(*                                                                         *)
(* Then about Firewall, whose Check the handler of the path calls, for     *)
(* every finite set of groups and rules: no sequence of additions and      *)
(* removals makes a list loop or lose a rule, and between any two writes   *)
(* the handler decides as FirewallPolicy says.                             *)
(***************************************************************************)
EXTENDS NetworkPath, Firewall, FiniteSetTheorems, SequenceTheorems,
        WellFoundedInduction, TLAPS

-----------------------------------------------------------------------------
(* The inductive invariant.                                                  *)

Queue == xNetworkEventQueue

\* Until the IP task has served the first event there is no other, and the
\* rings are as they were; afterwards there is no such event.
DownOK ==
  IF xNetworkUp
    THEN ipPc # "down" /\ \A i \in 1..Len(Queue) : Queue[i].type # "down"
    ELSE /\ rxDesc = [i \in RxIndex |-> "empty"]
         /\ macRx = 0 /\ g_ui32RxDescIndex = 0 /\ ~rxInterrupt
         /\ \/ ipPc = "wait" /\ Queue = << OtherEvent("down") >>
            \/ ipPc = "down" /\ Queue = << >>

\* The buffers of a sequence of events
Buffers(q) == { q[i].buf : i \in 1..Len(q) } \ {None}

\* An event has a buffer exactly if it is about a frame, and no two events have
\* the same buffer or, without one, the same type.
EventsDiffer(q) ==
  /\ \A i \in 1..Len(q) : q[i].buf = None <=> q[i].type \in {"arp", "bind", "down"}
  /\ \A i, j \in 1..Len(q) :
        i # j => q[i].buf # q[j].buf \/ (q[i].buf = None /\ q[i].type # q[j].type)

\* The places, as sets, share the buffers out.
InOnePlace(pool, queued, ip, socket, app, gone) ==
  /\ \A b \in Buffer :
        b \in pool \/ b \in queued \/ b = ip \/ b \in socket \/ b = app \/ b \in gone
  /\ \A b \in Buffer :
        /\ b \in pool => b \notin queued /\ b # ip /\ b \notin socket /\ b # app /\ b \notin gone
        /\ b \in queued => b # ip /\ b \notin socket /\ b # app /\ b \notin gone
        /\ b = ip => b \notin socket /\ b # app /\ b \notin gone
        /\ b \in socket => b # app /\ b \notin gone
        /\ b = app => b \notin gone

\* Where the IP task and the socket task have a buffer
IpHolds == {"rx", "tx", "output", "oversized", "spin", "sent"}
AppHolds == {"received", "filled"}

CustodyOK ==
  /\ EventsDiffer(Queue)
  /\ ipBuf # None <=> ipPc \in IpHolds
  /\ appBuf # None <=> appPc \in AppHolds
  /\ InOnePlace(free, Buffers(Queue), ipBuf, xWaitingPacketsList, appBuf, lost)

IInv == TypeOK /\ DownOK /\ RxRingInSync /\ CustodyOK

-----------------------------------------------------------------------------
(* The event queue.                                                          *)

LEMMA NoEvents == Buffers(<< >>) = {} /\ EventsDiffer(<< >>)
PROOF
<1>1. Len(<< >>) = 0 OBVIOUS
<1>2. QED BY <1>1 DEF Buffers, EventsDiffer

LEMMA OneEvent ==
  ASSUME NEW e \in Event, e.buf = None <=> e.type \in {"arp", "bind", "down"}
  PROVE  /\ << e >> \in Seq(Event) /\ EventsDiffer(<< e >>)
         /\ Buffers(<< e >>) = {e.buf} \ {None}
PROOF
<1>1. Len(<< e >>) = 1 /\ << e >>[1] = e /\ << e >> \in Seq(Event) OBVIOUS
<1>2. 1..1 = {1} OBVIOUS
<1>3. QED BY <1>1, <1>2 DEF Buffers, EventsDiffer

\* A new event is the only one with its buffer, or of its type.
LEMMA EventPosted ==
  ASSUME NEW q \in Seq(Event), EventsDiffer(q), NEW e \in Event,
         e.buf = None <=> e.type \in {"arp", "bind", "down"},
         e.buf \notin Buffers(q),
         e.buf = None => \A i \in 1..Len(q) : q[i].type # e.type
  PROVE  /\ Append(q, e) \in Seq(Event) /\ EventsDiffer(Append(q, e))
         /\ Buffers(Append(q, e)) = Buffers(q) \cup ({e.buf} \ {None})
PROOF
<1> DEFINE r == Append(q, e)
<1>1. /\ r \in Seq(Event) /\ Len(r) = Len(q) + 1 /\ Len(q) \in Nat
      /\ r[Len(q) + 1] = e /\ \A i \in 1..Len(q) : r[i] = q[i]
  BY AppendProperties
<1> HIDE DEF r
<1>2. 1..Len(r) = 1..Len(q) \cup {Len(q) + 1} BY <1>1
<1>3. \A i \in 1..Len(q) : i # Len(q) + 1 BY <1>1
<1>4. Buffers(r) = Buffers(q) \cup ({e.buf} \ {None}) BY <1>1, <1>2, <1>3 DEF Buffers
<1>5. \A i \in 1..Len(r) : r[i].buf = None <=> r[i].type \in {"arp", "bind", "down"}
  BY <1>1, <1>2 DEF EventsDiffer
<1>6. \A i \in 1..Len(q) : q[i].buf # e.buf \/ (q[i].buf = None /\ q[i].type # e.type)
  BY DEF Buffers
<1>7. \A i, j \in 1..Len(r) :
         i # j => r[i].buf # r[j].buf \/ (r[i].buf = None /\ r[i].type # r[j].type)
  BY <1>1, <1>2, <1>6 DEF EventsDiffer
<1>8. QED BY <1>1, <1>4, <1>5, <1>7 DEF EventsDiffer, r

\* The event that is taken takes its buffer along.
LEMMA EventTaken ==
  ASSUME NEW q \in Seq(Event), EventsDiffer(q), q # << >>
  PROVE  /\ Head(q) \in Event /\ Tail(q) \in Seq(Event) /\ EventsDiffer(Tail(q))
         /\ Head(q).buf = None <=> Head(q).type \in {"arp", "bind", "down"}
         /\ Head(q).buf # None => Head(q).buf \in Buffers(q)
         /\ Buffers(Tail(q)) = Buffers(q) \ {Head(q).buf}
         /\ \A i \in 1..Len(Tail(q)) : i + 1 \in 1..Len(q) /\ Tail(q)[i] = q[i + 1]
         /\ 1 \in 1..Len(q) /\ Head(q) = q[1]
PROOF
<1> DEFINE h == Head(q)  r == Tail(q)
<1>1. /\ Len(q) \in Nat /\ Len(q) > 0 /\ h = q[1] /\ h \in Event
      /\ r \in Seq(Event) /\ Len(r) = Len(q) - 1
      /\ \A i \in 1..Len(r) : r[i] = q[i + 1]
  BY HeadTailProperties, EmptySeq
<1> HIDE DEF h, r
<1>2. \A i \in 1..Len(r) : i + 1 \in 1..Len(q) /\ i + 1 # 1 BY <1>1
<1>3. \A i \in 1..Len(q) : i = 1 \/ (i - 1 \in 1..Len(r) /\ i = (i - 1) + 1) BY <1>1
<1>4. 1 \in 1..Len(q) BY <1>1
<1>5. \A i, j \in 1..Len(r) : i # j => i + 1 # j + 1 OBVIOUS
<1>6. EventsDiffer(r) BY <1>1, <1>2, <1>5 DEF EventsDiffer
<1>7. h.buf = None <=> h.type \in {"arp", "bind", "down"} BY <1>1, <1>4 DEF EventsDiffer
<1>8. h.buf # None => h.buf \in Buffers(q) BY <1>1, <1>4 DEF Buffers
<1>9. Buffers(r) = Buffers(q) \ {h.buf}
  <2>1. ASSUME NEW x \in Buffers(r) PROVE x \in Buffers(q) \ {h.buf}
    <3>1. PICK i \in 1..Len(r) : x = q[i + 1].buf BY <1>1 DEF Buffers
    <3>2. x # None BY DEF Buffers
    <3>3. i + 1 \in 1..Len(q) /\ i + 1 # 1 BY <1>2
    <3>4. x # q[1].buf BY <1>4, <3>1, <3>2, <3>3 DEF EventsDiffer
    <3>5. QED BY <1>1, <3>1, <3>2, <3>3, <3>4 DEF Buffers
  <2>2. ASSUME NEW x \in Buffers(q) \ {h.buf} PROVE x \in Buffers(r)
    <3>1. PICK i \in 1..Len(q) : x = q[i].buf /\ x # None BY DEF Buffers
    <3>2. i # 1 BY <1>1, <3>1
    <3>3. PICK k \in 1..Len(r) : i = k + 1 BY <1>3, <3>2
    <3>4. r[k].buf = x BY <1>1, <3>1, <3>3
    <3>5. QED BY <3>1, <3>4 DEF Buffers
  <2>3. QED BY <2>1, <2>2
<1>10. QED BY <1>1, <1>2, <1>4, <1>6, <1>7, <1>8, <1>9 DEF h, r

\* Facts about cardinalities.
LEMMA UnionBound ==
  ASSUME NEW S, NEW T, IsFiniteSet(S), IsFiniteSet(T)
  PROVE  /\ IsFiniteSet(S \cup T)
         /\ Cardinality(S) \in Nat /\ Cardinality(T) \in Nat
         /\ Cardinality(S \cup T) <= Cardinality(S) + Cardinality(T)
PROOF
<1>1. IsFiniteSet(S \cap T) /\ IsFiniteSet(S \cup T)
  BY FS_Intersection, FS_Union
<1>2. /\ Cardinality(S) \in Nat /\ Cardinality(T) \in Nat
      /\ Cardinality(S \cap T) \in Nat
  BY <1>1, FS_CardinalityType
<1>3. Cardinality(S \cup T) = Cardinality(S) + Cardinality(T) - Cardinality(S \cap T)
  BY FS_Union
<1>4. QED BY <1>1, <1>2, <1>3

LEMMA IntervalCount ==
  ASSUME NEW n \in Nat PROVE IsFiniteSet(1..n) /\ Cardinality(1..n) = n
PROOF
<1>1. 1 \in Int /\ n \in Int OBVIOUS
<1>2. IsFiniteSet(1..n) /\ Cardinality(1..n) = IF 1 > n THEN 0 ELSE n - 1 + 1
  BY <1>1, FS_Interval
<1>3. QED BY <1>2

LEMMA AtMostOne ==
  ASSUME NEW S, \A x, y \in S : x = y
  PROVE  Cardinality(S) <= 1
PROOF
<1>1. CASE S = {}
  <2>1. Cardinality({}) = 0 BY FS_EmptySet
  <2>2. QED BY <1>1, <2>1
<1>2. CASE S # {}
  <2>1. PICK x \in S : TRUE BY <1>2
  <2>2. S = {x} BY <2>1
  <2>3. Cardinality({x}) = 1 BY FS_Singleton
  <2>4. QED BY <2>2, <2>3
<1>3. QED BY <1>1, <1>2

\* While a buffer is elsewhere the queue has room: the others, an ARP timer and
\* a socket to bind are all that can wait.
LEMMA RoomLeft ==
  ASSUME NEW b \in Buffer, NEW q \in Seq(Event), EventsDiffer(q), b \notin Buffers(q),
         \A i \in 1..Len(q) : q[i].type # "down"
  PROVE  Len(q) < QueueLength
PROOF
<1> DEFINE N == 1..Len(q)
           P == { i \in N : q[i].buf # None }
           Of(type) == { i \in N : q[i].buf = None /\ q[i].type = type }
           f == [i \in P |-> q[i].buf]
<1>1. Len(q) \in Nat /\ IsFiniteSet(N) /\ Cardinality(N) = Len(q)
  <2>1. Len(q) \in Nat OBVIOUS
  <2>2. QED BY <2>1, IntervalCount
<1>2. N = P \cup (Of("arp") \cup Of("bind")) BY DEF EventsDiffer
<1>3. IsFiniteSet(P) /\ IsFiniteSet(Of("arp")) /\ IsFiniteSet(Of("bind"))
  BY <1>1, FS_Subset
<1>4. IsFiniteSet(Buffer \ {b}) /\ Cardinality(Buffer \ {b}) = Cardinality(Buffer) - 1
  BY BufferAssumption, FS_RemoveElement
<1>5. f \in Injection(P, Buffer \ {b})
  <2>1. \A i \in N : q[i] \in Event OBVIOUS
  <2>2. \A i \in P : q[i].buf \in Buffer \ {b} BY <2>1 DEF Buffers, Event
  <2>3. \A i, j \in P : i # j => q[i].buf # q[j].buf BY DEF EventsDiffer
  <2>4. QED BY <2>2, <2>3 DEF Injection, IsInjective
<1>6. Cardinality(P) <= Cardinality(Buffer) - 1 BY <1>4, <1>5, FS_Injection
<1>7. ASSUME NEW type PROVE Cardinality(Of(type)) <= 1
  <2>1. \A i, j \in Of(type) : i = j BY DEF EventsDiffer
  <2>2. QED BY <2>1, AtMostOne
<1>8. Cardinality(Of("arp")) <= 1 /\ Cardinality(Of("bind")) <= 1 BY <1>7
<1> HIDE DEF N, P, Of
<1>9. /\ IsFiniteSet(Of("arp") \cup Of("bind"))
      /\ Cardinality(Of("arp")) \in Nat /\ Cardinality(Of("bind")) \in Nat
      /\ Cardinality(Of("arp") \cup Of("bind")) <= Cardinality(Of("arp")) + Cardinality(Of("bind"))
  BY <1>3, UnionBound
<1>10. /\ Cardinality(P) \in Nat /\ Cardinality(Of("arp") \cup Of("bind")) \in Nat
       /\ Cardinality(N) <= Cardinality(P) + Cardinality(Of("arp") \cup Of("bind"))
  BY <1>2, <1>3, <1>9, UnionBound
<1>11. Cardinality(Buffer) \in Nat BY BufferAssumption, FS_CardinalityType
<1>12. ReservedEvents \in Nat BY SizeAssumption
<1>13. Len(q) <= Cardinality(P) + 2 BY <1>1, <1>8, <1>9, <1>10
<1>14. QED BY <1>1, <1>6, <1>10, <1>11, <1>12, <1>13, ReserveAssumption DEF QueueLength

-----------------------------------------------------------------------------
(* Type correctness.                                                         *)

LEMMA EventTypes ==
  /\ \A b \in Buffer, valid \in BOOLEAN : RxEvent(b, valid) \in Event
  /\ \A b \in Buffer \cup {None} : TxEvent(b) \in Event
  /\ \A type \in {"arp", "bind", "down"} : OtherEvent(type) \in Event
PROOF BY DEF RxEvent, TxEvent, OtherEvent, Event

LEMMA PostTyped ==
  ASSUME TypeOK, NEW e \in Event, Post(e) PROVE xNetworkEventQueue' \in Seq(Event)
PROOF
<1>1. xNetworkEventQueue \in Seq(Event) BY DEF TypeOK
<1>2. Append(xNetworkEventQueue, e) \in Seq(Event) BY <1>1
<1>3. QED BY <1>1, <1>2 DEF Post

LEMMA RingTypes ==
  /\ 0 \in RxIndex /\ 0 \in TxIndex
  /\ \A i \in RxIndex : (i + 1) % NumRx \in RxIndex
  /\ \A i \in TxIndex : (i + 1) % NumTx \in TxIndex
PROOF
<1>1. NumRx \in Nat /\ NumRx > 0 /\ NumTx \in Nat /\ NumTx > 0 BY SizeAssumption
<1>2. \A n \in Nat, i \in Nat : n > 0 => (i + 1) % n \in 0..(n - 1) OBVIOUS
<1>3. QED BY <1>1, <1>2 DEF RxIndex, TxIndex

LEMMA PacketReceiveTyped ==
  ASSUME TypeOK, PacketReceive
  PROVE  /\ rxDesc' \in [RxIndex -> {"empty", "dma", "good", "bad"}]
         /\ g_ui32RxDescIndex' \in RxIndex
PROOF BY RingTypes DEF TypeOK, PacketReceive, NextRx

LEMMA TypeInit == Init => TypeOK
PROOF
<1>1. SUFFICES ASSUME Init PROVE TypeOK OBVIOUS
<1>2. xNetworkEventQueue \in Seq(Event)
  <2>1. OtherEvent("down") \in Event BY EventTypes
  <2>2. QED BY <1>1, <2>1 DEF Init
<1>3. 0 \in 0..ArpRequests BY SizeAssumption
<1>4. /\ rxDesc \in [RxIndex -> {"empty", "dma", "good", "bad"}]
      /\ txDesc \in [TxIndex -> Buffer \cup {None}]
  BY <1>1 DEF Init
<1>5. QED BY <1>1, <1>2, <1>3, <1>4, RingTypes DEF Init, TypeOK, IpLocation, AppLocation

LEMMA TypeStep == ASSUME IInv, [Next]_vars PROVE TypeOK'
PROOF
<1>1. TypeOK /\ CustodyOK BY DEF IInv
<1>2. /\ ipPc \in IpHolds => ipBuf \in Buffer
      /\ appPc \in AppHolds => appBuf \in Buffer
  BY <1>1 DEF TypeOK, CustodyOK
<1> USE <1>1 DEF TypeOK, IpLocation, AppLocation, macVars, txVars, ipVars, appVars, listVars
<1>3. ASSUME NEW result \in {"good", "bad"}, MacReceive(result) PROVE TypeOK'
  BY <1>3, RingTypes DEF MacReceive
<1>4. CASE MacTransmit BY <1>4, RingTypes DEF MacTransmit
<1>5. CASE IsrWithoutBuffer BY <1>5 DEF IsrWithoutBuffer
<1>6. CASE IsrRejects BY <1>6, PacketReceiveTyped DEF IsrRejects
<1>7. ASSUME NEW b \in Buffer, IsrAccepts(b) PROVE TypeOK'
  <2>1. FrameIsCopied \in BOOLEAN BY DEF FrameIsCopied
  <2>2. xNetworkEventQueue' \in Seq(Event)
    BY <1>7, <2>1, EventTypes, PostTyped DEF IsrAccepts
  <2>3. QED BY <1>7, <2>2, PacketReceiveTyped DEF IsrAccepts
<1>8. CASE IpArpTimer
  <2>1. xNetworkEventQueue' \in Seq(Event) BY <1>8, EventTypes, PostTyped DEF IpArpTimer
  <2>2. QED BY <1>8, <2>1 DEF IpArpTimer
<1>9. CASE IpReceive
  <2>1. /\ Head(xNetworkEventQueue) \in Event
        /\ Tail(xNetworkEventQueue) \in Seq(Event)
    BY <1>9, HeadTailProperties DEF IpReceive
  <2>2. ArpRequests \in Nat BY SizeAssumption
  <2>3. arpLeft' \in 0..ArpRequests BY <1>9, <2>2 DEF IpReceive
  <2>4. ipPc' \in IpLocation /\ ipBuf' \in Buffer \cup {None} BY <1>9, <2>1 DEF IpReceive, Event
  <2>5. QED BY <1>9, <2>1, <2>3, <2>4 DEF IpReceive
<1>10. CASE IpNetworkDown BY <1>10 DEF IpNetworkDown
<1>11. CASE IpBind BY <1>11 DEF IpBind
<1>12. CASE IpReturnsFrame \/ IpSendsDatagram
  BY <1>12 DEF IpReturnsFrame, IpSendsDatagram
<1>13. CASE IpConsumesFrame BY <1>2, <1>13 DEF IpConsumesFrame, IpHolds
<1>14. CASE IpDropsFrame \/ IpCannotSend \/ OutputRelease
  BY <1>2, <1>14, RingTypes
     DEF IpDropsFrame, IpCannotSend, OutputRelease, ReleaseAndWait, IpHolds
<1>15. ASSUME NEW b \in Buffer, IpArpRequest(b) PROVE TypeOK'
  <2>1. arpLeft' \in 0..ArpRequests BY <1>15, SizeAssumption DEF IpArpRequest
  <2>2. QED BY <1>15, <2>1 DEF IpArpRequest
<1>16. CASE IpArpDone
  <2>1. arpLeft' \in 0..ArpRequests BY <1>16, SizeAssumption DEF IpArpDone
  <2>2. QED BY <1>16, <2>1 DEF IpArpDone
<1>17. CASE OutputLatch \/ OutputRefuses
  BY <1>2, <1>17 DEF OutputLatch, OutputRefuses, IpHolds
<1>18. CASE OutputFill BY <1>2, <1>18 DEF OutputFill, IpHolds
<1>19. CASE AppBind
  <2>1. xNetworkEventQueue' \in Seq(Event) BY <1>19, EventTypes, PostTyped DEF AppBind
  <2>2. QED BY <1>19, <2>1 DEF AppBind
<1>20. CASE AppIsBound BY <1>20 DEF AppIsBound
<1>21. ASSUME NEW b \in Buffer, AppReceive(b) PROVE TypeOK' BY <1>21 DEF AppReceive
<1>22. CASE AppRelease BY <1>2, <1>22 DEF AppRelease, AppHolds
<1>23. ASSUME NEW b \in Buffer, AppTakeBuffer(b) PROVE TypeOK' BY <1>23 DEF AppTakeBuffer
<1>24. CASE AppPost
  <2>1. xNetworkEventQueue' \in Seq(Event) BY <1>24, EventTypes, PostTyped DEF AppPost
  <2>2. QED BY <1>2, <1>24, <2>1 DEF AppPost, AppHolds
<1>25. CASE UNCHANGED vars BY <1>25 DEF vars
<1>26. QED
  BY <1>3, <1>4, <1>5, <1>6, <1>7, <1>8, <1>9, <1>10, <1>11, <1>12, <1>13, <1>14, <1>15,
     <1>16, <1>17, <1>18, <1>19, <1>20, <1>21, <1>22, <1>23, <1>24, <1>25
     DEF Next, Mac, Isr, IpTask, App

-----------------------------------------------------------------------------
(* The receive ring.                                                         *)

\* Only PacketReceive and the first event arm a descriptor, and what is
\* posted later is not that event.
LEMMA RingInit == Init => DownOK /\ RxRingInSync
PROOF BY DEF Init, DownOK, RxRingInSync, Armed, Queue

LEMMA NotDown ==
  /\ \A b, valid : RxEvent(b, valid).type # "down"
  /\ \A b : TxEvent(b).type # "down"
  /\ \A type : OtherEvent(type).type = type
PROOF BY DEF RxEvent, TxEvent, OtherEvent

LEMMA PostKeepsDown ==
  ASSUME TypeOK, DownOK, xNetworkUp, NEW e \in Event, e.type # "down", Post(e),
         UNCHANGED <<xNetworkUp, ipPc>>
  PROVE  DownOK'
PROOF
<1>1. xNetworkEventQueue \in Seq(Event) BY DEF TypeOK
<1> DEFINE q == xNetworkEventQueue  r == Append(q, e)
<1>2. /\ Len(r) = Len(q) + 1 /\ Len(q) \in Nat /\ r[Len(q) + 1] = e
      /\ \A i \in 1..Len(q) : r[i] = q[i]
  BY <1>1, AppendProperties
<1> HIDE DEF r
<1>3. \A i \in 1..Len(r) : i \in 1..Len(q) \/ i = Len(q) + 1 BY <1>2
<1>4. \A i \in 1..Len(r) : r[i].type # "down" BY <1>2, <1>3 DEF DownOK, Queue
<1>5. xNetworkEventQueue' = q \/ xNetworkEventQueue' = r BY DEF Post, r
<1>6. QED BY <1>4, <1>5 DEF DownOK, Queue

LEMMA RingMoves ==
  ASSUME TypeOK, RxRingInSync, rxInterrupt, PacketReceive, macRx' = macRx, ~rxInterrupt'
  PROVE  RxRingInSync' /\ Armed' # {}
PROOF
<1>1. NextRx \in RxIndex BY RingTypes DEF TypeOK, NextRx
<1>2. rxDesc' = [rxDesc EXCEPT ![NextRx] = "dma"] /\ g_ui32RxDescIndex' = NextRx /\ macRx = NextRx
  BY DEF RxRingInSync, PacketReceive
<1>3. \A i \in RxIndex : rxDesc[i] # "dma" BY DEF RxRingInSync, Armed
<1>4. Armed' = {NextRx} BY <1>1, <1>2, <1>3 DEF Armed, TypeOK
<1>5. QED BY <1>2, <1>4 DEF RxRingInSync

LEMMA RingStep == ASSUME IInv, [Next]_vars PROVE DownOK' /\ RxRingInSync'
PROOF
<1>1. TypeOK /\ DownOK /\ RxRingInSync BY DEF IInv
<1>2. ASSUME UNCHANGED macVars PROVE RxRingInSync'
  BY <1>1, <1>2 DEF macVars, RxRingInSync, Armed, NextRx
<1>3. ASSUME UNCHANGED << macVars, xNetworkEventQueue, xNetworkUp >>, ipPc # "down", ipPc # "wait",
             ipPc' # "down"
      PROVE  DownOK' /\ RxRingInSync'
  BY <1>1, <1>2, <1>3 DEF DownOK, Queue, macVars
<1>4. ASSUME UNCHANGED << macVars, xNetworkEventQueue, xNetworkUp, ipPc >>
      PROVE  DownOK' /\ RxRingInSync'
  BY <1>1, <1>2, <1>4 DEF DownOK, Queue, macVars
<1>5. ASSUME NEW result \in {"good", "bad"}, MacReceive(result) PROVE DownOK' /\ RxRingInSync'
  <2>1. macRx \in RxIndex /\ rxDesc[macRx] = "dma" /\ macRx = g_ui32RxDescIndex
    BY <1>1, <1>5 DEF MacReceive, RxRingInSync, Armed, TypeOK
  <2>2. xNetworkUp BY <1>1, <2>1 DEF DownOK
  <2>3. Armed' = {}
    BY <1>1, <1>5, <2>1 DEF MacReceive, RxRingInSync, Armed, TypeOK
  <2>4. RxRingInSync'
    BY <1>1, <1>5, <2>1, <2>3 DEF MacReceive, RxRingInSync, NextRx, TypeOK
  <2>5. QED BY <1>1, <1>5, <2>2, <2>4 DEF MacReceive, DownOK, Queue, ipVars
<1>6. CASE MacTransmit BY <1>4, <1>6 DEF MacTransmit, ipVars
<1>7. ASSUME rxInterrupt PROVE xNetworkUp BY <1>1, <1>7 DEF DownOK
<1>8. CASE IsrWithoutBuffer
  BY <1>1, <1>7, <1>8
     DEF IsrWithoutBuffer, DownOK, RxRingInSync, Armed, Queue, ipVars
<1>9. CASE IsrRejects
  <2>1. RxRingInSync' BY <1>1, <1>9, RingMoves DEF IsrRejects
  <2>2. QED BY <1>1, <1>7, <1>9, <2>1 DEF IsrRejects, DownOK, Queue, ipVars
<1>10. ASSUME NEW b \in Buffer, IsrAccepts(b) PROVE DownOK' /\ RxRingInSync'
  <2>1. RxRingInSync' BY <1>1, <1>10, RingMoves DEF IsrAccepts
  <2>2. FrameIsCopied \in BOOLEAN BY DEF FrameIsCopied
  <2>3. DownOK'
    BY <1>1, <1>7, <1>10, <2>2, EventTypes, NotDown, PostKeepsDown DEF IsrAccepts, ipVars
  <2>4. QED BY <2>1, <2>3
<1>11. CASE IpArpTimer
  <2>1. DownOK' BY <1>1, <1>11, EventTypes, NotDown, PostKeepsDown DEF IpArpTimer, ipVars
  <2>2. QED BY <1>2, <1>11, <2>1 DEF IpArpTimer
<1>12. CASE IpReceive
  <2>1. /\ Head(xNetworkEventQueue) = xNetworkEventQueue[1]
        /\ \A i \in 1..Len(Tail(xNetworkEventQueue)) :
              /\ i + 1 \in 1..Len(xNetworkEventQueue)
              /\ Tail(xNetworkEventQueue)[i] = xNetworkEventQueue[i + 1]
        /\ 1 \in 1..Len(xNetworkEventQueue)
    BY <1>12, EventTaken DEF IpReceive, IInv, TypeOK, CustodyOK, Queue
  <2>2. CASE xNetworkUp
    BY <1>1, <1>2, <1>12, <2>1, <2>2 DEF IpReceive, DownOK, Queue
  <2>3. CASE ~xNetworkUp
    <3>1. xNetworkEventQueue = << OtherEvent("down") >>
      BY <1>1, <1>12, <2>3 DEF IpReceive, DownOK, Queue
    <3>2. /\ Head(xNetworkEventQueue) = OtherEvent("down") /\ Tail(xNetworkEventQueue) = << >>
      BY <3>1
    <3>3. QED BY <1>1, <1>2, <1>12, <2>3, <3>2, NotDown DEF IpReceive, DownOK, Queue, macVars
  <2>4. QED BY <2>2, <2>3
<1>13. CASE IpNetworkDown
  <2>1. /\ ~xNetworkUp /\ rxDesc = [i \in RxIndex |-> "empty"] /\ macRx = 0
        /\ g_ui32RxDescIndex = 0 /\ ~rxInterrupt /\ xNetworkEventQueue = << >>
    BY <1>1, <1>13 DEF IpNetworkDown, DownOK, Queue
  <2>2. rxDesc' = [[i \in RxIndex |-> "empty"] EXCEPT ![0] = "dma"]
    BY <1>13, <2>1 DEF IpNetworkDown
  <2>3. Armed' = {0} BY <2>2, RingTypes DEF Armed
  <2>4. RxRingInSync' BY <1>13, <2>1, <2>3 DEF IpNetworkDown, RxRingInSync
  <2>5. QED BY <1>13, <2>1, <2>4 DEF IpNetworkDown, DownOK, Queue
<1>14. CASE IpBind BY <1>3, <1>14 DEF IpBind
<1>15. CASE IpReturnsFrame \/ IpSendsDatagram
  BY <1>3, <1>15 DEF IpReturnsFrame, IpSendsDatagram
<1>16. CASE IpConsumesFrame BY <1>3, <1>16 DEF IpConsumesFrame
<1>17. CASE IpDropsFrame \/ IpCannotSend \/ OutputRelease
  BY <1>3, <1>17 DEF IpDropsFrame, IpCannotSend, OutputRelease, ReleaseAndWait
<1>18. ASSUME NEW b \in Buffer, IpArpRequest(b) PROVE DownOK' /\ RxRingInSync'
  BY <1>3, <1>18 DEF IpArpRequest
<1>19. CASE IpArpDone BY <1>3, <1>19 DEF IpArpDone
<1>20. CASE OutputRefuses \/ OutputLatch \/ OutputFill
  BY <1>3, <1>20 DEF OutputRefuses, OutputLatch, OutputFill
<1>21. ASSUME IpIsBlocked PROVE xNetworkUp
  <2>1. << OtherEvent("down") >> # << >> OBVIOUS
  <2>2. QED BY <1>1, <1>21, <2>1 DEF IpIsBlocked, DownOK, Queue
<1>22. CASE AppBind
  <2>1. DownOK' BY <1>1, <1>21, <1>22, EventTypes, NotDown, PostKeepsDown DEF AppBind, ipVars
  <2>2. QED BY <1>2, <1>22, <2>1 DEF AppBind
<1>23. CASE AppPost
  <2>1. appBuf \in Buffer \cup {None} BY <1>1 DEF TypeOK
  <2>2. DownOK' BY <1>1, <1>21, <1>23, <2>1, EventTypes, NotDown, PostKeepsDown DEF AppPost, ipVars
  <2>3. QED BY <1>2, <1>23, <2>2 DEF AppPost
<1>24. CASE AppIsBound \/ AppRelease BY <1>4, <1>24 DEF AppIsBound, AppRelease, ipVars
<1>25. ASSUME NEW b \in Buffer, AppReceive(b) \/ AppTakeBuffer(b) PROVE DownOK' /\ RxRingInSync'
  BY <1>4, <1>25 DEF AppReceive, AppTakeBuffer, ipVars
<1>26. CASE UNCHANGED vars BY <1>4, <1>26 DEF vars, ipVars
<1>27. QED
  BY <1>5, <1>6, <1>8, <1>9, <1>10, <1>11, <1>12, <1>13, <1>14, <1>15, <1>16, <1>17, <1>18,
     <1>19, <1>20, <1>22, <1>23, <1>24, <1>25, <1>26 DEF Next, Mac, Isr, IpTask, App

-----------------------------------------------------------------------------
(* The places of the buffers.                                                *)

PlaceIn(b, pool, queued, ip, socket, app, gone) ==
  IF b \in pool THEN "pool"
  ELSE IF b \in queued THEN "queue"
  ELSE IF ip = b THEN "ip"
  ELSE IF b \in socket THEN "socket"
  ELSE IF app = b THEN "app"
  ELSE IF b \in gone THEN "lost"
  ELSE "nowhere"

LEMMA PlaceIs ==
  ASSUME NEW b \in Buffer
  PROVE  /\ PlaceOf(b) = PlaceIn(b, free, Buffers(xNetworkEventQueue), ipBuf,
                                 xWaitingPacketsList, appBuf, lost)
         /\ PlaceOf(b)' = PlaceIn(b, free', Buffers(xNetworkEventQueue'), ipBuf',
                                  xWaitingPacketsList', appBuf', lost')
PROOF
<1>1. b # None BY BufferAssumption
<1>2. QueuedAt(b) # {} <=> b \in Buffers(xNetworkEventQueue)
  BY <1>1 DEF QueuedAt, Buffers
<1>3. QueuedAt(b)' # {} <=> b \in Buffers(xNetworkEventQueue')
  BY <1>1 DEF QueuedAt, Buffers
<1>4. QED BY <1>2, <1>3 DEF PlaceOf, PlaceIn

\* What the sets of places become, and where each buffer was and is.
Kept(b) == PlaceOf(b)' = PlaceOf(b)
Moves(b, from, to) == PlaceOf(b) = from /\ PlaceOf(b)' = to /\ \A c \in Buffer \ {b} : Kept(c)

Place == [b \in Buffer |-> PlaceOf(b)]

LEMMA MoveIsStep ==
  ASSUME NEW b \in Buffer, NEW from, NEW to, << from, to >> \in Custody!Move, Moves(b, from, to)
  PROVE  Custody!Next
PROOF
<1> DEFINE move == << from, to >>
<1>1. Place' = [Place EXCEPT ![b] = to] BY DEF Moves, Kept, Place
<1>2. Place[b] = from BY DEF Moves, Place
<1>3. move[1] = from /\ move[2] = to OBVIOUS
<1>4. QED BY <1>1, <1>2, <1>3 DEF Custody!Next, Place

LEMMA NoMove == ASSUME \A b \in Buffer : Kept(b) PROVE Place' = Place
PROOF BY DEF Kept, Place

Follows == CustodyOK' /\ [Custody!Next]_Place

LEMMA NothingMoves ==
  ASSUME CustodyOK,
         UNCHANGED << free, xNetworkEventQueue, ipBuf, xWaitingPacketsList, appBuf, lost >>,
         ipPc \in IpHolds <=> ipPc' \in IpHolds, appPc \in AppHolds <=> appPc' \in AppHolds
  PROVE  Follows
PROOF
<1>1. CustodyOK' BY DEF CustodyOK, Queue
<1>2. \A b \in Buffer : Kept(b) BY PlaceIs DEF Kept
<1>3. QED BY <1>1, <1>2, NoMove DEF Follows

\* The handler takes a buffer from the pool and posts it.
LEMMA FrameMoves ==
  ASSUME IInv, NEW b \in Buffer, IsrAccepts(b) PROVE Follows
PROOF
<1>1. TypeOK /\ CustodyOK /\ b # None BY BufferAssumption DEF IInv
<1>2. /\ b \in free /\ b \notin Buffers(xNetworkEventQueue) /\ b # ipBuf
      /\ b \notin xWaitingPacketsList /\ b # appBuf
  BY <1>1 DEF IsrAccepts, CustodyOK, InOnePlace, Queue
<1>3. xNetworkUp BY DEF IInv, DownOK, IsrAccepts
<1>4. QueueHasRoom
  BY <1>1, <1>2, <1>3, RoomLeft DEF IInv, DownOK, CustodyOK, TypeOK, Queue, QueueHasRoom
<1> DEFINE e == RxEvent(b, FrameIsCopied)
<1>5. e \in Event /\ e.buf = b /\ e.type = "rx" BY DEF RxEvent, Event, FrameIsCopied
<1> HIDE DEF e
<1>6. xNetworkEventQueue' = Append(xNetworkEventQueue, e) BY <1>4 DEF IsrAccepts, Post, e
<1>7. /\ EventsDiffer(xNetworkEventQueue')
      /\ Buffers(xNetworkEventQueue') = Buffers(xNetworkEventQueue) \cup {b}
  BY <1>1, <1>2, <1>5, <1>6, EventPosted DEF CustodyOK, TypeOK, Queue
<1>8. free' = free \ {b} /\ UNCHANGED << ipPc, ipBuf, appPc, appBuf, xWaitingPacketsList, lost >>
  BY DEF IsrAccepts, ipVars, appVars, listVars
<1>9. CustodyOK' BY <1>1, <1>2, <1>7, <1>8 DEF CustodyOK, InOnePlace, Queue
<1>10. Moves(b, "pool", "queue") BY <1>2, <1>7, <1>8, PlaceIs DEF Moves, Kept, PlaceIn
<1>11. << "pool", "queue" >> \in Custody!Move BY DEF Custody!Move
<1>12. QED BY <1>9, <1>10, <1>11, MoveIsStep DEF Follows

\* An event without a buffer is posted; or the queue is full, and it is not.
LEMMA OtherPosted ==
  ASSUME IInv, NEW type \in {"arp", "bind"}, Post(OtherEvent(type)),
         \A i \in 1..Len(xNetworkEventQueue) : xNetworkEventQueue[i].type # type,
         UNCHANGED << free, ipPc, ipBuf, xWaitingPacketsList, appBuf, lost >>,
         appPc \in AppHolds <=> appPc' \in AppHolds
  PROVE  Follows
PROOF
<1>1. TypeOK /\ CustodyOK BY DEF IInv
<1> DEFINE e == OtherEvent(type)
<1>2. e \in Event /\ e.buf = None /\ e.type = type BY DEF OtherEvent, Event
<1> HIDE DEF e
<1>3. /\ EventsDiffer(xNetworkEventQueue')
      /\ Buffers(xNetworkEventQueue') = Buffers(xNetworkEventQueue)
  <2>1. xNetworkEventQueue \in Seq(Event) /\ EventsDiffer(xNetworkEventQueue)
    BY <1>1 DEF TypeOK, CustodyOK, Queue
  <2>2. None \notin Buffers(xNetworkEventQueue) BY DEF Buffers
  <2>3. xNetworkEventQueue' \in {xNetworkEventQueue, Append(xNetworkEventQueue, e)}
    BY DEF Post, e
  <2>4. CASE xNetworkEventQueue' = xNetworkEventQueue BY <2>1, <2>4
  <2>5. CASE xNetworkEventQueue' = Append(xNetworkEventQueue, e)
    <3>1. e.buf = None <=> e.type \in {"arp", "bind", "down"} BY <1>2
    <3>2. e.buf \notin Buffers(xNetworkEventQueue) BY <1>2, <2>2
    <3>3. \A i \in 1..Len(xNetworkEventQueue) : xNetworkEventQueue[i].type # e.type BY <1>2
    <3>4. Buffers(xNetworkEventQueue) \cup ({e.buf} \ {None}) = Buffers(xNetworkEventQueue) BY <1>2
    <3>5. QED BY <1>2, <2>1, <2>5, <3>1, <3>2, <3>3, <3>4, EventPosted
  <2>6. QED BY <2>3, <2>4, <2>5
<1>4. CustodyOK' BY <1>1, <1>3 DEF CustodyOK, InOnePlace, Queue
<1>5. \A b \in Buffer : Kept(b) BY <1>3, PlaceIs DEF Kept
<1>6. QED BY <1>4, <1>5, NoMove DEF Follows

\* The IP task takes up an event, and its buffer if it has one.
LEMMA EventMoves == ASSUME IInv, IpReceive PROVE Follows
PROOF
<1>1. TypeOK /\ CustodyOK BY DEF IInv
<1> DEFINE h == Head(xNetworkEventQueue)
<1>2. /\ h \in Event /\ EventsDiffer(xNetworkEventQueue')
      /\ h.buf = None <=> h.type \in {"arp", "bind", "down"}
      /\ h.buf # None => h.buf \in Buffers(xNetworkEventQueue)
      /\ Buffers(xNetworkEventQueue') = Buffers(xNetworkEventQueue) \ {h.buf}
  BY <1>1, EventTaken DEF CustodyOK, TypeOK, Queue, IpReceive
<1>3. /\ ipPc = "wait" /\ ipPc' = h.type /\ ipBuf' = h.buf
      /\ UNCHANGED << free, appPc, appBuf, xWaitingPacketsList, lost >>
  BY DEF IpReceive, appVars, listVars
<1> HIDE DEF h
<1>4. h.type \in {"rx", "tx", "arp", "bind", "down"} /\ h.buf \in Buffer \cup {None}
  BY <1>2 DEF Event
<1>5. ipBuf = None /\ None \notin Buffer
  BY <1>1, <1>3, BufferAssumption DEF CustodyOK, IpHolds
<1>6. CustodyOK'
  BY <1>1, <1>2, <1>3, <1>4, <1>5 DEF CustodyOK, InOnePlace, Queue, IpHolds
<1>7. CASE h.buf = None
  <2>1. Buffers(xNetworkEventQueue') = Buffers(xNetworkEventQueue) BY <1>2, <1>7 DEF Buffers
  <2>2. \A b \in Buffer : Kept(b) BY <1>3, <1>5, <1>7, <2>1, PlaceIs DEF Kept
  <2>3. QED BY <1>6, <2>2, NoMove DEF Follows
<1>8. CASE h.buf # None
  <2>1. PICK b \in Buffer : b = h.buf BY <1>4, <1>8
  <2>2. h.buf \notin free BY <1>1, <1>2, <1>8, <2>1 DEF CustodyOK, InOnePlace, Queue
  <2>3. Moves(b, "queue", "ip")
    BY <1>2, <1>3, <1>5, <1>8, <2>1, <2>2, PlaceIs DEF Moves, Kept, PlaceIn
  <2>4. << "queue", "ip" >> \in Custody!Move BY DEF Custody!Move
  <2>5. QED BY <1>6, <2>1, <2>3, <2>4, MoveIsStep DEF Follows
<1>9. QED BY <1>7, <1>8

\* The IP task leaves its buffer at the socket, or puts it back into the pool.
LEMMA FrameWaits == ASSUME IInv, IpConsumesFrame PROVE Follows
PROOF
<1>1. TypeOK /\ CustodyOK BY DEF IInv
<1>2. PICK b \in Buffer : b = ipBuf /\ None \notin Buffer
  BY <1>1, BufferAssumption DEF TypeOK, CustodyOK, IpConsumesFrame, IpHolds
<1>3. /\ xWaitingPacketsList' = xWaitingPacketsList \cup {ipBuf}
      /\ ipBuf' = None /\ ipPc' = "wait"
      /\ UNCHANGED << free, xNetworkEventQueue, appPc, appBuf, lost >>
  BY DEF IpConsumesFrame, appVars, listVars
<1>4. /\ ipBuf \notin free /\ ipBuf \notin Buffers(xNetworkEventQueue)
      /\ ipBuf \notin xWaitingPacketsList /\ ipBuf # appBuf
  BY <1>1, <1>2 DEF CustodyOK, InOnePlace, Queue
<1>5. CustodyOK'
  BY <1>1, <1>2, <1>3, <1>4 DEF CustodyOK, InOnePlace, Queue, IpHolds
<1>6. Moves(b, "ip", "socket") BY <1>2, <1>3, <1>4, PlaceIs DEF Moves, Kept, PlaceIn
<1>7. << "ip", "socket" >> \in Custody!Move BY DEF Custody!Move
<1>8. QED BY <1>2, <1>5, <1>6, <1>7, MoveIsStep DEF Follows

LEMMA BufferReleased ==
  ASSUME IInv, ipPc \in IpHolds, ReleaseAndWait,
         UNCHANGED << xNetworkEventQueue, appVars, xWaitingPacketsList, lost >>
  PROVE  Follows
PROOF
<1>1. TypeOK /\ CustodyOK BY DEF IInv
<1>2. PICK b \in Buffer : b = ipBuf /\ None \notin Buffer
  BY <1>1, BufferAssumption DEF TypeOK, CustodyOK
<1>3. /\ free' = free \cup {ipBuf} /\ ipBuf' = None /\ ipPc' \in {"arp", "wait"}
      /\ UNCHANGED << xWaitingPacketsList, lost, xNetworkEventQueue, appPc, appBuf >>
  BY DEF ReleaseAndWait, appVars, listVars
<1>4. /\ ipBuf \notin free /\ ipBuf \notin Buffers(xNetworkEventQueue)
      /\ ipBuf \notin xWaitingPacketsList /\ ipBuf # appBuf
  BY <1>1, <1>2 DEF CustodyOK, InOnePlace, Queue
<1>5. CustodyOK'
  BY <1>1, <1>2, <1>3, <1>4 DEF CustodyOK, InOnePlace, Queue, IpHolds
<1>6. Moves(b, "ip", "pool") BY <1>2, <1>3, <1>4, PlaceIs DEF Moves, Kept, PlaceIn
<1>7. << "ip", "pool" >> \in Custody!Move BY DEF Custody!Move
<1>8. QED BY <1>2, <1>5, <1>6, <1>7, MoveIsStep DEF Follows

\* An answer that is too long leaves its buffer to nobody.
LEMMA BufferLost == ASSUME IInv, OutputRefuses PROVE Follows
PROOF
<1>1. TypeOK /\ CustodyOK BY DEF IInv
<1>2. PICK b \in Buffer : b = ipBuf /\ None \notin Buffer
  BY <1>1, BufferAssumption DEF TypeOK, CustodyOK, OutputRefuses, IpHolds
<1>3. /\ lost' = lost \cup {ipBuf} /\ ipBuf' = None /\ ipPc' = "wait"
      /\ UNCHANGED << free, xNetworkEventQueue, xWaitingPacketsList, appPc, appBuf >>
  BY DEF OutputRefuses, appVars
<1>4. /\ ipBuf \notin free /\ ipBuf \notin Buffers(xNetworkEventQueue)
      /\ ipBuf \notin xWaitingPacketsList /\ ipBuf # appBuf /\ ipBuf \notin lost
  BY <1>1, <1>2 DEF CustodyOK, InOnePlace, Queue
<1>5. CustodyOK'
  BY <1>1, <1>2, <1>3, <1>4 DEF CustodyOK, InOnePlace, Queue, IpHolds
<1>6. Moves(b, "ip", "lost") BY <1>2, <1>3, <1>4, PlaceIs DEF Moves, Kept, PlaceIn
<1>7. << "ip", "lost" >> \in Custody!Move BY DEF Custody!Move
<1>8. QED BY <1>2, <1>5, <1>6, <1>7, MoveIsStep DEF Follows

\* An ARP request is built in a buffer of the pool.
LEMMA RequestMoves ==
  ASSUME IInv, NEW b \in Buffer, IpArpRequest(b) PROVE Follows
PROOF
<1>1. TypeOK /\ CustodyOK /\ b # None BY BufferAssumption DEF IInv
<1>2. /\ free' = free \ {b} /\ ipBuf' = b /\ ipPc' = "output" /\ b \in free /\ ipBuf = None
      /\ UNCHANGED << xWaitingPacketsList, lost, xNetworkEventQueue, appPc, appBuf >>
  BY <1>1 DEF IpArpRequest, appVars, listVars, CustodyOK, IpHolds
<1>3. b \notin Buffers(xNetworkEventQueue) /\ b \notin xWaitingPacketsList /\ b # appBuf
  BY <1>1, <1>2 DEF CustodyOK, InOnePlace, Queue
<1>4. CustodyOK' BY <1>1, <1>2, <1>3, BufferAssumption DEF CustodyOK, InOnePlace, Queue, IpHolds
<1>5. Moves(b, "pool", "ip")
  BY <1>1, <1>2, <1>3, BufferAssumption, PlaceIs DEF Moves, Kept, PlaceIn
<1>6. << "pool", "ip" >> \in Custody!Move BY DEF Custody!Move
<1>7. QED BY <1>4, <1>5, <1>6, MoveIsStep DEF Follows

\* The socket task takes a packet that waits, or a buffer of the pool,
LEMMA AppTakes ==
  ASSUME IInv, NEW b \in Buffer, AppReceive(b) \/ AppTakeBuffer(b) PROVE Follows
PROOF
<1>1. TypeOK /\ CustodyOK /\ b # None BY BufferAssumption DEF IInv
<1>2. /\ appPc = "idle" /\ appBuf = None /\ appBuf' = b /\ appPc' \in AppHolds
      /\ UNCHANGED << xNetworkEventQueue, ipPc, ipBuf, lost >>
  BY <1>1 DEF AppReceive, AppTakeBuffer, ipVars, listVars, CustodyOK, AppHolds
<1>3. b \notin Buffers(xNetworkEventQueue) /\ b # ipBuf /\ (b \in free => b \notin xWaitingPacketsList)
  BY <1>1 DEF AppReceive, AppTakeBuffer, CustodyOK, InOnePlace, Queue
<1>4. CASE AppReceive(b)
  <2>1. /\ b \in xWaitingPacketsList /\ b \notin free /\ free' = free
        /\ xWaitingPacketsList' = xWaitingPacketsList \ {b}
    BY <1>3, <1>4 DEF AppReceive
  <2>2. CustodyOK' BY <1>1, <1>2, <1>3, <2>1, BufferAssumption DEF CustodyOK, InOnePlace, Queue
  <2>3. Moves(b, "socket", "app")
    BY <1>1, <1>2, <1>3, <2>1, BufferAssumption, PlaceIs DEF Moves, Kept, PlaceIn
  <2>4. << "socket", "app" >> \in Custody!Move BY DEF Custody!Move
  <2>5. QED BY <2>2, <2>3, <2>4, MoveIsStep DEF Follows
<1>5. CASE AppTakeBuffer(b)
  <2>1. /\ b \in free /\ b \notin xWaitingPacketsList /\ free' = free \ {b}
        /\ UNCHANGED xWaitingPacketsList
    BY <1>3, <1>5 DEF AppTakeBuffer, listVars
  <2>2. CustodyOK' BY <1>1, <1>2, <1>3, <2>1, BufferAssumption DEF CustodyOK, InOnePlace, Queue
  <2>3. Moves(b, "pool", "app")
    BY <1>1, <1>2, <1>3, <2>1, BufferAssumption, PlaceIs DEF Moves, Kept, PlaceIn
  <2>4. << "pool", "app" >> \in Custody!Move BY DEF Custody!Move
  <2>5. QED BY <2>2, <2>3, <2>4, MoveIsStep DEF Follows
<1>6. QED BY <1>4, <1>5

\* and releases or posts it: the queue is empty then, and has room.
LEMMA EmptyHasRoom == ASSUME IpIsBlocked PROVE QueueHasRoom
PROOF
<1>1. Len(xNetworkEventQueue) = 0
  <2>1. Len(<< >>) = 0 OBVIOUS
  <2>2. QED BY <2>1 DEF IpIsBlocked
<1>2. Cardinality(Buffer) \in Nat BY BufferAssumption, FS_CardinalityType
<1>3. QED BY <1>1, <1>2, SizeAssumption, ReserveAssumption DEF QueueHasRoom, QueueLength

LEMMA AppGives == ASSUME IInv, AppRelease \/ AppPost PROVE Follows
PROOF
<1>1. TypeOK /\ CustodyOK /\ None \notin Buffer BY BufferAssumption DEF IInv
<1>2. /\ appPc \in AppHolds /\ appBuf \in Buffer /\ appBuf' = None /\ appPc' = "idle"
      /\ UNCHANGED << xWaitingPacketsList, lost, ipPc, ipBuf >>
  BY <1>1 DEF AppRelease, AppPost, ipVars, listVars, CustodyOK, TypeOK, AppHolds
<1>3. PICK b \in Buffer : b = appBuf BY <1>2
<1>4. /\ appBuf \notin free /\ appBuf \notin Buffers(xNetworkEventQueue) /\ appBuf # ipBuf
      /\ appBuf \notin xWaitingPacketsList
  BY <1>1, <1>2 DEF CustodyOK, InOnePlace, Queue
<1>5. CASE AppRelease
  <2>1. free' = free \cup {appBuf} /\ xNetworkEventQueue' = xNetworkEventQueue BY <1>5 DEF AppRelease
  <2>2. CustodyOK' BY <1>1, <1>2, <1>3, <1>4, <2>1 DEF CustodyOK, InOnePlace, Queue, AppHolds
  <2>3. Moves(b, "app", "pool")
    BY <1>1, <1>2, <1>3, <1>4, <2>1, PlaceIs DEF Moves, Kept, PlaceIn
  <2>4. << "app", "pool" >> \in Custody!Move BY DEF Custody!Move
  <2>5. QED BY <1>2, <1>3, <2>2, <2>3, <2>4, MoveIsStep DEF Follows
<1>6. CASE AppPost
  <2> DEFINE e == TxEvent(appBuf)
  <2>1. e \in Event /\ e.buf = appBuf /\ e.type = "tx" BY <1>2 DEF TxEvent, Event
  <2> HIDE DEF e
  <2>2. free' = free /\ xNetworkEventQueue' = Append(xNetworkEventQueue, e)
    BY <1>6, EmptyHasRoom DEF AppPost, Post, e
  <2>3. /\ EventsDiffer(xNetworkEventQueue')
        /\ Buffers(xNetworkEventQueue') = Buffers(xNetworkEventQueue) \cup {appBuf}
    BY <1>1, <1>2, <1>3, <1>4, <2>1, <2>2, EventPosted DEF CustodyOK, TypeOK, Queue
  <2>4. CustodyOK' BY <1>1, <1>2, <1>3, <1>4, <2>2, <2>3 DEF CustodyOK, InOnePlace, Queue, AppHolds
  <2>5. Moves(b, "app", "queue")
    BY <1>1, <1>2, <1>3, <1>4, <2>2, <2>3, PlaceIs DEF Moves, Kept, PlaceIn
  <2>6. << "app", "queue" >> \in Custody!Move BY DEF Custody!Move
  <2>7. QED BY <1>2, <1>3, <2>4, <2>5, <2>6, MoveIsStep DEF Follows
<1>7. QED BY <1>5, <1>6

-----------------------------------------------------------------------------
(* All steps together.                                                       *)

LEMMA CustodyInit == Init => CustodyOK /\ Custody!Init
PROOF
<1>1. SUFFICES ASSUME Init PROVE CustodyOK /\ Custody!Init OBVIOUS
<1> DEFINE e == OtherEvent("down")
<1>2. e \in Event /\ e.buf = None /\ e.type = "down" BY DEF OtherEvent, Event
<1> HIDE DEF e
<1>3. xNetworkEventQueue = << e >> BY <1>1 DEF Init, e
<1>4. EventsDiffer(xNetworkEventQueue) /\ Buffers(xNetworkEventQueue) = {}
  BY <1>2, <1>3, OneEvent
<1>5. free = Buffer /\ xWaitingPacketsList = {} /\ lost = {} /\ ipBuf = None /\ appBuf = None
      /\ ipPc \notin IpHolds /\ appPc \notin AppHolds
  BY <1>1 DEF Init, IpHolds, AppHolds
<1>6. CustodyOK BY <1>4, <1>5, BufferAssumption DEF CustodyOK, InOnePlace, Queue
<1>7. \A b \in Buffer : PlaceOf(b) = "pool" BY <1>5 DEF PlaceOf
<1>8. QED BY <1>6, <1>7 DEF Custody!Init

LEMMA CustodyStep == ASSUME IInv, [Next]_vars PROVE Follows
PROOF
<1>1. TypeOK /\ CustodyOK BY DEF IInv
<1> DEFINE Still == UNCHANGED << free, xNetworkEventQueue, ipBuf, xWaitingPacketsList, appBuf, lost >>
<1>2. ASSUME Still, UNCHANGED << ipPc, appPc >> PROVE Follows BY <1>1, <1>2, NothingMoves
<1>3. ASSUME Still, UNCHANGED appPc, ipPc \in IpHolds <=> ipPc' \in IpHolds PROVE Follows
  BY <1>1, <1>3, NothingMoves
<1>4. CASE Mac
  BY <1>2, <1>4 DEF Mac, MacTransmit, MacReceive, ipVars, appVars, listVars
<1>5. CASE IsrWithoutBuffer \/ IsrRejects
  BY <1>2, <1>5 DEF IsrWithoutBuffer, IsrRejects, ipVars, appVars, listVars
<1>6. CASE IpArpTimer
  <2>1. \A i \in 1..Len(xNetworkEventQueue) : xNetworkEventQueue[i].type # "arp"
    BY <1>6 DEF IpArpTimer, ArpEventQueued
  <2>2. QED BY <1>6, <2>1, OtherPosted DEF IpArpTimer, ipVars, appVars, listVars
<1>7. CASE IpNetworkDown \/ IpBind \/ IpArpDone
  BY <1>3, <1>7 DEF IpNetworkDown, IpBind, IpArpDone, appVars, listVars, IpHolds
<1>8. CASE IpReturnsFrame \/ IpSendsDatagram \/ OutputLatch \/ OutputFill
  BY <1>3, <1>8 DEF IpReturnsFrame, IpSendsDatagram, OutputLatch, OutputFill, appVars, listVars, IpHolds
<1>9. CASE IpDropsFrame \/ IpCannotSend \/ OutputRelease
  BY <1>9, BufferReleased DEF IpDropsFrame, IpCannotSend, OutputRelease, listVars, IpHolds
<1>10. CASE AppBind
  <2>1. Len(xNetworkEventQueue) = 0 BY <1>10, EmptySeq DEF AppBind, IpIsBlocked
  <2>2. \A i \in 1..Len(xNetworkEventQueue) : xNetworkEventQueue[i].type # "bind" BY <2>1
  <2>3. QED BY <1>10, <2>2, OtherPosted DEF AppBind, ipVars, listVars, AppHolds
<1>11. CASE AppIsBound BY <1>1, <1>11, NothingMoves DEF AppIsBound, ipVars, listVars, AppHolds
<1>12. CASE UNCHANGED vars BY <1>2, <1>12 DEF vars, ipVars, appVars, listVars
<1>13. QED
  BY <1>4, <1>5, <1>6, <1>7, <1>8, <1>9, <1>10, <1>11, <1>12, FrameMoves, EventMoves, FrameWaits,
     BufferLost, RequestMoves, AppTakes, AppGives DEF Next, Isr, IpTask, App

\* The inductive invariant holds: types, the ring, the queue and the places of
\* the buffers.
THEOREM Invariant == Spec => []IInv
PROOF
<1>1. Init => IInv BY TypeInit, RingInit, CustodyInit DEF IInv
<1>2. IInv /\ [Next]_vars => IInv' BY TypeStep, RingStep, CustodyStep DEF IInv, Follows
<1>3. QED BY <1>1, <1>2, PTL DEF Spec

LEMMA CountPlaces == ASSUME IInv PROVE OnePlace
PROOF
<1>1. SUFFICES ASSUME NEW b \in Buffer PROVE Places(b) + Once(b \in lost) = 1 BY DEF OnePlace
<1>2. CustodyOK /\ b # None BY BufferAssumption DEF IInv
<1>3. Cardinality(QueuedAt(b)) = Once(b \in Buffers(xNetworkEventQueue))
  <2>1. QueuedAt(b) # {} <=> b \in Buffers(xNetworkEventQueue)
    BY <1>2 DEF QueuedAt, Buffers
  <2>2. \A x, y \in QueuedAt(b) : x = y BY <1>2 DEF QueuedAt, CustodyOK, EventsDiffer, Queue
  <2>3. CASE QueuedAt(b) = {}
    <3>1. Cardinality({}) = 0 BY FS_EmptySet
    <3>2. QED BY <2>1, <2>3, <3>1 DEF Once
  <2>4. CASE QueuedAt(b) # {}
    <3>1. PICK x \in QueuedAt(b) : TRUE BY <2>4
    <3>2. QueuedAt(b) = {x} BY <2>2, <3>1
    <3>3. Cardinality({x}) = 1 BY FS_Singleton
    <3>4. QED BY <2>1, <3>2, <3>3 DEF Once
  <2>5. QED BY <2>3, <2>4
<1>4. QED BY <1>2, <1>3 DEF Places, Once, CustodyOK, InOnePlace, Queue

LEMMA RoomForOne == ASSUME IInv PROVE RoomForFrame
PROOF
<1>1. SUFFICES ASSUME rxInterrupt, Cardinality(free) > Threshold PROVE QueueHasRoom
  BY DEF RoomForFrame
<1>2. TypeOK /\ DownOK /\ CustodyOK BY DEF IInv
<1>3. free # {}
  <2>1. Cardinality({}) = 0 BY FS_EmptySet
  <2>2. QED BY <1>1, <2>1, SizeAssumption
<1>4. PICK b \in free : TRUE BY <1>3
<1>5. b \in Buffer /\ b \notin Buffers(xNetworkEventQueue)
  BY <1>2, <1>4 DEF TypeOK, CustodyOK, InOnePlace, Queue
<1>6. QED BY <1>1, <1>2, <1>5, RoomLeft DEF DownOK, CustodyOK, TypeOK, Queue, QueueHasRoom

\* In every state no buffer is in two hands, or lost but by an answer that is longer than
\* TX_BUFFER_SIZE (NetworkInterface.c:556-559), the handler's post never fails, and the
\* handler looks where the DMA has written.
THEOREM Path_is_safe == Spec => []PathInv
PROOF
<1>1. IInv => PathInv BY CountPlaces, RoomForOne DEF IInv, PathInv
<1>2. QED BY <1>1, Invariant, PTL

\* No step but that of a handler which found the pool at its threshold leaves
\* the DMA without a descriptor and the handler without an interrupt.
LEMMA StallStep ==
  ASSUME IInv, [Next]_vars, Stalled', ~Stalled PROVE Cardinality(free) <= Threshold
PROOF
<1>1. TypeOK /\ DownOK /\ RxRingInSync BY DEF IInv
<1>2. ASSUME UNCHANGED << rxDesc, rxInterrupt, xNetworkUp >> PROVE FALSE
  BY <1>2 DEF Stalled, Armed
<1>3. CASE Mac
  BY <1>2, <1>3 DEF Mac, MacTransmit, MacReceive, macVars, ipVars, Stalled
<1>4. CASE IsrWithoutBuffer BY <1>4 DEF IsrWithoutBuffer
<1>5. CASE IsrRejects \/ \E b \in Buffer : IsrAccepts(b)
  BY <1>1, <1>5, RingMoves DEF IsrRejects, IsrAccepts, Stalled
<1>6. CASE IpArpTimer BY <1>2, <1>6 DEF IpArpTimer, macVars, ipVars
<1>7. CASE IpNetworkDown
  <2>1. rxDesc' = [rxDesc EXCEPT ![g_ui32RxDescIndex] = "dma"] /\ g_ui32RxDescIndex \in RxIndex
    BY <1>1, <1>7 DEF IpNetworkDown, TypeOK
  <2>2. g_ui32RxDescIndex \in Armed' BY <1>1, <2>1 DEF Armed, TypeOK
  <2>3. QED BY <2>2 DEF Stalled
<1>8. CASE IpTask /\ ~IpNetworkDown
  BY <1>2, <1>8
     DEF IpTask, IpReceive, IpBind, IpReturnsFrame, IpConsumesFrame, IpDropsFrame, IpSendsDatagram,
         IpCannotSend, IpArpDone, IpArpRequest, OutputRefuses, OutputLatch, OutputFill, OutputRelease,
         macVars
<1>9. CASE App
  BY <1>2, <1>9
     DEF App, AppBind, AppIsBound, AppRelease, AppPost, AppReceive, AppTakeBuffer, macVars, ipVars
<1>10. CASE UNCHANGED vars BY <1>2, <1>10 DEF vars, macVars, ipVars
<1>11. QED BY <1>3, <1>4, <1>5, <1>6, <1>7, <1>8, <1>9, <1>10 DEF Next, Isr

\* Reception ends only when the handler found the pool at its threshold.
THEOREM Stalls_only_when_starved == Spec => StallsOnlyWhenStarved
PROOF
<1>1. IInv /\ [Next]_vars => [(Stalled' /\ ~Stalled) => Cardinality(free) <= Threshold]_vars
  BY StallStep
<1>2. QED BY <1>1, Invariant, PTL DEF Spec, StallsOnlyWhenStarved

\* The network path implements the custody of buffers: they move one at a time and only
\* along the edges of BufferCustody's graph, the one to nobody included.
THEOREM Path_implements_custody == Spec => ImplementsCustody
PROOF
<1>1. Init => Custody!Init BY CustodyInit
<1>2. IInv /\ [Next]_vars => [Custody!Next]_([b \in Buffer |-> PlaceOf(b)])
  BY CustodyStep DEF Follows, Place
<1>3. QED BY <1>1, <1>2, Invariant, PTL DEF Spec, Custody!Spec, ImplementsCustody

-----------------------------------------------------------------------------
(* The firewall. Numbers and sequences.                                      *)

\* A set of numbers has a least one.
LEMMA LeastNumber ==
  ASSUME NEW T \in SUBSET Nat, T # {}
  PROVE  \E n \in T : \A k \in T : n <= k
<1>1. IsWellFoundedOn(OpToRel(<, Nat), Nat)
  BY NatLessThanWellFounded
<1>2. PICK n \in T : \A k \in T : ~(<< k, n >> \in OpToRel(<, Nat))
  BY <1>1, WFMin
<1>3. \A k \in T : << k, n >> \in OpToRel(<, Nat) <=> k < n
  BY DEF OpToRel
<1>4. \A k \in T : ~(k < n) /\ k \in Nat /\ n \in Nat
  BY <1>2, <1>3
<1>. QED BY <1>4, SMT

\* The elements of a sequence.
LEMMA Elements ==
  ASSUME NEW S, NEW s \in Seq(S)
  PROVE  /\ Len(s) \in Nat /\ DOMAIN s = 1..Len(s)
         /\ \A i \in 1..Len(s) : s[i] \in S /\ s[i] \in Range(s)
         /\ \A x \in Range(s) : x \in S /\ \E i \in 1..Len(s) : s[i] = x
         /\ s = << >> <=> Len(s) = 0
         /\ s = << >> => Range(s) = {}
         /\ s # << >> => Last(s) = s[Len(s)]
<1>1. Len(s) \in Nat /\ DOMAIN s = 1..Len(s)
  BY LenProperties
<1>2. \A i \in 1..Len(s) : s[i] \in S
  BY ElementOfSeq
<1>3. s = << >> <=> Len(s) = 0
  BY EmptySeq
<1>. QED BY <1>1, <1>2, <1>3 DEF Range, Last

\* A list without repetition is no longer than the set it comes from.
LEMMA LenFits ==
  ASSUME NEW S, IsFiniteSet(S), NEW s \in Seq(S), IsInjective(s)
  PROVE  Len(s) <= Cardinality(S) /\ Cardinality(S) \in Nat
<1>1. DOMAIN s = 1..Len(s) /\ Len(s) \in Nat
  BY LenProperties
<1>2. IsFiniteSet(1..Len(s)) /\ Cardinality(1..Len(s)) = Len(s)
  BY <1>1, FS_Interval
<1>3. s \in [1..Len(s) -> S]
  BY <1>1, LenProperties
<1>4. s \in Injection(1..Len(s), S)
  BY <1>1, <1>3 DEF Injection, IsInjective
<1>. QED BY <1>2, <1>4, FS_Injection, FS_CardinalityType

\* RemoveAt closes the gap.
LEMMA RemoveAtFacts ==
  ASSUME NEW S, NEW s \in Seq(S), NEW i \in 1..Len(s)
  PROVE  /\ RemoveAt(s, i) \in Seq(S)
         /\ Len(RemoveAt(s, i)) = Len(s) - 1
         /\ \A j \in 1..Len(s) - 1 : RemoveAt(s, i)[j] = IF j < i THEN s[j] ELSE s[j + 1]
<1>1. Len(s) \in Nat /\ \A j \in 1..Len(s) : s[j] \in S
  BY LenProperties, ElementOfSeq
<1> DEFINE a == SubSeq(s, 1, i - 1)
           b == SubSeq(s, i + 1, Len(s))
<1>2. /\ a \in Seq(S) /\ Len(a) = i - 1
      /\ \A j \in 1..i - 1 : a[j] = s[j]
  BY <1>1, SubSeqProperties
<1>3. /\ b \in Seq(S) /\ Len(b) = Len(s) - i
      /\ \A j \in 1..Len(s) - i : b[j] = s[i + j]
  <2>1. /\ i + 1 \in Int /\ Len(s) \in Int
        /\ \A j \in i + 1..Len(s) : s[j] \in S
    BY <1>1
  <2>2. /\ b \in Seq(S)
        /\ Len(b) = IF i + 1 <= Len(s) THEN Len(s) - (i + 1) + 1 ELSE 0
        /\ \A j \in 1..Len(s) - (i + 1) + 1 : b[j] = s[(i + 1) + j - 1]
    BY <2>1, SubSeqProperties
  <2> HIDE DEF b
  <2>3. ASSUME NEW j \in 1..Len(s) - i
        PROVE  b[j] = s[i + j]
    <3>1. j \in 1..Len(s) - (i + 1) + 1 /\ (i + 1) + j - 1 = i + j
      BY <1>1
    <3>2. b[j] = s[(i + 1) + j - 1]
      BY <2>2, <3>1
    <3>. QED BY <3>1, <3>2
  <2>4. Len(b) = Len(s) - i
    <3>1. CASE i + 1 <= Len(s)
      BY <1>1, <2>2, <3>1
    <3>2. CASE ~(i + 1 <= Len(s))
      <4>1. i = Len(s) /\ Len(s) - i = 0
        BY <1>1, <3>2
      <4>. QED BY <2>2, <3>2, <4>1
    <3>. QED BY <3>1, <3>2
  <2>. QED BY <2>2, <2>3, <2>4
<1>4. RemoveAt(s, i) = a \o b
  BY DEF RemoveAt
<1> HIDE DEF a, b
<1> DEFINE r == a \o b
<1>5. /\ r \in Seq(S) /\ Len(r) = Len(a) + Len(b)
      /\ \A j \in 1..Len(a) + Len(b) : r[j] = IF j <= Len(a) THEN a[j] ELSE b[j - Len(a)]
  BY <1>2, <1>3, ConcatProperties
<1> HIDE DEF r
<1>6. Len(r) = Len(s) - 1
  BY <1>1, <1>2, <1>3, <1>5
<1>7. ASSUME NEW j \in 1..Len(s) - 1
      PROVE  r[j] = IF j < i THEN s[j] ELSE s[j + 1]
  <2>1. j \in 1..Len(a) + Len(b)
    BY <1>1, <1>2, <1>3
  <2>2. CASE j < i
    <3>1. j <= Len(a) /\ j \in 1..i - 1
      BY <1>1, <1>2, <2>2
    <3>. QED BY <1>2, <1>5, <2>1, <2>2, <3>1
  <2>3. CASE ~(j < i)
    <3>1. /\ ~(j <= Len(a)) /\ j - Len(a) \in 1..Len(s) - i
          /\ i + (j - Len(a)) = j + 1
      BY <1>1, <1>2, <2>3
    <3>2. r[j] = b[j - Len(a)] /\ b[j - Len(a)] = s[i + (j - Len(a))]
      BY <1>3, <1>5, <2>1, <3>1
    <3>. QED BY <2>3, <3>1, <3>2
  <2>. QED BY <2>2, <2>3
<1>. QED BY <1>4, <1>5, <1>6, <1>7 DEF r

\* ... and takes out one element of a list without repetition.
LEMMA RemoveAtElements ==
  ASSUME NEW S, NEW s \in Seq(S), NEW i \in 1..Len(s), IsInjective(s)
  PROVE  IsInjective(RemoveAt(s, i)) /\ Range(RemoveAt(s, i)) = Range(s) \ {s[i]}
<1> DEFINE r == RemoveAt(s, i)
<1>1. /\ r \in Seq(S) /\ Len(r) = Len(s) - 1
      /\ \A j \in 1..Len(s) - 1 : r[j] = IF j < i THEN s[j] ELSE s[j + 1]
  BY RemoveAtFacts
<1> HIDE DEF r
<1>2. Len(s) \in Nat /\ DOMAIN s = 1..Len(s) /\ DOMAIN r = 1..Len(s) - 1
  BY <1>1, Elements
<1> DEFINE from(j) == IF j < i THEN j ELSE j + 1
<1>3. /\ \A j \in 1..Len(s) - 1 : from(j) \in 1..Len(s) /\ from(j) # i /\ r[j] = s[from(j)]
      /\ \A j, k \in 1..Len(s) - 1 : from(j) = from(k) => j = k
  BY <1>1, <1>2
<1> HIDE DEF from
<1>6. IsInjective(r)
  BY <1>2, <1>3 DEF IsInjective
<1>4. ASSUME NEW x \in Range(r)
      PROVE  x \in Range(s) \ {s[i]}
  BY <1>2, <1>3 DEF Range, IsInjective
<1>5. ASSUME NEW x \in Range(s) \ {s[i]}
      PROVE  x \in Range(r)
  <2>1. PICK j \in 1..Len(s) : s[j] = x
    BY <1>2 DEF Range
  <2>2. CASE j < i
    BY <1>1, <1>2, <2>1, <2>2 DEF Range
  <2>3. CASE j > i
    <3>1. j - 1 \in 1..Len(s) - 1 /\ r[j - 1] = x
      BY <1>1, <1>2, <2>1, <2>3
    <3>. QED BY <1>2, <3>1 DEF Range
  <2>. QED BY <1>2, <2>1, <2>2, <2>3
<1>. QED BY <1>4, <1>5, <1>6 DEF r

\* Append to a list without repetition.
LEMMA AppendElements ==
  ASSUME NEW S, NEW s \in Seq(S), NEW x \in S, x \notin Range(s), IsInjective(s)
  PROVE  /\ Append(s, x) \in Seq(S) /\ Len(Append(s, x)) = Len(s) + 1
         /\ Append(s, x)[Len(s) + 1] = x
         /\ \A i \in 1..Len(s) : Append(s, x)[i] = s[i]
         /\ IsInjective(Append(s, x))
         /\ Range(Append(s, x)) = Range(s) \cup {x}
<1> DEFINE a == Append(s, x)
<1>1. /\ a \in Seq(S) /\ Len(a) = Len(s) + 1
      /\ a[Len(s) + 1] = x /\ \A i \in 1..Len(s) : a[i] = s[i]
  BY AppendProperties
<1> HIDE DEF a
<1>2. Len(s) \in Nat /\ DOMAIN s = 1..Len(s) /\ DOMAIN a = 1..Len(s) + 1
  BY <1>1, Elements
<1>3. \A i \in 1..Len(s) + 1 : i \in 1..Len(s) \/ i = Len(s) + 1
  BY <1>2
<1>4. IsInjective(a)
  BY <1>1, <1>2, <1>3 DEF IsInjective, Range
<1>5. Range(a) = Range(s) \cup {x}
  <2>1. ASSUME NEW y \in Range(a)
        PROVE  y \in Range(s) \cup {x}
    BY <1>1, <1>2, <1>3 DEF Range
  <2>2. ASSUME NEW y \in Range(s) \cup {x}
        PROVE  y \in Range(a)
    <3>1. Len(s) + 1 \in 1..Len(s) + 1 /\ \A i \in 1..Len(s) : i \in 1..Len(s) + 1
      BY <1>2
    <3>. QED BY <1>1, <1>2, <3>1 DEF Range
  <2>. QED BY <2>1, <2>2
<1>. QED BY <1>1, <1>4, <1>5 DEF a

-----------------------------------------------------------------------------
(* Walks.                                                                    *)

\* What follows a structure is in the list or the end of it.
LEMMA FollowingFacts ==
  ASSUME NEW S, NEW s \in Seq(S), NEW end, end \notin S, NEW i \in Nat
  PROVE  /\ i < Len(s) => Following(s, end, i) = s[i + 1] /\ Following(s, end, i) \in S
         /\ ~(i < Len(s)) => Following(s, end, i) = end
         /\ Following(s, end, i) \in S <=> i < Len(s)
<1>1. Len(s) \in Nat /\ \A j \in 1..Len(s) : s[j] \in S
  BY Elements
<1>2. i < Len(s) => i + 1 \in 1..Len(s)
  BY <1>1
<1>. QED BY <1>1, <1>2 DEF Following

\* One turn of the recursion of Walk.
Visits(first, next, all, at) ==
  [k \in 0..Cardinality(all) |->
     IF k = 0 THEN first
     ELSE IF at[k - 1] \in all THEN next[at[k - 1]] ELSE at[k - 1]]

\* The recursion has one solution: two walks cannot differ at a first place.
LEMMA OneWalk ==
  ASSUME NEW first, NEW next, NEW all, Cardinality(all) \in Nat,
         NEW f, f = Visits(first, next, all, f), NEW g, g = Visits(first, next, all, g)
  PROVE  f = g
<1> DEFINE N == Cardinality(all)
           T == { k \in 0..N : f[k] # g[k] }
<1>1. /\ \A k \in 0..N : f[k] = IF k = 0 THEN first
                                ELSE IF f[k - 1] \in all THEN next[f[k - 1]] ELSE f[k - 1]
      /\ \A k \in 0..N : g[k] = IF k = 0 THEN first
                                ELSE IF g[k - 1] \in all THEN next[g[k - 1]] ELSE g[k - 1]
      /\ f = [k \in 0..N |-> f[k]] /\ g = [k \in 0..N |-> g[k]]
  BY DEF Visits
<1>2. N \in Nat
  OBVIOUS
<1> HIDE DEF N
<1>3. T = {}
  <2> SUFFICES ASSUME T # {} PROVE FALSE
    OBVIOUS
  <2>1. T \in SUBSET Nat
    BY <1>2
  <2>2. PICK n \in T : \A k \in T : n <= k
    BY <2>1, LeastNumber
  <2>3. n \in 0..N /\ f[n] # g[n] /\ n \in Nat
    BY <2>2, <1>2
  <2>4. n # 0
    BY <1>1, <2>3
  <2>5. n - 1 \in 0..N /\ ~(n <= n - 1)
    BY <1>2, <2>3, <2>4
  <2>6. f[n - 1] = g[n - 1]
    BY <2>2, <2>5
  <2>. QED BY <1>1, <2>3, <2>4, <2>6
<1>4. \A k \in 0..N : f[k] = g[k]
  BY <1>3
<1>. QED BY <1>1, <1>4

\* A walk along a list visits the list, and then stays at its end.
LEMMA WalkIs ==
  ASSUME NEW all, IsFiniteSet(all), NEW first, NEW next, NEW end, end \notin all,
         NEW s \in Seq(all), IsList(first, next, end, s)
  PROVE  Walk(first, next, all) = [k \in 0..Cardinality(all) |-> Following(s, end, k)]
<1> DEFINE N == Cardinality(all)
           f == [k \in 0..N |-> Following(s, end, k)]
<1>1. N \in Nat
  BY FS_CardinalityType
<1>2. Len(s) \in Nat
  BY Elements
<1>3. ASSUME NEW k \in 0..N
      PROVE  Following(s, end, k) = IF k = 0 THEN first
                                    ELSE IF f[k - 1] \in all THEN next[f[k - 1]] ELSE f[k - 1]
  <2>1. CASE k = 0
    BY <2>1 DEF IsList
  <2>2. CASE k # 0 /\ k - 1 < Len(s)
    <3>1. k - 1 \in 0..N /\ k - 1 \in Nat /\ k \in 1..Len(s) /\ (k - 1) + 1 = k
      BY <1>1, <1>2, <2>2
    <3>2. f[k - 1] = s[k] /\ f[k - 1] \in all
      BY <2>2, <3>1, FollowingFacts
    <3>3. next[s[k]] = Following(s, end, k)
      BY <3>1 DEF IsList
    <3>. QED BY <2>2, <3>2, <3>3
  <2>3. CASE k # 0 /\ ~(k - 1 < Len(s))
    <3>1. k - 1 \in 0..N /\ k - 1 \in Nat /\ k \in Nat /\ ~(k < Len(s))
      BY <1>1, <1>2, <2>3
    <3>2. f[k - 1] = end
      BY <2>3, <3>1, FollowingFacts
    <3>3. Following(s, end, k) = end
      BY <3>1, FollowingFacts
    <3>. QED BY <2>3, <3>2, <3>3
  <2>. QED BY <2>1, <2>2, <2>3
<1>4. f = Visits(first, next, all, f)
  BY <1>3 DEF Visits
<1> HIDE DEF f
<1>5. \A g : g = Visits(first, next, all, g) => g = f
  BY <1>1, <1>4, OneWalk
<1>6. Walk(first, next, all) = CHOOSE g : g = Visits(first, next, all, g)
  BY DEF Walk, Visits
<1>7. Walk(first, next, all) = f
  BY <1>4, <1>5, <1>6
<1>. QED BY <1>7 DEF f

\* So the structures it finds are the list, and it comes to the end.
LEMMA ChainIs ==
  ASSUME NEW all, IsFiniteSet(all), NEW first, NEW next, NEW end, end \notin all,
         NEW s \in Seq(all), IsList(first, next, end, s)
  PROVE  /\ Chain(first, next, all) = s
         /\ Terminates(first, next, all) <=> end = Null
<1> DEFINE N == Cardinality(all)
           at == Walk(first, next, all)
<1>1. at = [k \in 0..N |-> Following(s, end, k)]
  BY WalkIs
<1>2. Len(s) <= N /\ N \in Nat /\ Len(s) \in Nat
  BY LenFits, Elements DEF IsList
<1>3. Chain(first, next, all) = [k \in { i \in 1..N : at[i - 1] \in all } |-> at[k - 1]]
  BY DEF Chain
<1>4. Terminates(first, next, all) <=> at[N] = Null
  BY DEF Terminates
<1> HIDE DEF N, at
<1>5. ASSUME NEW i \in 1..N
      PROVE  /\ at[i - 1] = Following(s, end, i - 1)
             /\ at[i - 1] \in all <=> i \in 1..Len(s)
             /\ i \in 1..Len(s) => at[i - 1] = s[i]
  <2>1. i - 1 \in 0..N /\ i - 1 \in Nat /\ (i - 1) + 1 = i /\ (i - 1 < Len(s) <=> i \in 1..Len(s))
    BY <1>2
  <2>. QED BY <1>1, <2>1, FollowingFacts
<1>6. { i \in 1..N : at[i - 1] \in all } = 1..Len(s)
  BY <1>2, <1>5
<1>7. \A k \in 1..Len(s) : k \in 1..N
  BY <1>2
<1>8. Chain(first, next, all) = [k \in 1..Len(s) |-> s[k]]
  BY <1>3, <1>5, <1>6, <1>7
<1>9. s = [k \in 1..Len(s) |-> s[k]]
  BY LenProperties
<1>10. at[N] = end
  <2>1. N \in 0..N /\ ~(N < Len(s))
    BY <1>2
  <2>. QED BY <1>1, <1>2, <2>1, FollowingFacts
<1>. QED BY <1>4, <1>8, <1>9, <1>10

-----------------------------------------------------------------------------
(* What writing a link does to a list.                                       *)

\* A list none of whose links is written.
LEMMA ListSame ==
  ASSUME NEW S, NEW s \in Seq(S), NEW first, NEW next, NEW next2, NEW end,
         IsList(first, next, end, s),
         \A x \in Range(s) : next2[x] = next[x]
  PROVE  IsList(first, next2, end, s)
<1>1. \A i \in 1..Len(s) : next2[s[i]] = next[s[i]]
  BY Elements
<1>. QED BY <1>1 DEF IsList

\* A structure is linked behind the last one, or as the first one.
LEMMA ListAppend ==
  ASSUME NEW S, NEW s \in Seq(S), NEW x \in S, x \notin Range(s),
         NEW first, NEW next, NEW end, IsList(first, next, end, s),
         NEW first2, NEW next2, NEW end2,
         s = << >> => first2 = x,
         s # << >> => first2 = first /\ next2[Last(s)] = x,
         \A y \in Range(s) : s # << >> /\ y # Last(s) => next2[y] = next[y],
         next2[x] = end2
  PROVE  IsList(first2, next2, end2, Append(s, x))
<1> DEFINE a == Append(s, x)
<1>1. /\ Len(a) = Len(s) + 1 /\ a[Len(s) + 1] = x
      /\ \A i \in 1..Len(s) : a[i] = s[i]
      /\ IsInjective(a)
  BY AppendElements DEF IsList
<1> HIDE DEF a
<1>2. Len(s) \in Nat /\ DOMAIN s = 1..Len(s) /\ (s = << >> <=> Len(s) = 0)
  BY Elements
<1>3. first2 = Following(a, end2, 0)
  <2>1. CASE s = << >>
    BY <1>1, <1>2, <2>1 DEF Following
  <2>2. CASE s # << >>
    <3>1. 0 < Len(s) /\ 0 < Len(a) /\ 0 + 1 \in 1..Len(s)
      BY <1>1, <1>2, <2>2
    <3>2. first2 = s[0 + 1]
      BY <2>2, <3>1 DEF IsList, Following
    <3>. QED BY <1>1, <3>1, <3>2 DEF Following
  <2>. QED BY <2>1, <2>2
<1>4. ASSUME NEW i \in 1..Len(a)
      PROVE  next2[a[i]] = Following(a, end2, i)
  <2>1. CASE i = Len(s) + 1
    BY <1>1, <1>2, <2>1 DEF Following
  <2>2. CASE i = Len(s)
    <3>1. s # << >> /\ i \in 1..Len(s) /\ i < Len(a) /\ i + 1 = Len(s) + 1
      BY <1>1, <1>2, <2>2
    <3>2. a[i] = Last(s)
      BY <1>1, <2>2, <3>1, Elements
    <3>. QED BY <1>1, <3>1, <3>2 DEF Following
  <2>3. CASE i < Len(s)
    <3>1. s # << >> /\ i \in 1..Len(s) /\ i + 1 \in 1..Len(s) /\ i < Len(a) /\ Len(s) \in 1..Len(s)
      BY <1>1, <1>2, <2>3
    <3>2. s[i] # Last(s) /\ s[i] \in Range(s)
      <4>1. i # Len(s) /\ Last(s) = s[Len(s)]
        BY <1>2, <2>3, <3>1, Elements
      <4>2. s[i] = s[Len(s)] => i = Len(s)
        BY <1>2, <3>1 DEF IsList, IsInjective
      <4>. QED BY <3>1, <4>1, <4>2, Elements
    <3>3. next2[s[i]] = s[i + 1]
      BY <2>3, <3>1, <3>2 DEF IsList, Following
    <3>. QED BY <1>1, <3>1, <3>3 DEF Following
  <2>4. i = Len(s) + 1 \/ i = Len(s) \/ i < Len(s)
    <3>1. Len(a) = Len(s) + 1 /\ Len(s) \in Nat
      BY <1>1, <1>2
    <3>. QED BY <3>1
  <2>. QED BY <2>1, <2>2, <2>3, <2>4
<1>. QED BY <1>1, <1>3, <1>4 DEF IsList, a

\* The link before the i-th structure is given the value of its own link.
LEMMA ListRemove ==
  ASSUME NEW S, NEW s \in Seq(S), NEW i \in 1..Len(s),
         NEW first, NEW next, NEW end, IsList(first, next, end, s),
         NEW first2, NEW next2,
         i = 1 => first2 = next[s[i]],
         i # 1 => first2 = first /\ next2[s[i - 1]] = next[s[i]],
         \A j \in 1..Len(s) : j # i - 1 => next2[s[j]] = next[s[j]]
  PROVE  IsList(first2, next2, end, RemoveAt(s, i))
<1> DEFINE r == RemoveAt(s, i)
<1>1. /\ Len(r) = Len(s) - 1
      /\ \A j \in 1..Len(s) - 1 : r[j] = IF j < i THEN s[j] ELSE s[j + 1]
      /\ IsInjective(r)
  BY RemoveAtFacts, RemoveAtElements DEF IsList
<1> HIDE DEF r
<1>2. Len(s) \in Nat
  BY Elements
<1>3. next[s[i]] = Following(r, end, i - 1)
  <2>1. next[s[i]] = Following(s, end, i)
    BY DEF IsList
  <2>2. CASE i < Len(s)
    <3>1. (i - 1) + 1 = i /\ i \in 1..Len(s) - 1 /\ i - 1 < Len(r) /\ ~(i < i)
      BY <1>1, <1>2, <2>2
    <3>. QED BY <1>1, <2>1, <2>2, <3>1 DEF Following
  <2>3. CASE ~(i < Len(s))
    <3>1. ~(i - 1 < Len(r))
      BY <1>1, <1>2, <2>3
    <3>. QED BY <2>1, <2>3, <3>1 DEF Following
  <2>. QED BY <2>2, <2>3
<1>4. first2 = Following(r, end, 0)
  <2>1. CASE i = 1
    BY <1>3, <2>1
  <2>2. CASE i # 1
    <3>1. 0 < Len(s) /\ 0 < Len(r) /\ 0 + 1 \in 1..Len(s) - 1 /\ 0 + 1 < i
      BY <1>1, <1>2, <2>2
    <3>2. first2 = s[0 + 1]
      BY <2>2, <3>1 DEF IsList, Following
    <3>. QED BY <1>1, <3>1, <3>2 DEF Following
  <2>. QED BY <2>1, <2>2
<1>5. ASSUME NEW j \in 1..Len(r)
      PROVE  next2[r[j]] = Following(r, end, j)
  <2>1. CASE j = i - 1
    <3>1. i # 1 /\ j \in 1..Len(s) - 1 /\ j < i
      BY <1>1, <1>2, <2>1
    <3>. QED BY <1>1, <1>3, <2>1, <3>1
  <2>2. CASE j < i - 1
    <3>1. j \in 1..Len(s) - 1 /\ j < i /\ j + 1 \in 1..Len(s) - 1 /\ j + 1 < i
          /\ j \in 1..Len(s) /\ j < Len(s) /\ j < Len(r) /\ j # i - 1
      BY <1>1, <1>2, <2>2
    <3>2. next2[s[j]] = s[j + 1]
      BY <3>1 DEF IsList, Following
    <3>. QED BY <1>1, <3>1, <3>2 DEF Following
  <2>3. CASE ~(j < i) /\ j < Len(r)
    <3>1. j \in 1..Len(s) - 1 /\ j + 1 \in 1..Len(s) - 1 /\ ~(j + 1 < i) /\ j + 1 \in 1..Len(s)
          /\ j + 1 < Len(s) /\ j + 1 # i - 1
      BY <1>1, <1>2, <2>3
    <3>2. next2[s[j + 1]] = s[(j + 1) + 1]
      BY <3>1 DEF IsList, Following
    <3>. QED BY <1>1, <2>3, <3>1, <3>2 DEF Following
  <2>4. CASE ~(j < i) /\ ~(j < Len(r))
    <3>1. j \in 1..Len(s) - 1 /\ j + 1 \in 1..Len(s) /\ ~(j + 1 < Len(s)) /\ j + 1 # i - 1
      BY <1>1, <1>2, <2>4
    <3>2. next2[s[j + 1]] = end
      BY <3>1 DEF IsList, Following
    <3>. QED BY <1>1, <2>4, <3>1, <3>2 DEF Following
  <2>. QED BY <1>1, <1>2, <2>1, <2>2, <2>3, <2>4
<1>. QED BY <1>1, <1>4, <1>5 DEF IsList, r

-----------------------------------------------------------------------------
(* The shape of the lists, and what the walks of the model find in it.       *)

LEMMA EmptyList ==
  ASSUME NEW next, NEW end
  PROVE  IsList(end, next, end, << >>) /\ Range(<< >>) = {}
BY EmptySeq DEF IsList, Following, IsInjective, Range

\* Where there are lists, the walks find them.
LEMMA ShapeGives ==
  ASSUME NEW ng, NEW fr, NEW nr, NEW gs, NEW rs, Shape(ng, fr, nr, gs, rs)
  PROVE  /\ Chain(ng[firewallGroupHead], ng, Group) = gs
         /\ Terminates(ng[firewallGroupHead], ng, Group)
         /\ Range(gs) \subseteq Group
         /\ \A g \in Range(gs) : Chain(fr[g], nr, Rule) = rs[g] /\ Terminates(fr[g], nr, Rule)
<1>1. Null \notin Group /\ Null \notin Rule /\ IsFiniteSet(Group) /\ IsFiniteSet(Rule)
  BY StructureAssumption
<1>2. gs \in Seq(Group) /\ IsList(ng[firewallGroupHead], ng, Null, gs)
  BY DEF Shape
<1>3. /\ Chain(ng[firewallGroupHead], ng, Group) = gs
      /\ Terminates(ng[firewallGroupHead], ng, Group)
  BY <1>1, <1>2, ChainIs
<1>4. Range(gs) \subseteq Group
  BY <1>2, Elements
<1>5. ASSUME NEW g \in Range(gs)
      PROVE  Chain(fr[g], nr, Rule) = rs[g] /\ Terminates(fr[g], nr, Rule)
  <2>1. rs[g] \in Seq(Rule) /\ IsList(fr[g], nr, Null, rs[g])
    BY DEF Shape
  <2>. QED BY <1>1, <2>1, ChainIs
<1>. QED BY <1>3, <1>4, <1>5

\* The lists a step leaves: gs of the groups, rs[g] of the rules of g.
Leaves(gs, rs) ==
  /\ FirewallIInv' /\ Groups' = gs
  /\ \A g \in Range(gs) : CompletedRules(g)' = rs[g]

\* A step that leaves lists keeps the invariant.
LEMMA Reached ==
  ASSUME FirewallTypeOK', NEW gs, NEW rs,
         Shape(next_group_struct', first_rule', Completed', gs, rs),
         PendingIsLast(pending', gs, rs)
  PROVE  Leaves(gs, rs)
<1>1. Groups' = gs
  <2>1. Groups' = Chain(next_group_struct'[firewallGroupHead], next_group_struct', Group)
    BY DEF Groups
  <2>. QED BY <2>1, ShapeGives
<1>2. \A g : CompletedRules(g)' = Chain(first_rule'[g], Completed', Rule)
  BY DEF CompletedRules
<1>3. \A g \in Range(gs) : g \in Group /\ CompletedRules(g)' = rs[g]
  BY <1>2, ShapeGives
<1>4. RulesOf' = [g \in Group |-> CompletedRules(g)']
  BY DEF RulesOf
<1>5. \A g \in Range(gs) : RulesOf'[g] = rs[g]
  BY <1>3, <1>4
<1>6. Shape(next_group_struct', first_rule', Completed', gs, RulesOf')
  BY <1>5 DEF Shape
<1>7. PendingIsLast(pending', gs, RulesOf')
  BY <1>5 DEF PendingIsLast
<1>8. FirewallIInv'
  BY <1>1, <1>6, <1>7 DEF FirewallIInv
<1>. QED BY <1>1, <1>3, <1>8 DEF Leaves

\* What the invariant says of the groups that are linked.
LEMMA Linked ==
  ASSUME FirewallIInv
  PROVE  /\ Groups \in Seq(Group) /\ Range(Groups) \subseteq Group
         /\ IsList(next_group_struct[firewallGroupHead], next_group_struct, Null, Groups)
         /\ LinkedGroups = Range(Groups)
         /\ \A g, h \in Range(Groups) : NameOf[g] = NameOf[h] => g = h
         /\ \A g \in Range(Groups) :
              /\ RulesOf[g] = CompletedRules(g) /\ CompletedRules(g) \in Seq(Rule)
              /\ IsList(first_rule[g], Completed, Null, CompletedRules(g))
         /\ \A g, h \in Range(Groups) :
              g # h => Range(CompletedRules(g)) \cap Range(CompletedRules(h)) = {}
<1>1. Groups \in Seq(Group) /\ Range(Groups) \subseteq Group
  BY Elements DEF FirewallIInv, Shape
<1>2. \A g \in Range(Groups) : RulesOf[g] = CompletedRules(g)
  BY <1>1 DEF RulesOf
<1>3. \A g, h \in Range(Groups) : NameOf[g] = NameOf[h] => g = h
  <2> SUFFICES ASSUME NEW g \in Range(Groups), NEW h \in Range(Groups), NameOf[g] = NameOf[h]
               PROVE  g = h
    OBVIOUS
  <2>1. PICK i \in 1..Len(Groups) : Groups[i] = g
    BY <1>1, Elements
  <2>2. PICK j \in 1..Len(Groups) : Groups[j] = h
    BY <1>1, Elements
  <2>3. i = j
    BY <2>1, <2>2 DEF FirewallIInv, Shape
  <2>. QED BY <2>1, <2>2, <2>3
<1>. QED BY <1>1, <1>2, <1>3 DEF FirewallIInv, Shape, LinkedGroups

\* While no addition is in progress, the handler's lists are the complete ones.
LEMMA NothingPending ==
  ASSUME pending = Null
  PROVE  Completed = next_rule_struct /\ \A g : Rules(g) = CompletedRules(g)
<1>1. Completed = next_rule_struct
  BY DEF Completed
<1>. QED BY <1>1 DEF Rules, CompletedRules

LEMMA InitInvariant == FirewallInit => FirewallIInv
<1> SUFFICES ASSUME FirewallInit PROVE FirewallIInv
  OBVIOUS
<1>1. FirewallTypeOK /\ Completed = next_rule_struct /\ pending = Null
  BY DEF FirewallInit, FirewallTypeOK, Completed
<1>2. next_group_struct[firewallGroupHead] = Null
  BY DEF FirewallInit
<1>3. Shape(next_group_struct, first_rule, Completed, << >>, RulesOf)
  BY <1>2, EmptyList, EmptySeq DEF Shape
<1>4. Groups = << >>
  BY <1>3, ShapeGives DEF Groups
<1>. QED BY <1>1, <1>3, <1>4 DEF FirewallIInv, PendingIsLast

-----------------------------------------------------------------------------
(* The steps.                                                                *)

\* u32FirewallAddGroup links a group without rules behind the last one.
LEMMA AddGroupStep ==
  ASSUME FirewallIInv, NEW g \in Group, AddGroup(g)
  PROVE  /\ Leaves(Append(Groups, g), [RulesOf EXCEPT ![g] = << >>])
         /\ \A h \in Range(Groups) : NameOf[h] # NameOf[g]
         /\ Range(Append(Groups, g)) = Range(Groups) \cup {g}
<1> DEFINE gs == Append(Groups, g)
           rs == [RulesOf EXCEPT ![g] = << >>]
<1>0. FirewallTypeOK
  BY DEF FirewallIInv
<1>1. \A h \in Range(Groups) : NameOf[h] # NameOf[g]
  BY DEF AddGroup, Named, LinkedGroups
<1>2. g \notin Range(Groups) /\ Groups \in Seq(Group) /\ IsInjective(Groups)
  BY <1>1, Linked DEF IsList
<1>3. /\ gs \in Seq(Group) /\ Range(gs) = Range(Groups) \cup {g} /\ Len(gs) = Len(Groups) + 1
      /\ gs[Len(Groups) + 1] = g /\ \A i \in 1..Len(Groups) : gs[i] = Groups[i]
  BY <1>2, AppendElements
<1> HIDE DEF gs
<1>4. /\ LastGroup \in Group \cup {firewallGroupHead} /\ LastGroup # g
      /\ Groups = << >> => LastGroup = firewallGroupHead
      /\ Groups # << >> => LastGroup = Last(Groups) /\ LastGroup # firewallGroupHead
  <2>1. CASE Groups = << >>
    BY <2>1, StructureAssumption DEF LastGroup
  <2>2. CASE Groups # << >>
    <3>1. Len(Groups) \in 1..Len(Groups)
      BY <1>2, <2>2, Elements
    <3>2. Last(Groups) \in Range(Groups) /\ Last(Groups) \in Group
      BY <1>2, <2>2, <3>1, Elements
    <3>. QED BY <1>2, <2>2, <3>2, StructureAssumption DEF LastGroup
  <2>. QED BY <2>1, <2>2
<1>5. /\ next_group_struct' = [next_group_struct EXCEPT ![g] = Null, ![LastGroup] = g]
      /\ first_rule' = [first_rule EXCEPT ![g] = Null]
      /\ next_rule_struct' = next_rule_struct /\ pending = Null /\ pending' = Null
  BY DEF AddGroup
<1>6. FirewallTypeOK'
  BY <1>0, <1>4, <1>5, StructureAssumption DEF FirewallTypeOK
<1>7. /\ next_group_struct'[LastGroup] = g /\ next_group_struct'[g] = Null
      /\ \A h \in Group \cup {firewallGroupHead} : h # g /\ h # LastGroup =>
            next_group_struct'[h] = next_group_struct[h]
      /\ first_rule'[g] = Null /\ \A h \in Group : h # g => first_rule'[h] = first_rule[h]
  BY <1>0, <1>4, <1>5, StructureAssumption DEF FirewallTypeOK
<1>8. Completed' = Completed
  BY <1>5 DEF Completed
<1>9. IsList(next_group_struct'[firewallGroupHead], next_group_struct', Null, gs)
  <2>1. IsList(next_group_struct[firewallGroupHead], next_group_struct, Null, Groups)
    BY Linked
  <2>2. Groups = << >> => next_group_struct'[firewallGroupHead] = g
    BY <1>4, <1>7
  <2>3. Groups # << >> => /\ next_group_struct'[firewallGroupHead] = next_group_struct[firewallGroupHead]
                          /\ next_group_struct'[Last(Groups)] = g
    BY <1>4, <1>7, StructureAssumption
  <2>4. \A y \in Range(Groups) : Groups # << >> /\ y # Last(Groups) =>
          next_group_struct'[y] = next_group_struct[y]
    BY <1>2, <1>4, <1>7, Linked
  <2> DEFINE first == next_group_struct[firewallGroupHead]
             first2 == next_group_struct'[firewallGroupHead]
             next2 == next_group_struct'
  <2>5. next2[g] = Null
    BY <1>7
  <2> HIDE DEF first, first2, next2
  <2>6. IsList(first2, next2, Null, Append(Groups, g))
    BY <1>2, <2>1, <2>2, <2>3, <2>4, <2>5, ListAppend DEF first, first2, next2
  <2>. QED BY <2>6 DEF gs, first2, next2
<1>10. \A i, j \in 1..Len(gs) : NameOf[gs[i]] = NameOf[gs[j]] => i = j
  <2>1. Len(Groups) \in Nat /\ \A i \in 1..Len(Groups) : Groups[i] \in Range(Groups)
    BY <1>2, Elements
  <2>2. \A i, j \in 1..Len(Groups) : NameOf[Groups[i]] = NameOf[Groups[j]] => i = j
    BY DEF FirewallIInv, Shape
  <2>3. \A i \in 1..Len(gs) : i \in 1..Len(Groups) \/ i = Len(Groups) + 1
    BY <1>3, <2>1
  <2>. QED BY <1>1, <1>3, <2>1, <2>2, <2>3
<1>11. /\ rs[g] = << >>
       /\ \A h \in Range(Groups) : rs[h] = CompletedRules(h)
  BY <1>2, Linked DEF RulesOf
<1> HIDE DEF rs
<1>12. ASSUME NEW h \in Range(gs)
       PROVE  rs[h] \in Seq(Rule) /\ IsList(first_rule'[h], Completed', Null, rs[h])
  <2>1. CASE h = g
    BY <1>7, <1>11, <2>1, EmptyList, EmptySeq
  <2>2. CASE h # g
    BY <1>3, <1>7, <1>8, <1>11, <2>2, Linked
  <2>. QED BY <2>1, <2>2
<1>13. \A h, k \in Range(gs) : h # k => Range(rs[h]) \cap Range(rs[k]) = {}
  BY <1>3, <1>11, Linked, EmptyList
<1>14. Shape(next_group_struct', first_rule', Completed', gs, rs)
  BY <1>3, <1>9, <1>10, <1>12, <1>13 DEF Shape
<1>15. PendingIsLast(pending', gs, rs)
  BY <1>5 DEF PendingIsLast
<1>. QED BY <1>1, <1>3, <1>6, <1>14, <1>15, Reached DEF gs, rs

\* The name the caller gives finds the group that has it.
LEMMA FindFacts ==
  ASSUME FirewallIInv, NEW n, Named(n) # {}
  PROVE  Find(n) \in Range(Groups) /\ NameOf[Find(n)] = n
<1>1. PICK g \in Range(Groups) : NameOf[g] = n
  BY DEF Named, LinkedGroups
<1>2. Groups \in Seq(Group) /\ DOMAIN Groups = 1..Len(Groups)
  BY Linked, Elements
<1>3. PICK i \in DOMAIN Groups : Groups[i] = g
  BY <1>1, <1>2, Elements
<1> DEFINE IsFirst(k) == /\ NameOf[Groups[k]] = n
                         /\ \A j \in DOMAIN Groups : NameOf[Groups[j]] = n => k <= j
           k == CHOOSE k \in DOMAIN Groups : IsFirst(k)
<1>4. IsFirst(i)
  <2>1. \A j \in DOMAIN Groups : NameOf[Groups[j]] = n => j = i
    BY <1>1, <1>2, <1>3 DEF FirewallIInv, Shape
  <2>2. i \in Int
    BY <1>2
  <2>. QED BY <1>1, <1>3, <2>1, <2>2
<1>5. k \in DOMAIN Groups /\ IsFirst(k)
  BY <1>4
<1>6. Find(n) = Groups[k]
  BY DEF Find
<1> HIDE DEF k
<1>. QED BY <1>2, <1>5, <1>6, Elements

\* u32FirewallAddRule links the rule behind the last one of the group.
LEMMA AddRuleStep ==
  ASSUME FirewallIInv, NEW n \in Name, NEW r \in Rule, AddRuleLink(n, r)
  PROVE  /\ Leaves(Groups, [RulesOf EXCEPT ![Find(n)] = Append(RulesOf[Find(n)], r)])
         /\ Find(n) \in Range(Groups) /\ NameOf[Find(n)] = n
         /\ \A h \in Range(Groups) : r \notin Range(CompletedRules(h))
<1> DEFINE g == Find(n)
           s == CompletedRules(g)
           rs == [RulesOf EXCEPT ![g] = Append(RulesOf[g], r)]
<1>0. FirewallTypeOK /\ pending = Null /\ Completed = next_rule_struct
  BY NothingPending DEF FirewallIInv, AddRuleLink
<1>1. g \in Range(Groups) /\ NameOf[g] = n /\ g \in Group
  BY FindFacts, Linked DEF AddRuleLink
<1>2. \A h \in Range(Groups) : r \notin Range(CompletedRules(h))
  BY <1>0, NothingPending, Linked DEF AddRuleLink, MayAdd, LinkedRules
<1>3. /\ s \in Seq(Rule) /\ IsInjective(s) /\ r \notin Range(s)
      /\ IsList(first_rule[g], next_rule_struct, Null, s)
  BY <1>0, <1>1, <1>2, Linked DEF IsList
<1>4. /\ UNCHANGED next_group_struct /\ pending' = r
      /\ IF first_rule[g] = Null
           THEN first_rule' = [first_rule EXCEPT ![g] = r] /\ next_rule_struct' = next_rule_struct
           ELSE /\ next_rule_struct' = [next_rule_struct EXCEPT ![Last(s)] = r]
                /\ first_rule' = first_rule
  BY <1>0, NothingPending DEF AddRuleLink
<1> DEFINE a == Append(s, r)
<1>5. a \in Seq(Rule) /\ Range(a) = Range(s) \cup {r} /\ a # << >> /\ Last(a) = r
  <2>1. a \in Seq(Rule) /\ Range(a) = Range(s) \cup {r} /\ Len(a) = Len(s) + 1 /\ a[Len(s) + 1] = r
    BY <1>3, AppendElements
  <2>2. Len(s) \in Nat
    BY <1>3, Elements
  <2> HIDE DEF a, s
  <2>. QED BY <2>1, <2>2, Elements
<1>6. rs[g] = a /\ \A h \in Range(Groups) : h # g => rs[h] = CompletedRules(h)
  BY <1>1, Linked DEF RulesOf
<1> HIDE DEF g, s, rs, a
<1>7. r \in Rule /\ r # Null
  BY StructureAssumption
<1>8. first_rule[g] = Null <=> s = << >>
  <2>1. 0 < Len(s) => 0 + 1 \in 1..Len(s) /\ s[0 + 1] \in Rule
    BY <1>3, Elements
  <2>2. first_rule[g] = IF 0 < Len(s) THEN s[0 + 1] ELSE Null
    BY <1>3 DEF IsList, Following
  <2>. QED BY <1>3, <2>1, <2>2, Elements, StructureAssumption
<1>9. s # << >> => Last(s) \in Range(s) /\ Last(s) \in Rule
  <2>1. s # << >> => Len(s) \in 1..Len(s)
    BY <1>3, Elements
  <2>. QED BY <1>3, <2>1, Elements
<1>10. FirewallTypeOK'
  BY <1>0, <1>1, <1>4, <1>8, <1>9 DEF FirewallTypeOK
<1>11. Completed' = [next_rule_struct' EXCEPT ![r] = Null]
  BY <1>4, <1>7 DEF Completed
<1>12. /\ Completed'[r] = Null
       /\ s # << >> => Completed'[Last(s)] = r
       /\ \A x \in Rule : x # r /\ (s # << >> => x # Last(s)) => Completed'[x] = next_rule_struct[x]
       /\ s = << >> => first_rule'[g] = r
       /\ s # << >> => first_rule'[g] = first_rule[g]
       /\ \A h \in Group : h # g => first_rule'[h] = first_rule[h]
  BY <1>0, <1>1, <1>3, <1>4, <1>8, <1>9, <1>10, <1>11 DEF FirewallTypeOK
<1>13. IsList(first_rule'[g], Completed', Null, a)
  <2>1. \A y \in Range(s) : s # << >> /\ y # Last(s) => Completed'[y] = next_rule_struct[y]
    BY <1>3, <1>12, Elements
  <2>. QED BY <1>3, <1>12, <2>1, ListAppend DEF a
<1>14. ASSUME NEW h \in Range(Groups)
       PROVE  rs[h] \in Seq(Rule) /\ IsList(first_rule'[h], Completed', Null, rs[h])
  <2>1. CASE h = g
    BY <1>5, <1>6, <1>13, <2>1
  <2>2. CASE h # g
    <3>1. /\ CompletedRules(h) \in Seq(Rule) /\ Range(CompletedRules(h)) \cap Range(s) = {}
          /\ IsList(first_rule[h], next_rule_struct, Null, CompletedRules(h))
          /\ h \in Group
      BY <1>0, <1>1, <2>2, Linked DEF s
    <3>2. \A x \in Range(CompletedRules(h)) : Completed'[x] = next_rule_struct[x]
      BY <1>2, <1>9, <1>12, <3>1, Elements
    <3>3. first_rule'[h] = first_rule[h]
      BY <1>12, <2>2, <3>1
    <3>. QED BY <1>6, <2>2, <3>1, <3>2, <3>3, ListSame
  <2>. QED BY <2>1, <2>2
<1>15. ASSUME NEW h \in Range(Groups), NEW k \in Range(Groups), h # k
       PROVE  Range(rs[h]) \cap Range(rs[k]) = {}
  <2>1. Range(CompletedRules(h)) \cap Range(CompletedRules(k)) = {}
    BY <1>15, Linked
  <2>. QED BY <1>2, <1>5, <1>6, <1>15, <2>1 DEF s
<1>16. Shape(next_group_struct', first_rule', Completed', Groups, rs)
  <2>1. Groups \in Seq(Group) /\ IsList(next_group_struct[firewallGroupHead], next_group_struct, Null, Groups)
    BY Linked
  <2>2. \A i, j \in 1..Len(Groups) : NameOf[Groups[i]] = NameOf[Groups[j]] => i = j
    BY DEF FirewallIInv, Shape
  <2>. QED BY <1>4, <1>14, <1>15, <2>1, <2>2 DEF Shape
<1>17. PendingIsLast(pending', Groups, rs)
  BY <1>1, <1>4, <1>5, <1>6 DEF PendingIsLast
<1>. QED BY <1>1, <1>2, <1>10, <1>16, <1>17, Reached DEF rs, g

\* u32FirewallAddRule ends the list: it was complete already but for the link.
LEMMA TerminateStep ==
  ASSUME FirewallIInv, AddRuleTerminate
  PROVE  Leaves(Groups, RulesOf)
<1>1. /\ FirewallTypeOK /\ pending \in Rule /\ pending' = Null
      /\ next_rule_struct' = [next_rule_struct EXCEPT ![pending] = Null]
      /\ UNCHANGED << next_group_struct, first_rule >>
  BY DEF FirewallIInv, AddRuleTerminate, FirewallTypeOK
<1>2. FirewallTypeOK'
  BY <1>1 DEF FirewallTypeOK
<1>3. Completed' = Completed
  BY <1>1, StructureAssumption DEF Completed
<1>4. Shape(next_group_struct', first_rule', Completed', Groups, RulesOf)
  BY <1>1, <1>3 DEF FirewallIInv
<1>5. PendingIsLast(pending', Groups, RulesOf)
  BY <1>1 DEF PendingIsLast
<1>. QED BY <1>2, <1>4, <1>5, Reached

\* One link is written, and takes the i-th rule out of the rules of g.
LEMMA UnlinkRule ==
  ASSUME FirewallIInv, FirewallTypeOK', pending = Null, UNCHANGED << next_group_struct, pending >>,
         NEW g \in Range(Groups), NEW i \in 1..Len(CompletedRules(g)),
         \A h \in Group : h # g => first_rule'[h] = first_rule[h],
         i = 1 => first_rule'[g] = next_rule_struct[CompletedRules(g)[i]],
         i # 1 => /\ first_rule'[g] = first_rule[g]
                  /\ next_rule_struct'[CompletedRules(g)[i - 1]]
                       = next_rule_struct[CompletedRules(g)[i]],
         \A x \in Rule : next_rule_struct'[x] # next_rule_struct[x] =>
            i # 1 /\ x = CompletedRules(g)[i - 1]
  PROVE  Leaves(Groups, [RulesOf EXCEPT ![g] = RemoveAt(RulesOf[g], i)])
<1> DEFINE s == CompletedRules(g)
           a == RemoveAt(s, i)
           rs == [RulesOf EXCEPT ![g] = RemoveAt(RulesOf[g], i)]
<1>1. Completed = next_rule_struct /\ Completed' = next_rule_struct'
  BY DEF Completed
<1>2. /\ s \in Seq(Rule) /\ IsInjective(s) /\ g \in Group
      /\ IsList(first_rule[g], next_rule_struct, Null, s)
  BY <1>1, Linked DEF IsList
<1>3. a \in Seq(Rule) /\ Range(a) \subseteq Range(s)
  <2>1. i \in 1..Len(s)
    OBVIOUS
  <2> HIDE DEF s
  <2>. QED BY <1>2, <2>1, RemoveAtFacts, RemoveAtElements
<1>4. rs[g] = a /\ \A h \in Range(Groups) : h # g => rs[h] = CompletedRules(h)
  BY Linked DEF RulesOf
<1>5. /\ i \in 1..Len(s)
      /\ i = 1 => first_rule'[g] = next_rule_struct[s[i]]
      /\ i # 1 => first_rule'[g] = first_rule[g] /\ next_rule_struct'[s[i - 1]] = next_rule_struct[s[i]]
      /\ \A x \in Rule : next_rule_struct'[x] # next_rule_struct[x] => i # 1 /\ x = s[i - 1]
  OBVIOUS
<1> HIDE DEF s, a, rs
<1>6. Len(s) \in Nat /\ DOMAIN s = 1..Len(s) /\ \A j \in 1..Len(s) : s[j] \in Rule /\ s[j] \in Range(s)
  BY <1>2, Elements
<1>7. IsList(first_rule'[g], next_rule_struct', Null, a)
  <2>1. \A j \in 1..Len(s) : j # i - 1 => next_rule_struct'[s[j]] = next_rule_struct[s[j]]
    <3> SUFFICES ASSUME NEW j \in 1..Len(s), j # i - 1,
                        next_rule_struct'[s[j]] # next_rule_struct[s[j]]
                 PROVE  FALSE
      OBVIOUS
    <3>1. i # 1 /\ s[j] = s[i - 1]
      BY <1>5, <1>6
    <3>2. i - 1 \in 1..Len(s)
      BY <1>5, <1>6, <3>1
    <3>. QED BY <1>2, <1>6, <3>1, <3>2 DEF IsInjective
  <2> DEFINE first == first_rule[g]
             first2 == first_rule'[g]
             next2 == next_rule_struct'
  <2> HIDE DEF first, first2, next2
  <2>2. IsList(first2, next2, Null, RemoveAt(s, i))
    BY <1>2, <1>5, <2>1, ListRemove DEF first, first2, next2
  <2>. QED BY <2>2 DEF a, first2, next2
<1>8. ASSUME NEW h \in Range(Groups)
      PROVE  rs[h] \in Seq(Rule) /\ IsList(first_rule'[h], Completed', Null, rs[h])
  <2>1. CASE h = g
    BY <1>1, <1>3, <1>4, <1>7, <2>1
  <2>2. CASE h # g
    <3>1. /\ CompletedRules(h) \in Seq(Rule) /\ Range(CompletedRules(h)) \cap Range(s) = {}
          /\ IsList(first_rule[h], next_rule_struct, Null, CompletedRules(h))
          /\ h \in Group
      BY <1>1, <2>2, Linked DEF s
    <3>2. ASSUME NEW x \in Range(CompletedRules(h))
          PROVE  next_rule_struct'[x] = next_rule_struct[x]
      <4>1. i # 1 => i - 1 \in 1..Len(s)
        BY <1>5, <1>6
      <4>. QED BY <1>5, <1>6, <3>1, <4>1, Elements
    <3>3. first_rule'[h] = first_rule[h]
      BY <2>2, <3>1
    <3>. QED BY <1>1, <1>4, <2>2, <3>1, <3>2, <3>3, ListSame
  <2>. QED BY <2>1, <2>2
<1>9. ASSUME NEW h \in Range(Groups), NEW k \in Range(Groups), h # k
      PROVE  Range(rs[h]) \cap Range(rs[k]) = {}
  <2>1. Range(CompletedRules(h)) \cap Range(CompletedRules(k)) = {}
    BY <1>9, Linked
  <2>. QED BY <1>3, <1>4, <1>9, <2>1 DEF s
<1>10. Shape(next_group_struct', first_rule', Completed', Groups, rs)
  <2>1. Groups \in Seq(Group) /\ IsList(next_group_struct[firewallGroupHead], next_group_struct, Null, Groups)
    BY Linked
  <2>2. \A i1, j \in 1..Len(Groups) : NameOf[Groups[i1]] = NameOf[Groups[j]] => i1 = j
    BY DEF FirewallIInv, Shape
  <2>. QED BY <1>8, <1>9, <2>1, <2>2 DEF Shape
<1>11. PendingIsLast(pending', Groups, rs)
  BY DEF PendingIsLast
<1>. QED BY <1>10, <1>11, Reached DEF rs

\* Where the link of a structure leads.
LEMMA LinkLeads ==
  ASSUME NEW S, Null \notin S, NEW s \in Seq(S), NEW first, NEW next, IsList(first, next, Null, s)
  PROVE  /\ \A i \in 1..Len(s) : next[s[i]] \in S \cup {Null}
         /\ \A x \in S : first = x => 1 \in 1..Len(s) /\ s[1] = x
         /\ \A i \in 1..Len(s) : \A x \in S : next[s[i]] = x => i + 1 \in 1..Len(s) /\ s[i + 1] = x
<1>1. Len(s) \in Nat
  BY Elements
<1>2. ASSUME NEW i \in Nat
      PROVE  /\ Following(s, Null, i) \in S \cup {Null}
             /\ Following(s, Null, i) \in S => i + 1 \in 1..Len(s) /\ s[i + 1] = Following(s, Null, i)
  <2>1. i < Len(s) => i + 1 \in 1..Len(s)
    BY <1>1
  <2>. QED BY <2>1, FollowingFacts
<1>3. first = Following(s, Null, 0) /\ \A i \in 1..Len(s) : i \in Nat /\ next[s[i]] = Following(s, Null, i)
  BY DEF IsList
<1>4. 0 + 1 = 1 /\ 0 \in Nat
  OBVIOUS
<1>. QED BY <1>2, <1>3, <1>4

\* u32FirewallRemoveRule takes the rule out of the group it is in.
LEMMA RemoveRuleStep ==
  ASSUME FirewallIInv, NEW r \in Rule, RemoveRule(r)
  PROVE  \E g \in Range(Groups) : \E i \in 1..Len(CompletedRules(g)) :
           /\ CompletedRules(g)[i] = r
           /\ Leaves(Groups, [RulesOf EXCEPT ![g] = RemoveAt(RulesOf[g], i)])
<1>1. /\ FirewallTypeOK /\ pending = Null /\ UNCHANGED << next_group_struct, pending >>
      /\ Completed = next_rule_struct /\ LinkedGroups = Range(Groups)
  BY Linked DEF RemoveRule, FirewallIInv, Completed
<1>2. ASSUME NEW g \in Range(Groups)
      PROVE  /\ CompletedRules(g) \in Seq(Rule) /\ IsInjective(CompletedRules(g)) /\ g \in Group
             /\ IsList(first_rule[g], next_rule_struct, Null, CompletedRules(g))
             /\ Rules(g) = CompletedRules(g)
  BY <1>1, Linked, NothingPending DEF IsList
<1>3. Null \notin Rule
  BY StructureAssumption
<1>4. next_rule_struct[r] \in Rule \cup {Null}
  <2>1. PICK g \in Range(Groups) : r \in Range(CompletedRules(g))
    BY <1>1, <1>2 DEF RemoveRule, LinkedRules
  <2>2. PICK i \in 1..Len(CompletedRules(g)) : CompletedRules(g)[i] = r
    BY <1>2, <2>1, Elements
  <2>. QED BY <1>2, <1>3, <2>2, LinkLeads
<1>5. ASSUME NEW g \in Range(Groups), first_rule[g] = r,
             first_rule' = [first_rule EXCEPT ![g] = next_rule_struct[r]],
             UNCHANGED next_rule_struct
      PROVE  /\ 1 \in 1..Len(CompletedRules(g)) /\ CompletedRules(g)[1] = r
             /\ Leaves(Groups, [RulesOf EXCEPT ![g] = RemoveAt(RulesOf[g], 1)])
  <2>1. 1 \in 1..Len(CompletedRules(g)) /\ CompletedRules(g)[1] = r
    BY <1>2, <1>3, <1>5, LinkLeads
  <2>2. FirewallTypeOK'
    BY <1>1, <1>2, <1>4, <1>5 DEF FirewallTypeOK
  <2>3. /\ \A h \in Group : h # g => first_rule'[h] = first_rule[h]
        /\ first_rule'[g] = next_rule_struct[r]
    BY <1>1, <1>2, <1>5 DEF FirewallTypeOK
  <2>4. Leaves(Groups, [RulesOf EXCEPT ![g] = RemoveAt(RulesOf[g], 1)])
    BY <1>1, <1>5, <2>1, <2>2, <2>3, UnlinkRule
  <2>. QED BY <2>1, <2>4
<1>6. ASSUME NEW p \in LinkedRules, next_rule_struct[p] = r,
             next_rule_struct' = [next_rule_struct EXCEPT ![p] = next_rule_struct[r]],
             UNCHANGED first_rule
      PROVE  \E g \in Range(Groups) : \E i \in 1..Len(CompletedRules(g)) :
               /\ CompletedRules(g)[i] = r
               /\ Leaves(Groups, [RulesOf EXCEPT ![g] = RemoveAt(RulesOf[g], i)])
  <2>1. PICK g \in Range(Groups) : p \in Range(CompletedRules(g))
    BY <1>1, <1>2, <1>6 DEF LinkedRules
  <2>2. PICK j \in 1..Len(CompletedRules(g)) : CompletedRules(g)[j] = p
    BY <1>2, <2>1, Elements
  <2>3. PICK i \in 1..Len(CompletedRules(g)) :
               i = j + 1 /\ i # 1 /\ i - 1 = j /\ CompletedRules(g)[i] = r
    <3>1. j + 1 \in 1..Len(CompletedRules(g)) /\ CompletedRules(g)[j + 1] = r
      BY <1>2, <1>3, <1>6, <2>2, LinkLeads
    <3>2. j + 1 # 1 /\ (j + 1) - 1 = j
      OBVIOUS
    <3>. QED BY <3>1, <3>2
  <2>4. p \in Rule
    BY <1>2, <2>1, Elements
  <2>5. FirewallTypeOK'
    BY <1>1, <1>4, <1>6, <2>4 DEF FirewallTypeOK
  <2>6. /\ next_rule_struct'[p] = next_rule_struct[r]
        /\ \A x \in Rule : x # p => next_rule_struct'[x] = next_rule_struct[x]
    BY <1>1, <1>6, <2>4 DEF FirewallTypeOK
  <2>7. /\ i # 1 => /\ first_rule'[g] = first_rule[g]
                    /\ next_rule_struct'[CompletedRules(g)[i - 1]]
                         = next_rule_struct[CompletedRules(g)[i]]
        /\ \A x \in Rule : next_rule_struct'[x] # next_rule_struct[x] =>
             i # 1 /\ x = CompletedRules(g)[i - 1]
        /\ \A h \in Group : h # g => first_rule'[h] = first_rule[h]
    BY <1>6, <2>2, <2>3, <2>6
  <2>8. Leaves(Groups, [RulesOf EXCEPT ![g] = RemoveAt(RulesOf[g], i)])
    BY <1>1, <2>3, <2>5, <2>7, UnlinkRule
  <2>. QED BY <2>3, <2>8
<1>7. \/ \E g \in Range(Groups) : /\ first_rule[g] = r
                                  /\ first_rule' = [first_rule EXCEPT ![g] = next_rule_struct[r]]
                                  /\ UNCHANGED next_rule_struct
      \/ \E p \in LinkedRules :
           /\ next_rule_struct[p] = r
           /\ next_rule_struct' = [next_rule_struct EXCEPT ![p] = next_rule_struct[r]]
           /\ UNCHANGED first_rule
  BY <1>1 DEF RemoveRule
<1>. QED BY <1>5, <1>6, <1>7

\* u32FirewallRemoveGroup takes the group out of the list, with its rules.
LEMMA RemoveGroupStep ==
  ASSUME FirewallIInv, NEW g \in Group, RemoveGroup(g)
  PROVE  /\ g \in Range(Groups)
         /\ \E i \in 1..Len(Groups) : /\ Groups[i] = g
                                      /\ Leaves(RemoveAt(Groups, i), RulesOf)
                                      /\ Range(RemoveAt(Groups, i)) = Range(Groups) \ {g}
<1> DEFINE next == next_group_struct
           next2 == next_group_struct'
           head == firewallGroupHead
<1>1. /\ FirewallTypeOK /\ pending = Null /\ UNCHANGED << first_rule, next_rule_struct, pending >>
      /\ g \in Range(Groups) /\ LinkedGroups = Range(Groups)
      /\ Null \notin Group /\ head \notin Group
  BY Linked, StructureAssumption DEF RemoveGroup, FirewallIInv
<1>2. /\ Groups \in Seq(Group) /\ IsList(next[head], next, Null, Groups) /\ IsInjective(Groups)
      /\ Range(Groups) \subseteq Group
  BY Linked DEF IsList
<1>3. /\ Len(Groups) \in Nat /\ DOMAIN Groups = 1..Len(Groups)
      /\ \A j \in 1..Len(Groups) : Groups[j] \in Group
  BY <1>2, Elements
<1>4. PICK p \in Range(Groups) \cup {head} : next[p] = g /\ next2 = [next EXCEPT ![p] = next[g]]
  BY <1>1 DEF RemoveGroup
<1>5. next[g] \in Group \cup {Null}
  <2>1. PICK i \in 1..Len(Groups) : Groups[i] = g
    BY <1>1, <1>2, Elements
  <2>. QED BY <1>1, <1>2, <2>1, LinkLeads
<1>6. /\ next2 \in [Group \cup {head} -> Group \cup {Null}]
      /\ next2[p] = next[g] /\ \A x \in Group \cup {head} : x # p => next2[x] = next[x]
  BY <1>1, <1>2, <1>4, <1>5 DEF FirewallTypeOK
<1>7. PICK i \in 1..Len(Groups) : /\ Groups[i] = g
                                  /\ i = 1 => p = head
                                  /\ i # 1 => p = Groups[i - 1] /\ i - 1 \in 1..Len(Groups)
  <2>1. CASE p = head
    <3>1. 1 \in 1..Len(Groups) /\ Groups[1] = g
      BY <1>1, <1>2, <1>4, <2>1, LinkLeads
    <3>. QED BY <2>1, <3>1
  <2>2. CASE p \in Range(Groups)
    <3>1. PICK j \in 1..Len(Groups) : Groups[j] = p
      BY <1>2, <2>2, Elements
    <3>2. j + 1 \in 1..Len(Groups) /\ Groups[j + 1] = g
      BY <1>1, <1>2, <1>4, <3>1, LinkLeads
    <3>3. (j + 1) - 1 = j /\ j + 1 # 1
      OBVIOUS
    <3>. QED BY <3>1, <3>2, <3>3
  <2>. QED BY <2>1, <2>2
<1> DEFINE gs == RemoveAt(Groups, i)
<1>8. /\ gs \in Seq(Group) /\ Len(gs) = Len(Groups) - 1 /\ Range(gs) = Range(Groups) \ {g}
      /\ \A j \in 1..Len(Groups) - 1 : gs[j] = IF j < i THEN Groups[j] ELSE Groups[j + 1]
  BY <1>2, <1>7, RemoveAtFacts, RemoveAtElements
<1>9. IsList(next2[head], next2, Null, gs)
  <2>1. i = 1 => next2[head] = next[Groups[i]]
    BY <1>6, <1>7
  <2>2. i # 1 => next2[head] = next[head] /\ next2[Groups[i - 1]] = next[Groups[i]]
    BY <1>1, <1>3, <1>6, <1>7
  <2>3. \A j \in 1..Len(Groups) : j # i - 1 => next2[Groups[j]] = next[Groups[j]]
    <3> SUFFICES ASSUME NEW j \in 1..Len(Groups), j # i - 1
                 PROVE  Groups[j] # p
      BY <1>3, <1>6
    <3>1. CASE i = 1
      BY <1>1, <1>3, <1>7, <3>1
    <3>2. CASE i # 1
      BY <1>2, <1>3, <1>7, <3>2 DEF IsInjective
    <3>. QED BY <3>1, <3>2
  <2> DEFINE first == next[head]
             first2 == next2[head]
  <2>4. IsList(first, next, Null, Groups)
    BY <1>2
  <2> HIDE DEF next, next2, first, first2
  <2>5. IsList(first2, next2, Null, RemoveAt(Groups, i))
    BY <1>2, <2>1, <2>2, <2>3, <2>4, ListRemove DEF first, first2
  <2>. QED BY <2>5 DEF first2
<1> HIDE DEF gs
<1>10. \A j, k \in 1..Len(gs) : NameOf[gs[j]] = NameOf[gs[k]] => j = k
  <2> SUFFICES ASSUME NEW j \in 1..Len(gs), NEW k \in 1..Len(gs), NameOf[gs[j]] = NameOf[gs[k]]
               PROVE  j = k
    OBVIOUS
  <2> DEFINE from(m) == IF m < i THEN m ELSE m + 1
  <2>1. /\ from(j) \in 1..Len(Groups) /\ gs[j] = Groups[from(j)]
        /\ from(k) \in 1..Len(Groups) /\ gs[k] = Groups[from(k)]
        /\ from(j) = from(k) => j = k
    BY <1>3, <1>8
  <2> HIDE DEF from
  <2>2. from(j) = from(k)
    BY <2>1 DEF FirewallIInv, Shape
  <2>. QED BY <2>1, <2>2
<1>11. FirewallTypeOK'
  BY <1>1, <1>6 DEF FirewallTypeOK
<1>12. Completed' = Completed
  BY <1>1 DEF Completed
<1>13. \A h \in Range(gs) : /\ RulesOf[h] \in Seq(Rule)
                            /\ IsList(first_rule'[h], Completed', Null, RulesOf[h])
  BY <1>1, <1>8, <1>12, Linked
<1>14. \A h, k \in Range(gs) : h # k => Range(RulesOf[h]) \cap Range(RulesOf[k]) = {}
  BY <1>8, Linked
<1>15. Shape(next_group_struct', first_rule', Completed', gs, RulesOf)
  BY <1>8, <1>9, <1>10, <1>13, <1>14 DEF Shape
<1>16. PendingIsLast(pending', gs, RulesOf)
  BY <1>1 DEF PendingIsLast
<1>17. Leaves(gs, RulesOf)
  BY <1>11, <1>15, <1>16, Reached
<1>. QED BY <1>1, <1>7, <1>8, <1>17 DEF gs

\* A step that writes nothing.
LEMMA StutterStep ==
  ASSUME FirewallIInv, UNCHANGED firewallVars
  PROVE  Leaves(Groups, RulesOf)
<1>1. FirewallTypeOK' /\ Completed' = Completed
  BY DEF firewallVars, FirewallIInv, FirewallTypeOK, Completed
<1>. QED BY <1>1, Reached DEF firewallVars, FirewallIInv

LEMMA NextInvariant == FirewallIInv /\ [FirewallNext]_firewallVars => FirewallIInv'
<1> SUFFICES ASSUME FirewallIInv, [FirewallNext]_firewallVars PROVE FirewallIInv'
  OBVIOUS
<1>1. ASSUME NEW g \in Group, AddGroup(g) PROVE FirewallIInv'
  BY <1>1, AddGroupStep DEF Leaves
<1>2. ASSUME NEW g \in Group, RemoveGroup(g) PROVE FirewallIInv'
  BY <1>2, RemoveGroupStep DEF Leaves
<1>3. ASSUME NEW n \in Name, NEW r \in Rule, AddRuleLink(n, r) PROVE FirewallIInv'
  BY <1>3, AddRuleStep DEF Leaves
<1>4. ASSUME NEW r \in Rule, RemoveRule(r) PROVE FirewallIInv'
  BY <1>4, RemoveRuleStep DEF Leaves
<1>5. CASE AddRuleTerminate
  BY <1>5, TerminateStep DEF Leaves
<1>6. CASE UNCHANGED firewallVars
  BY <1>6, StutterStep DEF Leaves
<1>. QED BY <1>1, <1>2, <1>3, <1>4, <1>5, <1>6 DEF FirewallNext

\* The lists are lists, and apart, whatever was added and removed and added again.
THEOREM FirewallInvariant == FirewallSpec => []FirewallIInv
<1>. QED BY InitInvariant, NextInvariant, PTL DEF FirewallSpec

\* No list loops or leads to memory of another kind, and no two groups share a rule,
\* although a removed structure keeps its link and may be added again (firewall.c:86-91).
THEOREM ListsStayWellFormed == FirewallSpec => []ListsInv
<1>1. ASSUME FirewallIInv
      PROVE  ListsInv
  <2>1. Shape(next_group_struct, first_rule, Completed, Groups, RulesOf)
    BY <1>1 DEF FirewallIInv
  <2>2. /\ Terminates(next_group_struct[firewallGroupHead], next_group_struct, Group)
        /\ \A g \in Range(Groups) : Terminates(first_rule[g], Completed, Rule)
    BY <2>1, ShapeGives
  <2>. QED BY <1>1, <2>2, Linked DEF FirewallIInv, ListsInv, ListsAreWellFormed
<1>. QED BY <1>1, FirewallInvariant, PTL

-----------------------------------------------------------------------------
(* The policy.                                                               *)

\* The policy has the names of the groups that are linked, each with its rules.
PolicyRead ==
  /\ \A g \in Range(Groups) : PolicyOf(NameOf[g]) = CompletedRules(g)
  /\ \A n : (\A g \in Range(Groups) : NameOf[g] # n) => PolicyOf(n) = NoGroup

LEMMA PolicyIsRead == FirewallIInv => PolicyRead
<1> SUFFICES ASSUME FirewallIInv PROVE PolicyRead
  OBVIOUS
<1>1. ASSUME NEW g \in Range(Groups)
      PROVE  PolicyOf(NameOf[g]) = CompletedRules(g)
  <2>1. g \in Named(NameOf[g])
    BY DEF Named, LinkedGroups
  <2>2. Find(NameOf[g]) = g
    BY <2>1, FindFacts, Linked
  <2>. QED BY <2>1, <2>2 DEF PolicyOf
<1>2. ASSUME NEW n, \A g \in Range(Groups) : NameOf[g] # n
      PROVE  PolicyOf(n) = NoGroup
  <2>1. Named(n) = {}
    BY <1>2 DEF Named, LinkedGroups
  <2>. QED BY <2>1 DEF PolicyOf
<1>. QED BY <1>1, <1>2 DEF PolicyRead

LEMMA PolicyIsReadNext == FirewallIInv' => PolicyRead'
BY PolicyIsRead, PTL

\* The policy changes for one name.
LEMMA PolicyChanges ==
  ASSUME NEW n \in Name, NEW v, PolicyOf(n)' = v,
         \A m \in Name : m # n => PolicyOf(m)' = PolicyOf(m)
  PROVE  [m \in Name |-> PolicyOf(m)'] = [[m \in Name |-> PolicyOf(m)] EXCEPT ![n] = v]
OBVIOUS

\* It does not change for a name whose group stays with its rules, or stays away.
LEMMA PolicyKept ==
  ASSUME FirewallIInv, FirewallIInv', NEW m,
         \A g : NameOf[g] = m => /\ g \in Range(Groups') <=> g \in Range(Groups)
                                 /\ g \in Range(Groups) => CompletedRules(g)' = CompletedRules(g)
  PROVE  PolicyOf(m)' = PolicyOf(m)
<1>1. PolicyRead /\ PolicyRead'
  BY PolicyIsRead, PolicyIsReadNext
<1>2. /\ \A g \in Range(Groups') : PolicyOf(NameOf[g])' = CompletedRules(g)'
      /\ (\A g \in Range(Groups') : NameOf[g] # m) => PolicyOf(m)' = NoGroup
  BY <1>1 DEF PolicyRead
<1>3. /\ \A g \in Range(Groups) : PolicyOf(NameOf[g]) = CompletedRules(g)
      /\ (\A g \in Range(Groups) : NameOf[g] # m) => PolicyOf(m) = NoGroup
  BY <1>1 DEF PolicyRead
<1>4. CASE \E g \in Range(Groups) : NameOf[g] = m
  BY <1>2, <1>3, <1>4
<1>5. CASE \A g \in Range(Groups) : NameOf[g] # m
  BY <1>2, <1>3, <1>5
<1>. QED BY <1>4, <1>5

\* A linked group has a name, and its rules are not the mark of no group.
LEMMA HasRules ==
  ASSUME FirewallIInv, NEW g \in Range(Groups)
  PROVE  NameOf[g] \in Name /\ CompletedRules(g) # NoGroup
<1>1. g \in Group /\ CompletedRules(g) \in Seq(Rule)
  BY Linked
<1>. QED BY <1>1, StructureAssumption

LEMMA AddGroupPolicy ==
  ASSUME FirewallIInv, NEW g \in Group, AddGroup(g)
  PROVE  Policy!AddGroup(NameOf[g])
<1> DEFINE n == NameOf[g]
<1>1. /\ FirewallIInv' /\ Range(Groups') = Range(Groups) \cup {g}
      /\ \A h \in Range(Groups') : CompletedRules(h)' = [RulesOf EXCEPT ![g] = << >>][h]
      /\ \A h \in Range(Groups) : NameOf[h] # n
  BY AddGroupStep DEF Leaves
<1>2. n \in Name
  BY StructureAssumption
<1>3. PolicyOf(n) = NoGroup
  BY <1>1, PolicyIsRead DEF PolicyRead
<1>4. PolicyOf(n)' = << >>
  <2>1. PolicyOf(n)' = CompletedRules(g)'
    BY <1>1, PolicyIsReadNext DEF PolicyRead
  <2>. QED BY <1>1, <2>1 DEF RulesOf
<1>5. ASSUME NEW m \in Name, m # n
      PROVE  PolicyOf(m)' = PolicyOf(m)
  <2>1. ASSUME NEW h \in Range(Groups)
        PROVE  CompletedRules(h)' = CompletedRules(h)
    BY <1>1, Linked
  <2>. QED BY <1>1, <1>5, <2>1, PolicyKept
<1> HIDE DEF n
<1>6. [m \in Name |-> PolicyOf(m)'] = [[m \in Name |-> PolicyOf(m)] EXCEPT ![n] = << >>]
  BY <1>2, <1>4, <1>5, PolicyChanges
<1>. QED BY <1>2, <1>3, <1>6 DEF Policy!AddGroup, n

LEMMA RemoveGroupPolicy ==
  ASSUME FirewallIInv, NEW g \in Group, RemoveGroup(g)
  PROVE  Policy!RemoveGroup(NameOf[g])
<1> DEFINE n == NameOf[g]
<1>1. /\ FirewallIInv' /\ g \in Range(Groups) /\ Range(Groups') = Range(Groups) \ {g}
      /\ \A h \in Range(Groups') : CompletedRules(h)' = RulesOf[h]
  BY RemoveGroupStep DEF Leaves
<1>2. n \in Name /\ PolicyOf(n) # NoGroup
  BY <1>1, HasRules, PolicyIsRead DEF PolicyRead
<1>3. PolicyOf(n)' = NoGroup
  <2>1. \A h \in Range(Groups') : NameOf[h] # n
    BY <1>1, Linked
  <2>. QED BY <1>1, <2>1, PolicyIsReadNext DEF PolicyRead
<1>4. ASSUME NEW m \in Name, m # n
      PROVE  PolicyOf(m)' = PolicyOf(m)
  <2>1. ASSUME NEW h \in Range(Groups), NameOf[h] = m
        PROVE  h \in Range(Groups') /\ CompletedRules(h)' = CompletedRules(h)
    BY <1>1, <1>4, <2>1, Linked
  <2>. QED BY <1>1, <2>1, PolicyKept
<1> HIDE DEF n
<1>5. [m \in Name |-> PolicyOf(m)'] = [[m \in Name |-> PolicyOf(m)] EXCEPT ![n] = NoGroup]
  BY <1>2, <1>3, <1>4, PolicyChanges
<1>. QED BY <1>2, <1>5 DEF Policy!RemoveGroup, n

\* The rules of one group change.
LEMMA RulesPolicy ==
  ASSUME FirewallIInv, NEW g \in Range(Groups), NEW v, Leaves(Groups, [RulesOf EXCEPT ![g] = v])
  PROVE  [m \in Name |-> PolicyOf(m)'] = [[m \in Name |-> PolicyOf(m)] EXCEPT ![NameOf[g]] = v]
<1>1. /\ FirewallIInv' /\ Groups' = Groups
      /\ \A h \in Range(Groups) : CompletedRules(h)' = [RulesOf EXCEPT ![g] = v][h]
      /\ g \in Group /\ NameOf[g] \in Name
  BY Linked, HasRules DEF Leaves
<1>2. PolicyOf(NameOf[g])' = v
  <2>1. PolicyOf(NameOf[g])' = CompletedRules(g)'
    BY <1>1, PolicyIsReadNext DEF PolicyRead
  <2>. QED BY <1>1, <2>1 DEF RulesOf
<1>3. ASSUME NEW m \in Name, m # NameOf[g]
      PROVE  PolicyOf(m)' = PolicyOf(m)
  <2>1. ASSUME NEW h \in Range(Groups), NameOf[h] = m
        PROVE  CompletedRules(h)' = CompletedRules(h)
    BY <1>1, <1>3, <2>1, Linked
  <2>. QED BY <1>1, <2>1, PolicyKept
<1>. QED BY <1>1, <1>2, <1>3, PolicyChanges

LEMMA AddRulePolicy ==
  ASSUME FirewallIInv, NEW n \in Name, NEW r \in Rule, AddRuleLink(n, r)
  PROVE  Policy!AddRule(n, r)
<1> DEFINE g == Find(n)
<1>1. /\ Leaves(Groups, [RulesOf EXCEPT ![g] = Append(RulesOf[g], r)])
      /\ g \in Range(Groups) /\ NameOf[g] = n
      /\ \A h \in Range(Groups) : r \notin Range(CompletedRules(h))
  BY AddRuleStep
<1> HIDE DEF g
<1>2. PolicyOf(n) = CompletedRules(g) /\ PolicyOf(n) # NoGroup /\ RulesOf[g] = CompletedRules(g)
  BY <1>1, HasRules, Linked, PolicyIsRead DEF PolicyRead
<1>3. \A m \in Name : PolicyOf(m) # NoGroup => r \notin Range(PolicyOf(m))
  BY <1>1, PolicyIsRead DEF PolicyRead
<1>4. [m \in Name |-> PolicyOf(m)'] = [[m \in Name |-> PolicyOf(m)] EXCEPT ![n] = Append(@, r)]
  <2>1. [m \in Name |-> PolicyOf(m)'] =
          [[m \in Name |-> PolicyOf(m)] EXCEPT ![n] = Append(CompletedRules(g), r)]
    BY <1>1, <1>2, RulesPolicy
  <2>. QED BY <1>2, <2>1
<1>. QED BY <1>2, <1>3, <1>4 DEF Policy!AddRule, Policy!Range, Range

LEMMA RemoveRulePolicy ==
  ASSUME FirewallIInv, NEW r \in Rule, RemoveRule(r)
  PROVE  \E n \in Name : Policy!RemoveRule(n, r)
<1>0. PICK g \in Range(Groups) : \E i \in 1..Len(CompletedRules(g)) :
        /\ CompletedRules(g)[i] = r
        /\ Leaves(Groups, [RulesOf EXCEPT ![g] = RemoveAt(RulesOf[g], i)])
  BY RemoveRuleStep
<1>1. PICK i \in 1..Len(CompletedRules(g)) :
        /\ CompletedRules(g)[i] = r
        /\ Leaves(Groups, [RulesOf EXCEPT ![g] = RemoveAt(RulesOf[g], i)])
  BY <1>0
<1> DEFINE n == NameOf[g]
<1>2. /\ n \in Name /\ PolicyOf(n) = CompletedRules(g) /\ PolicyOf(n) # NoGroup
      /\ RulesOf[g] = CompletedRules(g)
  BY HasRules, Linked, PolicyIsRead DEF PolicyRead
<1>3. [m \in Name |-> PolicyOf(m)'] =
        [[m \in Name |-> PolicyOf(m)] EXCEPT ![n] = RemoveAt(CompletedRules(g), i)]
  BY <1>1, <1>2, RulesPolicy
<1> HIDE DEF n
<1>4. [m \in Name |-> PolicyOf(m)'] = [[m \in Name |-> PolicyOf(m)] EXCEPT ![n] = RemoveAt(@, i)]
  BY <1>2, <1>3
<1>5. i \in 1..Len(PolicyOf(n)) /\ PolicyOf(n)[i] = r
  BY <1>1, <1>2
<1>. QED BY <1>2, <1>4, <1>5 DEF Policy!RemoveRule, Policy!RemoveAt, RemoveAt

\* The end of an addition changes no policy: the rule counts from the moment it is linked.
LEMMA SamePolicy ==
  ASSUME FirewallIInv, Leaves(Groups, RulesOf)
  PROVE  [m \in Name |-> PolicyOf(m)'] = [m \in Name |-> PolicyOf(m)]
<1>1. FirewallIInv' /\ Groups' = Groups /\ \A h \in Range(Groups) : CompletedRules(h)' = RulesOf[h]
  BY DEF Leaves
<1>2. ASSUME NEW h \in Range(Groups)
      PROVE  CompletedRules(h)' = CompletedRules(h)
  BY <1>1, Linked
<1>3. ASSUME NEW m \in Name
      PROVE  PolicyOf(m)' = PolicyOf(m)
  BY <1>1, <1>2, PolicyKept
<1>. QED BY <1>3

\* Every step of the lists is a step of the policy, or none: the lists implement it.
THEOREM PolicyImplemented == FirewallSpec => ImplementsPolicy
<1>1. FirewallInit => Policy!Init
  <2> SUFFICES ASSUME FirewallInit PROVE Policy!Init
    OBVIOUS
  <2>1. FirewallIInv /\ PolicyRead
    BY InitInvariant, PolicyIsRead
  <2>2. next_group_struct[firewallGroupHead] = Null
    BY DEF FirewallInit
  <2>3. Range(Groups) = {}
    <3>1. /\ IsList(next_group_struct[firewallGroupHead], next_group_struct, Null, Groups)
          /\ Groups \in Seq(Group) /\ Null \notin Group
      BY <2>1, Linked, StructureAssumption
    <3>2. ASSUME Groups # << >> PROVE FALSE
      <4>1. 0 < Len(Groups) /\ 0 + 1 \in 1..Len(Groups)
        BY <3>1, <3>2, Elements
      <4>. QED BY <2>2, <3>1, <4>1, Elements DEF IsList, Following
    <3>. QED BY <3>1, <3>2, Elements
  <2>4. \A n \in Name : PolicyOf(n) = NoGroup
    BY <2>1, <2>3 DEF PolicyRead
  <2>. QED BY <2>4 DEF Policy!Init
<1>2. FirewallIInv /\ [FirewallNext]_firewallVars => [Policy!Next]_([n \in Name |-> PolicyOf(n)])
  <2> SUFFICES ASSUME FirewallIInv, [FirewallNext]_firewallVars
               PROVE  Policy!Next \/ [m \in Name |-> PolicyOf(m)'] = [m \in Name |-> PolicyOf(m)]
    OBVIOUS
  <2>1. ASSUME NEW g \in Group, AddGroup(g) PROVE Policy!Next
    BY <2>1, AddGroupPolicy, StructureAssumption DEF Policy!Next
  <2>2. ASSUME NEW g \in Group, RemoveGroup(g) PROVE Policy!Next
    BY <2>2, RemoveGroupPolicy, StructureAssumption DEF Policy!Next
  <2>3. ASSUME NEW n \in Name, NEW r \in Rule, AddRuleLink(n, r) PROVE Policy!Next
    BY <2>3, AddRulePolicy DEF Policy!Next
  <2>4. ASSUME NEW r \in Rule, RemoveRule(r) PROVE Policy!Next
    BY <2>4, RemoveRulePolicy DEF Policy!Next
  <2>5. CASE AddRuleTerminate
    BY <2>5, TerminateStep, SamePolicy
  <2>6. CASE UNCHANGED firewallVars
    BY <2>6, StutterStep, SamePolicy
  <2>. QED BY <2>1, <2>2, <2>3, <2>4, <2>5, <2>6 DEF FirewallNext
<1>. QED BY <1>1, <1>2, FirewallInvariant, PTL DEF FirewallSpec, ImplementsPolicy, Policy!Spec

-----------------------------------------------------------------------------
(* The verdict.                                                              *)

\* Between the two writes of an addition the handler meets the rules of the policy, if
\* the link of the rule that is being added leads to no rule.
LEMMA HandlerSeesPolicy ==
  ASSUME FirewallIInv, pending # Null => next_rule_struct[pending] \notin Rule, NEW g \in Range(Groups)
  PROVE  Rules(g) = CompletedRules(g)
<1> DEFINE s == CompletedRules(g)
<1>1. /\ s \in Seq(Rule) /\ IsList(first_rule[g], Completed, Null, s) /\ FirewallTypeOK
      /\ IsFiniteSet(Rule) /\ Null \notin Rule
  BY Linked, StructureAssumption DEF FirewallIInv
<1>2. CASE pending = Null
  BY <1>2, NothingPending
<1>3. CASE pending # Null /\ pending \notin Range(s)
  <2>1. \A x \in Range(s) : next_rule_struct[x] = Completed[x]
    <3>1. Completed = [next_rule_struct EXCEPT ![pending] = Null]
      BY <1>3 DEF Completed
    <3>. QED BY <1>1, <1>3, <3>1, Elements DEF FirewallTypeOK
  <2> HIDE DEF s
  <2>2. IsList(first_rule[g], next_rule_struct, Null, s)
    BY <1>1, <2>1, ListSame
  <2>3. Chain(first_rule[g], next_rule_struct, Rule) = s
    BY <1>1, <2>2, ChainIs
  <2>. QED BY <2>3 DEF Rules, s
<1>4. CASE pending # Null /\ pending \in Range(s)
  <2>1. PICK h \in Range(Groups) : CompletedRules(h) # << >> /\ Last(CompletedRules(h)) = pending
    BY <1>4, Linked DEF FirewallIInv, PendingIsLast
  <2>2. h = g
    <3>1. CompletedRules(h) \in Seq(Rule)
      BY Linked
    <3>2. pending \in Range(CompletedRules(h))
      <4>1. Len(CompletedRules(h)) \in 1..Len(CompletedRules(h))
        BY <2>1, <3>1, Elements
      <4>. QED BY <2>1, <3>1, <4>1, Elements
    <3>. QED BY <1>4, <3>2, Linked
  <2> DEFINE end == next_rule_struct[pending]
  <2>3. end \notin Rule /\ s # << >> /\ Last(s) = pending
    BY <1>4, <2>1, <2>2
  <2> HIDE DEF s, end
  <2>4. /\ Len(s) \in Nat /\ DOMAIN s = 1..Len(s) /\ Len(s) \in 1..Len(s) /\ s[Len(s)] = pending
        /\ \A i \in 1..Len(s) : s[i] \in Rule
    BY <1>1, <2>3, Elements
  <2>5. /\ \A i \in 1..Len(s) : i # Len(s) => next_rule_struct[s[i]] = Completed[s[i]]
        /\ next_rule_struct[s[Len(s)]] = end
    <3>1. Completed = [next_rule_struct EXCEPT ![pending] = Null]
      BY <1>4 DEF Completed
    <3>2. \A i \in 1..Len(s) : i # Len(s) => s[i] # pending
      BY <1>1, <2>4 DEF IsList, IsInjective
    <3>. QED BY <1>1, <2>4, <3>1, <3>2 DEF FirewallTypeOK, end
  <2>6. ASSUME NEW i \in 1..Len(s)
        PROVE  next_rule_struct[s[i]] = Following(s, end, i)
    <3>1. i \in Nat /\ (i < Len(s) <=> i # Len(s))
      <4>1. Len(s) \in Nat
        BY <2>4
      <4>. QED BY <4>1
    <3>2. Following(s, end, i) = IF i = Len(s) THEN end ELSE Following(s, Null, i)
      BY <3>1 DEF Following
    <3>3. Completed[s[i]] = Following(s, Null, i)
      BY <1>1 DEF IsList
    <3>. QED BY <2>5, <3>2, <3>3
  <2>7. first_rule[g] = Following(s, end, 0)
    BY <1>1, <2>4 DEF IsList, Following
  <2>8. IsList(first_rule[g], next_rule_struct, end, s)
    BY <1>1, <2>6, <2>7 DEF IsList
  <2>9. Chain(first_rule[g], next_rule_struct, Rule) = s
    BY <1>1, <2>3, <2>8, ChainIs
  <2>. QED BY <2>9 DEF Rules, s
<1>. QED BY <1>2, <1>3, <1>4

\* Whatever the handler interrupts, a frame it accepts or rejects is one the policy accepts
\* or does not accept (firewall.c:158-181).
THEOREM HandlerFollowsPolicy == FirewallSpec => []VerdictFollowsPolicy
<1>1. ASSUME FirewallIInv
      PROVE  VerdictFollowsPolicy
  <2> SUFFICES ASSUME pending # Null => next_rule_struct[pending] \notin Rule,
                      NEW n \in Name, NEW matching \in SUBSET Rule
               PROVE  /\ Check(n, matching) = "accept" => Accepts(n, matching)
                      /\ Check(n, matching) = "reject" => ~Accepts(n, matching)
    BY DEF VerdictFollowsPolicy
  <2>1. CASE Named(n) = {}
    BY <2>1 DEF Check, Accepts, PolicyOf
  <2>2. CASE Named(n) # {}
    <3>1. Find(n) \in Range(Groups)
      BY <1>1, <2>2, FindFacts
    <3>2. PolicyOf(n) = Rules(Find(n)) /\ PolicyOf(n) # NoGroup
      BY <1>1, <2>2, <3>1, HandlerSeesPolicy, HasRules DEF PolicyOf
    <3>. QED BY <2>2, <3>2 DEF Check, Accepts
  <2>. QED BY <2>1, <2>2
<1>. QED BY <1>1, FirewallInvariant, PTL

================================================================================
