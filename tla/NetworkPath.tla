------------------------------ MODULE NetworkPath ------------------------------
(***************************************************************************)
(* The way of a network buffer through the device: the Ethernet DMA, the   *)
(* interrupt handler and the transmit function of NetworkInterface.c, the  *)
(* event queue and the IP task of FreeRTOS_IP.c, and the task that uses a  *)
(* UDP socket (the LED task) through FreeRTOS_Sockets.c.                   *)
(*                                                                         *)
(* Scheduling.  The interrupt handler preempts every task and runs to      *)
(* completion; the IP task has the highest priority that is used, so the   *)
(* socket task runs only while the IP task is blocked on an empty queue.   *)
(* The DMA runs in parallel with everything.                               *)
(*                                                                         *)
(* What the firewall, the ARP cache and the protocol code decide about a   *)
(* frame is a choice here; the pool of free buffers is a set, its two-step *)
(* operations are the subject of BufferPool.                               *)
(***************************************************************************)
EXTENDS Naturals, Sequences, FiniteSets

CONSTANTS
  Buffer,          \* the network buffer descriptors
  None,            \* no buffer
  Threshold,       \* baINTERRUPT_BUFFER_GET_THRESHOLD
  ReservedEvents,  \* places of the event queue beyond one for each buffer
  NumRx, NumTx,    \* NUM_RX_DESCRIPTORS, NUM_TX_DESCRIPTORS
  ArpRequests      \* the most requests one pass over the ARP cache may send

ASSUME BufferAssumption == IsFiniteSet(Buffer) /\ None \notin Buffer
ASSUME SizeAssumption ==
  /\ Threshold \in Nat /\ ReservedEvents \in Nat /\ ArpRequests \in Nat
  /\ NumRx \in Nat \ {0} /\ NumTx \in Nat \ {0}

\* ipconfigEVENT_QUEUE_LENGTH leaves places for the events without a buffer
\* (FreeRTOSIPConfig.h:259-263): an ARP timer and a socket to bind may wait.
ASSUME ReserveAssumption == ReservedEvents >= 2

VARIABLES
  free,                \* the buffers in the pool
  rxDesc,              \* receive descriptors: "dma" while OWN is set, else the last result
  macRx,               \* the receive descriptor the DMA uses next
  g_ui32RxDescIndex,   \* the receive descriptor the handler looks at
  rxInterrupt,         \* EMAC_INT_RECEIVE is pending
  txDesc,              \* transmit descriptors: the buffer while OWN is set, else None
  macTx,               \* the transmit descriptor the DMA uses next
  xNetworkEventQueue,
  ipPc, ipBuf, ipDesc, \* the IP task: where it is, the buffer it works on, the descriptor it latched
  arpLeft,             \* what remains of the loop of vARPAgeCache
  xNetworkUp,
  appPc, appBuf,       \* the task that uses the socket
  bound,               \* eSOCKET_BOUND
  xWaitingPacketsList, \* the buffers that wait for FreeRTOS_recvfrom
  lost                 \* history: the buffers to which no pointer is left

macVars == << rxDesc, macRx, g_ui32RxDescIndex, rxInterrupt >>
txVars  == << txDesc, macTx >>
ipVars  == << ipPc, ipBuf, ipDesc, arpLeft, xNetworkUp >>
appVars == << appPc, appBuf, bound >>

listVars == << xWaitingPacketsList, lost >>

vars == << free, macVars, txVars, xNetworkEventQueue, ipVars, appVars, listVars >>

RxIndex == 0..(NumRx - 1)
TxIndex == 0..(NumTx - 1)

-----------------------------------------------------------------------------
(* The event queue.                                                          *)

\* A slip: one place for each receive descriptor.
QueueLengthOfRing == NumRx

\* ipconfigEVENT_QUEUE_LENGTH
QueueLength == Cardinality(Buffer) + ReservedEvents

QueueHasRoom == Len(xNetworkEventQueue) < QueueLength

RxEvent(b, valid) == [type |-> "rx", buf |-> b, valid |-> valid]
TxEvent(b)        == [type |-> "tx", buf |-> b, valid |-> TRUE]
OtherEvent(type)  == [type |-> type, buf |-> None, valid |-> TRUE]

\* xSendEventStructToIPTask: nothing is queued when the queue is full.
Post(event) ==
  xNetworkEventQueue' = IF QueueHasRoom THEN Append(xNetworkEventQueue, event)
                                        ELSE xNetworkEventQueue

ArpEventQueued ==
  \E i \in 1..Len(xNetworkEventQueue) : xNetworkEventQueue[i].type = "arp"

-----------------------------------------------------------------------------

\* The IP task has posted the first network-down event to itself.
Init ==
  /\ free = Buffer
  /\ rxDesc = [i \in RxIndex |-> "empty"]
  /\ macRx = 0 /\ g_ui32RxDescIndex = 0
  /\ rxInterrupt = FALSE
  /\ txDesc = [i \in TxIndex |-> None]
  /\ macTx = 0
  /\ xNetworkEventQueue = << OtherEvent("down") >>
  /\ ipPc = "wait" /\ ipBuf = None /\ ipDesc = 0
  /\ arpLeft = 0
  /\ xNetworkUp = FALSE
  /\ appPc = "unbound" /\ appBuf = None
  /\ bound = FALSE
  /\ xWaitingPacketsList = {}
  /\ lost = {}

-----------------------------------------------------------------------------
(* The Ethernet MAC, as far as the driver relies on it.                      *)

\* A frame arrives for the descriptor in turn.  "good" is a complete frame without
\* an error; "bad" has an error or is longer than one receive buffer.  A frame that
\* finds the descriptor not armed is lost and changes nothing.
MacReceive(result) ==
  /\ rxDesc[macRx] = "dma"
  /\ rxDesc' = [rxDesc EXCEPT ![macRx] = result]
  /\ macRx' = (macRx + 1) % NumRx
  /\ rxInterrupt' = TRUE
  /\ UNCHANGED << free, g_ui32RxDescIndex, txVars, xNetworkEventQueue, ipVars, appVars,
                  listVars >>

\* The DMA has sent the frame of the descriptor in turn and gives it back.
MacTransmit ==
  /\ txDesc[macTx] # None
  /\ txDesc' = [txDesc EXCEPT ![macTx] = None]
  /\ macTx' = (macTx + 1) % NumTx
  /\ UNCHANGED << free, macVars, xNetworkEventQueue, ipVars, appVars, listVars >>

-----------------------------------------------------------------------------
(* EthernetIntHandler.                                                       *)

\* pxNetworkBufferGetFromISR refuses: the handler returns, the frame stays where it
\* is and no descriptor is given to the DMA.
IsrWithoutBuffer ==
  /\ rxInterrupt
  /\ Cardinality(free) <= Threshold
  /\ rxInterrupt' = FALSE
  /\ UNCHANGED << free, rxDesc, macRx, g_ui32RxDescIndex, txVars, xNetworkEventQueue, ipVars,
                  appVars, listVars >>

NextRx == (g_ui32RxDescIndex + 1) % NumRx

\* A slip: the descriptor is armed again before the index moves on.
PacketReceiveSwapped ==
  IF rxDesc[g_ui32RxDescIndex] = "dma"
    THEN UNCHANGED << rxDesc, g_ui32RxDescIndex >>
    ELSE /\ rxDesc' = [rxDesc EXCEPT ![g_ui32RxDescIndex] = "dma"]
         /\ g_ui32RxDescIndex' = NextRx

\* A slip: a frame with an error is not followed by a new descriptor.
PacketReceiveGoodOnly ==
  /\ g_ui32RxDescIndex' = NextRx
  /\ rxDesc' = IF rxDesc[g_ui32RxDescIndex] = "good" THEN [rxDesc EXCEPT ![NextRx] = "dma"]
                                                     ELSE rxDesc

\* PacketReceive: unless the DMA owns the descriptor, move to the next one and give
\* that to the DMA.
PacketReceive ==
  IF rxDesc[g_ui32RxDescIndex] = "dma"
    THEN UNCHANGED << rxDesc, g_ui32RxDescIndex >>
    ELSE /\ rxDesc' = [rxDesc EXCEPT ![NextRx] = "dma"]
         /\ g_ui32RxDescIndex' = NextRx

\* Only a good frame is copied; PacketReceive returns 0 for any other, and the
\* handler does not look at what it returns.
FrameIsCopied == rxDesc[g_ui32RxDescIndex] = "good"

\* The firewall accepts.  The result of the post is only logged: with a full queue
\* nobody would own b any more.
IsrAccepts(b) ==
  /\ rxInterrupt
  /\ Cardinality(free) > Threshold
  /\ b \in free
  /\ free' = free \ {b}
  /\ PacketReceive
  /\ Post(RxEvent(b, FrameIsCopied))
  /\ rxInterrupt' = FALSE
  /\ UNCHANGED << macRx, txVars, ipVars, appVars, listVars >>

\* The firewall rejects: the buffer that was taken is released again.
IsrRejects ==
  /\ rxInterrupt
  /\ Cardinality(free) > Threshold
  /\ PacketReceive
  /\ rxInterrupt' = FALSE
  /\ UNCHANGED << free, macRx, txVars, xNetworkEventQueue, ipVars, appVars, listVars >>

-----------------------------------------------------------------------------
(* The IP task: prvIPTask and the functions it calls.                        *)

\* prvCheckNetworkTimers: the ARP timer has expired.  Its period of ten seconds is
\* taken to be longer than the queue needs to drain: one such event at a time.
IpArpTimer ==
  /\ ipPc = "wait"
  /\ xNetworkUp
  /\ ~ArpEventQueued
  /\ Post(OtherEvent("arp"))
  /\ UNCHANGED << free, macVars, txVars, ipVars, appVars, listVars >>

\* xQueueReceive returns an event.
IpReceive ==
  /\ ipPc = "wait"
  /\ xNetworkEventQueue # << >>
  /\ ipPc' = Head(xNetworkEventQueue).type
  /\ ipBuf' = Head(xNetworkEventQueue).buf
  /\ arpLeft' = IF Head(xNetworkEventQueue).type = "arp" THEN ArpRequests ELSE 0
  /\ xNetworkEventQueue' = Tail(xNetworkEventQueue)
  /\ UNCHANGED << free, macVars, txVars, ipDesc, xNetworkUp, appVars, listVars >>

\* prvProcessNetworkDownEvent: xNetworkInterfaceInitialise waits for the link, arms
\* the first receive descriptor and succeeds (the MAC address has been programmed);
\* vIPNetworkUpCalls starts the ARP timer.
IpNetworkDown ==
  /\ ipPc = "down"
  /\ rxDesc' = [rxDesc EXCEPT ![g_ui32RxDescIndex] = "dma"]
  /\ xNetworkUp' = TRUE
  /\ ipPc' = "wait"
  /\ UNCHANGED << free, macRx, g_ui32RxDescIndex, rxInterrupt, txVars, xNetworkEventQueue, ipBuf,
                  ipDesc, arpLeft, appVars, listVars >>

\* vSocketBind and vSocketWakeUpUser
IpBind ==
  /\ ipPc = "bind"
  /\ bound' = TRUE
  /\ ipPc' = "wait"
  /\ UNCHANGED << free, macVars, txVars, xNetworkEventQueue, ipBuf, ipDesc, arpLeft, xNetworkUp,
                  appPc, appBuf, listVars >>

\* The buffer of the event is put back into the pool and the event is done with.
ReleaseAndWait ==
  /\ free' = free \cup {ipBuf}
  /\ ipBuf' = None
  /\ ipDesc' = 0  \* the local is dead
  /\ ipPc' = IF arpLeft > 0 THEN "arp" ELSE "wait"

\* prvProcessEthernetPacket: the frame is answered in the same buffer.  The answer to an
\* ARP request has a fixed length; the answer to an echo has the length that its IP header
\* states (FreeRTOS_IP.c:1639, 2078), which may be more than was received ...
IpReturnsFrame ==
  /\ ipPc = "rx"
  /\ ipPc' \in {"output", "oversized"}
  /\ UNCHANGED << free, macVars, txVars, xNetworkEventQueue, ipBuf, ipDesc, arpLeft, xNetworkUp,
                  appVars, listVars >>

\* ... or it is consumed: xProcessReceivedUDPPacket queues it at the socket, without
\* a limit on the length of that list ...
IpConsumesFrame ==
  /\ ipPc = "rx"
  /\ bound
  /\ xWaitingPacketsList' = xWaitingPacketsList \cup {ipBuf}
  /\ ipBuf' = None
  /\ ipPc' = "wait"
  /\ UNCHANGED << free, macVars, txVars, xNetworkEventQueue, ipDesc, arpLeft, xNetworkUp, appVars,
                  lost >>

\* A slip: eReleaseBuffer is treated like eFrameConsumed.
IpDropsFrameKept ==
  /\ ipPc = "rx"
  /\ ipBuf' = None
  /\ ipPc' = "wait"
  /\ UNCHANGED << free, macVars, txVars, xNetworkEventQueue, ipDesc, arpLeft, xNetworkUp, appVars,
                  listVars >>

\* ... or it is dropped.
IpDropsFrame ==
  /\ ipPc = "rx"
  /\ ReleaseAndWait
  /\ UNCHANGED << macVars, txVars, xNetworkEventQueue, arpLeft, xNetworkUp, appVars, listVars >>

\* vProcessGeneratedUDPPacket: the datagram is sent, or an ARP request in its place ...
IpSendsDatagram ==
  /\ ipPc = "tx"
  /\ ipPc' = "output"
  /\ UNCHANGED << free, macVars, txVars, xNetworkEventQueue, ipBuf, ipDesc, arpLeft, xNetworkUp,
                  appVars, listVars >>

\* ... or eCantSendPacket: a request is already out, the datagram is dropped.
IpCannotSend ==
  /\ ipPc = "tx"
  /\ ReleaseAndWait
  /\ UNCHANGED << macVars, txVars, xNetworkEventQueue, arpLeft, xNetworkUp, appVars, listVars >>

\* A slip: the loop does not advance.
IpArpRequestForEver(b) ==
  /\ ipPc = "arp"
  /\ arpLeft > 0
  /\ b \in free
  /\ free' = free \ {b}
  /\ ipBuf' = b
  /\ ipPc' = "output"
  /\ UNCHANGED << macVars, txVars, xNetworkEventQueue, ipDesc, arpLeft, xNetworkUp, appVars,
                  listVars >>

\* vARPAgeCache: one entry of the cache needs a request, and a buffer is available
\* without waiting.
IpArpRequest(b) ==
  /\ ipPc = "arp"
  /\ arpLeft > 0
  /\ b \in free
  /\ free' = free \ {b}
  /\ ipBuf' = b
  /\ arpLeft' = arpLeft - 1
  /\ ipPc' = "output"
  /\ UNCHANGED << macVars, txVars, xNetworkEventQueue, ipDesc, xNetworkUp, appVars, listVars >>

\* The remaining entries need none, or there is no buffer for it.
IpArpDone ==
  /\ ipPc = "arp"
  /\ arpLeft' = 0
  /\ ipPc' = "wait"
  /\ UNCHANGED << free, macVars, txVars, xNetworkEventQueue, ipBuf, ipDesc, xNetworkUp, appVars,
                  listVars >>

-----------------------------------------------------------------------------
(* xNetworkInterfaceOutput, called by the IP task with bReleaseAfterSend.    *)

\* The length is above TX_BUFFER_SIZE: pdFAIL is returned before anything is sent or
\* released, and no caller looks at it.  Datagrams and ARP requests are never that long
\* (FreeRTOS_Sockets.c:832, FreeRTOSIPConfig.h:294).
OutputRefuses ==
  /\ ipPc = "oversized"
  /\ lost' = lost \cup {ipBuf}
  /\ ipBuf' = None
  /\ ipPc' = "wait"
  /\ UNCHANGED << free, macVars, txVars, xNetworkEventQueue, ipDesc, arpLeft, xNetworkUp, appVars,
                  xWaitingPacketsList >>

\* The current descriptor of the DMA is read, once.
OutputLatch ==
  /\ ipPc = "output"
  /\ ipDesc' = macTx
  /\ ipPc' = "spin"
  /\ UNCHANGED << free, macVars, txVars, xNetworkEventQueue, ipBuf, arpLeft, xNetworkUp, appVars,
                  listVars >>

\* The task spins until the DMA has given up that descriptor, fills it and sets OWN.
OutputFill ==
  /\ ipPc = "spin"
  /\ txDesc[ipDesc] = None
  /\ txDesc' = [txDesc EXCEPT ![ipDesc] = ipBuf]
  /\ ipPc' = "sent"
  /\ UNCHANGED << free, macVars, macTx, xNetworkEventQueue, ipBuf, ipDesc, arpLeft, xNetworkUp,
                  appVars, listVars >>

\* bReleaseAfterSend: the buffer is released at once.
OutputRelease ==
  /\ ipPc = "sent"
  /\ ReleaseAndWait
  /\ UNCHANGED << macVars, txVars, xNetworkEventQueue, arpLeft, xNetworkUp, appVars, listVars >>

-----------------------------------------------------------------------------
(* The task that uses the socket.                                            *)

IpIsBlocked == ipPc = "wait" /\ xNetworkEventQueue = << >>

\* FreeRTOS_bind posts the event and waits for eSOCKET_BOUND without a time limit.
AppBind ==
  /\ IpIsBlocked
  /\ appPc = "unbound"
  /\ Post(OtherEvent("bind"))
  /\ appPc' = "binding"
  /\ UNCHANGED << free, macVars, txVars, ipVars, appBuf, bound, listVars >>

AppIsBound ==
  /\ IpIsBlocked
  /\ appPc = "binding"
  /\ bound
  /\ appPc' = "idle"
  /\ UNCHANGED << free, macVars, txVars, xNetworkEventQueue, ipVars, appBuf, bound, listVars >>

\* FreeRTOS_recvfrom unlinks a buffer, copies the payload ...
AppReceive(b) ==
  /\ IpIsBlocked
  /\ appPc = "idle"
  /\ b \in xWaitingPacketsList
  /\ xWaitingPacketsList' = xWaitingPacketsList \ {b}
  /\ appBuf' = b
  /\ appPc' = "received"
  /\ UNCHANGED << free, macVars, txVars, xNetworkEventQueue, ipVars, bound, lost >>

\* ... and releases it.
AppRelease ==
  /\ IpIsBlocked
  /\ appPc = "received"
  /\ free' = free \cup {appBuf}
  /\ appBuf' = None
  /\ appPc' = "idle"
  /\ UNCHANGED << macVars, txVars, xNetworkEventQueue, ipVars, bound, listVars >>

\* FreeRTOS_sendto takes a buffer; it returns 0 when none comes free in time.
AppTakeBuffer(b) ==
  /\ IpIsBlocked
  /\ appPc = "idle"
  /\ b \in free
  /\ free' = free \ {b}
  /\ appBuf' = b
  /\ appPc' = "filled"
  /\ UNCHANGED << macVars, txVars, xNetworkEventQueue, ipVars, bound, listVars >>

\* The event is posted; if it cannot be, the buffer is released.
AppPost ==
  /\ IpIsBlocked
  /\ appPc = "filled"
  /\ Post(TxEvent(appBuf))
  /\ free' = IF QueueHasRoom THEN free ELSE free \cup {appBuf}
  /\ appBuf' = None
  /\ appPc' = "idle"
  /\ UNCHANGED << macVars, txVars, ipVars, bound, listVars >>

-----------------------------------------------------------------------------

Mac == MacTransmit \/ \E result \in {"good", "bad"} : MacReceive(result)

Isr == IsrWithoutBuffer \/ IsrRejects \/ \E b \in Buffer : IsrAccepts(b)

IpTask ==
  \/ IpReceive \/ IpNetworkDown \/ IpBind
  \/ IpReturnsFrame \/ IpConsumesFrame \/ IpDropsFrame
  \/ IpSendsDatagram \/ IpCannotSend
  \/ IpArpDone \/ \E b \in Buffer : IpArpRequest(b)
  \/ OutputRefuses \/ OutputLatch \/ OutputFill \/ OutputRelease

App ==
  \/ AppBind \/ AppIsBound \/ AppRelease \/ AppPost
  \/ \E b \in Buffer : AppReceive(b) \/ AppTakeBuffer(b)

Next == Mac \/ Isr \/ IpArpTimer \/ IpTask \/ App

Spec == Init /\ [][Next]_vars

\* The DMA sends what it owns, an interrupt that is pending is taken, and the IP
\* task, whose priority is the highest, runs whenever it can.
FairSpec == Spec /\ WF_vars(MacTransmit) /\ WF_vars(Isr) /\ WF_vars(IpTask)

-----------------------------------------------------------------------------

IpLocation == { "wait", "down", "bind", "rx", "tx", "arp", "output", "oversized", "spin", "sent" }
AppLocation == { "unbound", "binding", "idle", "received", "filled" }

Event == [type : {"rx", "tx", "arp", "bind", "down"}, buf : Buffer \cup {None}, valid : BOOLEAN]

\* Type correctness.
TypeOK ==
  /\ free \subseteq Buffer
  /\ rxDesc \in [RxIndex -> {"empty", "dma", "good", "bad"}]
  /\ macRx \in RxIndex /\ g_ui32RxDescIndex \in RxIndex
  /\ rxInterrupt \in BOOLEAN
  /\ txDesc \in [TxIndex -> Buffer \cup {None}]
  /\ macTx \in TxIndex
  /\ xNetworkEventQueue \in Seq(Event)
  /\ ipPc \in IpLocation /\ ipBuf \in Buffer \cup {None} /\ ipDesc \in TxIndex
  /\ arpLeft \in 0..ArpRequests
  /\ xNetworkUp \in BOOLEAN
  /\ appPc \in AppLocation /\ appBuf \in Buffer \cup {None}
  /\ bound \in BOOLEAN
  /\ xWaitingPacketsList \subseteq Buffer /\ lost \subseteq Buffer

QueuedAt(b) == { i \in 1..Len(xNetworkEventQueue) : xNetworkEventQueue[i].buf = b }

\* Where a buffer is, as often as it is there.
Once(here) == IF here THEN 1 ELSE 0

Places(b) ==
  Cardinality(QueuedAt(b)) + Once(b \in free) + Once(ipBuf = b) + Once(appBuf = b)
    + Once(b \in xWaitingPacketsList)

\* No buffer is in two hands, and none is lost but by an answer that is too long to send
\* (NetworkInterface.c:556-559), although the handler, the IP task and the socket task pass
\* them on without a lock and the handler ignores a post that fails (NetworkInterface.c:359).
OnePlace == \A b \in Buffer : Places(b) + Once(b \in lost) = 1

\* The event queue has room whenever the handler may post a frame
\* (FreeRTOSIPConfig.h:259-263): why ignoring the result of the post is harmless.
RoomForFrame == (rxInterrupt /\ Cardinality(free) > Threshold) => QueueHasRoom

Armed == { i \in RxIndex : rxDesc[i] = "dma" }

\* The handler's index and the DMA never get out of step (NetworkInterface.c:228-316):
\* at most the handler's descriptor is armed, it is the one the DMA looks at, and a
\* pending interrupt finds a finished frame right behind the DMA.
RxRingInSync ==
  /\ \A i \in Armed : i = g_ui32RxDescIndex /\ i = macRx
  /\ rxInterrupt => /\ Armed = {}
                    /\ rxDesc[g_ui32RxDescIndex] \in {"good", "bad"}
                    /\ macRx = NextRx

\* The invariant of the path: no buffer is in two hands, none is lost but in the one error
\* path of xNetworkInterfaceOutput that releases nothing, the handler's post never fails,
\* and the handler looks where the DMA has written.
PathInv == TypeOK /\ OnePlace /\ RoomForFrame /\ RxRingInSync

Stalled == xNetworkUp /\ ~rxInterrupt /\ Armed = {}

\* Reception ends only when the handler found the pool at its threshold
\* (NetworkInterface.c:367-370), never by what is
\* received or how it is judged.  Nothing arms a descriptor after that.
StallsOnlyWhenStarved ==
  [][ (Stalled' /\ ~Stalled) => Cardinality(free) <= Threshold ]_vars

\* Every event is taken up and every spin on a transmit descriptor ends
\* (NetworkInterface.c:564-570): the IP task always comes back to its queue.
IpTaskReturns == (ipPc # "wait") ~> (ipPc = "wait")

\* The socket is bound: the wait of FreeRTOS_bind without a time limit
\* (FreeRTOS_Sockets.c:1011) ends.
BindEnds == (appPc = "binding") ~> bound

PlaceOf(b) ==
  IF b \in free THEN "pool"
  ELSE IF QueuedAt(b) # {} THEN "queue"
  ELSE IF ipBuf = b THEN "ip"
  ELSE IF b \in xWaitingPacketsList THEN "socket"
  ELSE IF appBuf = b THEN "app"
  ELSE IF b \in lost THEN "lost"
  ELSE "nowhere"

Custody == INSTANCE BufferCustody WITH place <- [b \in Buffer |-> PlaceOf(b)]

\* The network path implements the custody of buffers.
ImplementsCustody == Custody!Spec

\* "The network driver is responsible for freeing the network buffer after the packet
\* has been sent" (FreeRTOS_UDP_IP.c:237-238): no buffer is in the pool while the DMA
\* still has to send it.
FreedAfterSent == \A i \in TxIndex : txDesc[i] \notin free

\* "We own the receive descriptor so check to see if it contains a valid frame"
\* (NetworkInterface.c:251): only valid frames reach the IP task.
OnlyValidFrames ==
  \A i \in 1..Len(xNetworkEventQueue) : xNetworkEventQueue[i].valid

=============================================================================
