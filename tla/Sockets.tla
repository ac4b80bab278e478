------------------------------- MODULE Sockets -------------------------------
(* Tasks that wait for sockets (FreeRTOS_Sockets.c): binding to a port,      *)
(* receiving from UDP and TCP sockets, sending, and FreeRTOS_select on a set *)
(* of sockets, against the IP task, which serves their events and wakes them.*)
(*                                                                           *)
(* The IP task has the highest priority of the tasks (ipconfigIP_TASK_       *)
(* PRIORITY): they take a step only while it sleeps, but packets may come    *)
(* between any two of their steps.  TCP sockets are connected from the start *)
(* and stay open; listeners are TcpConnection's.                             *)
EXTENDS Naturals, Sequences, FiniteSets

CONSTANTS Udp, Tcp,     \* sockets
          Tasks,
          Owner,        \* the task that uses a socket
          Selector,     \* the task with the set of sockets
          Wants,        \* the bits it asks for at each socket
          Casts,        \* bound: the sockets that are used together
          MaxPort,      \* socketAUTO_PORT_ALLOCATION_MAX_NUMBER
          ResetPort,    \* socketAUTO_PORT_ALLOCATION_RESET_NUMBER
          Datagrams,    \* what packets hold
          MaxWaiting,   \* bound: packets that wait at a socket
          MaxTcp,       \* bound: pieces that wait at a TCP socket
          None          \* NULL

Sockets == Udp \cup Tcp
Ports == 1 .. MaxPort

ASSUME SocketsAssumption ==
    /\ Udp \cap Tcp = {} /\ None \notin Sockets /\ None \notin Seq(Datagrams)
    /\ Owner \in [Sockets -> Tasks] /\ Selector \in Tasks
    /\ Wants \in [Sockets -> SUBSET {"READ", "WRITE", "EXCEPT"}]
    /\ \A s \in Sockets : Wants[s] # {} => Owner[s] = Selector
    /\ IsFiniteSet(Sockets)
    /\ MaxPort \in Nat /\ ResetPort \in Ports
    /\ \A c \in Casts : ResetPort + Cardinality(c \cap Udp) <= MaxPort
    /\ Casts \subseteq SUBSET Sockets
    /\ MaxWaiting \in Nat /\ MaxTcp \in Nat

eSELECT_ALL == {"READ", "WRITE", "EXCEPT"}

VARIABLES
    sock,              \* the sockets
    usNextPortToUse,
    xSelectGroup,      \* the event group of the set of sockets
    queue,             \* events for the IP task
    task,              \* where each task is: [at, s, call]
    cast               \* the sockets that are used

vars == <<sock, usNextPortToUse, xSelectGroup, queue, task, cast>>

\* A UDP socket before FreeRTOS_socket and after vSocketClose, and with open
\* as FreeRTOS_socket returns it.
Blank == [open |-> FALSE, bound |-> FALSE, usLocalPort |-> 0, waiting |-> <<>>,
          state |-> "eCLOSED", txSpace |-> FALSE, bConnPassed |-> FALSE,
          xSelectBits |-> {}, inSet |-> FALSE, xSocketBits |-> {},
          xEventBits |-> {}, xEventGroup |-> {}]

Connected == [Blank EXCEPT !.open = TRUE, !.bound = TRUE, !.txSpace = TRUE,
                           !.state = "eESTABLISHED"]

Init ==
    /\ cast \in Casts
    /\ sock = [s \in Sockets |-> IF s \in cast \ Udp THEN Connected ELSE Blank]
    /\ usNextPortToUse \in {ResetPort}
    /\ xSelectGroup = {}
    /\ queue = <<>>
    /\ task = [t \in Tasks |-> [at |-> "idle", s |-> None, call |-> ""]]

-----------------------------------------------------------------------------
(* The IP task.                                                              *)

BoundUdp == {s \in Udp : sock[s].bound}

\* pxListFindListItemWithValue: the port is that of a bound socket
InUse(p) == \E s \in BoundUdp : sock[s].usLocalPort = p

\* prvGetPrivatePortNumber goes through the range, and once around it: it does
\* not come back if no port is free.
prvGetPrivatePortNumber ==
    LET free == {p \in Ports : p < MaxPort /\ ~ InUse(p)}
        ahead == {p \in free : p > usNextPortToUse}
        again == {p \in free : p >= ResetPort}
        first(S) == {p \in S : \A q \in S : p <= q}
    IN  IF ahead # {} THEN first(ahead) ELSE first(again)

\* vSocketWakeUpUser, for what is due to a socket's task
Woken(c) ==
    [c EXCEPT !.xSocketBits = IF c.inSet THEN @ \cup (c.xEventBits \cap eSELECT_ALL) ELSE @,
              !.xEventGroup = @ \cup (c.xEventBits \ eSELECT_ALL),
              !.xEventBits = {}]

\* xProcessReceivedUDPPacket, once pxUDPSocketLookup has found a socket
xProcessReceivedUDPPacket(p, d) ==
    \E s \in BoundUdp :
        /\ sock[s].usLocalPort = p /\ Len(sock[s].waiting) < MaxWaiting
        /\ sock' = [sock EXCEPT ![s].waiting = Append(@, d),
                                ![s].xEventGroup = @ \cup {"RECEIVE"}]
        /\ xSelectGroup' = IF sock[s].inSet /\ "READ" \in sock[s].xSelectBits
                           THEN xSelectGroup \cup {"READ"} ELSE xSelectGroup
        /\ UNCHANGED <<usNextPortToUse, queue, task>>

IsEvent(type) == queue # <<>> /\ Head(queue).type = type

\* A slip: the port is not looked for among those in use.
PortTakenUnchecked(p) == FALSE

\* vSocketBind finds the port it shall bind to in use
PortTaken(p) == InUse(p)

\* What vSocketBind makes of a socket that asks for a port
vSocketBind(s, p) ==
    Woken([sock[s] EXCEPT !.bound = ~ PortTaken(p),
                          !.usLocalPort = IF PortTaken(p) THEN 0 ELSE p,
                          !.xEventBits = @ \cup {"BOUND"}])

\* eSocketBindEvent; the number of the port comes in the socket, 0 for any.
HandleBind ==
    /\ IsEvent("eSocketBindEvent")
    /\ queue' = Tail(queue)
    /\ \E s \in {Head(queue).s} :
       \E asked \in {sock[s].usLocalPort} :
       \E p \in IF asked = 0 THEN prvGetPrivatePortNumber ELSE {asked} :
          /\ sock' = [sock EXCEPT ![s] = vSocketBind(s, p)]
          /\ usNextPortToUse' = IF asked = 0 THEN p ELSE usNextPortToUse
    /\ UNCHANGED <<xSelectGroup, task>>

\* eSocketCloseEvent and vSocketClose, which releases the packets that wait
HandleClose ==
    /\ IsEvent("eSocketCloseEvent")
    /\ queue' = Tail(queue)
    /\ sock' = [sock EXCEPT ![Head(queue).s] = Blank]
    /\ UNCHANGED <<usNextPortToUse, xSelectGroup, task>>

\* A slip: bits that were found before are kept.
ReadyKept(s) ==
    LET c == sock[s]
    IN  {b \in c.xSelectBits :
            \/ b \in c.xSocketBits
            \/ b = "READ" /\ c.waiting # <<>>
            \/ b = "WRITE" /\ s \in Tcp
                 /\ (c.txSpace \/ (c.state # "eCLOSED" /\ ~ c.bConnPassed))
            \/ b = "EXCEPT" /\ s \in Tcp /\ c.state # "eESTABLISHED"}

\* What vSocketSelect finds true of a socket: space to write counts, and so
\* does, once, that it has connected.
Ready(s) ==
    LET c == sock[s]
    IN  {b \in c.xSelectBits :
            \/ b = "READ" /\ c.waiting # <<>>
            \/ b = "WRITE" /\ s \in Tcp
                 /\ (c.txSpace \/ (c.state # "eCLOSED" /\ ~ c.bConnPassed))
            \/ b = "EXCEPT" /\ s \in Tcp /\ c.state # "eESTABLISHED"}

InSet == {s \in Sockets : sock[s].bound /\ sock[s].inSet}

SelectBits == UNION {Ready(s) : s \in InSet}

\* A slip: the question stays in the queue until a bit is found.
vSocketSelectUntilFound ==
    /\ IsEvent("eSocketSelectEvent")
    /\ queue' = IF SelectBits = {} THEN queue ELSE Tail(queue)
    /\ sock' = [s \in Sockets |->
                  IF s \in InSet THEN [sock[s] EXCEPT !.xSocketBits = Ready(s)] ELSE sock[s]]
    /\ xSelectGroup' = IF SelectBits = {} THEN {} ELSE SelectBits \cup {"CALL_IP"}
    /\ UNCHANGED <<usNextPortToUse, task>>

\* eSocketSelectEvent and vSocketSelect
vSocketSelect ==
    /\ IsEvent("eSocketSelectEvent")
    /\ queue' = Tail(queue)
    /\ sock' = [s \in Sockets |->
                  IF s \in InSet
                  THEN [sock[s] EXCEPT
                          !.xSocketBits = Ready(s),
                          !.bConnPassed = @ \/ ("WRITE" \in Ready(s) /\ ~ sock[s].txSpace)]
                  ELSE sock[s]]
    /\ xSelectGroup' = SelectBits \cup {"CALL_IP"}
    /\ UNCHANGED <<usNextPortToUse, task>>

\* A slip: the bits take the place of those left before.
LeftAlone(c, event, select) ==
    [c EXCEPT !.xEventBits = {event} \cup (c.xSelectBits \cap {select})]

\* Packets for a TCP socket: lTCPAddRxdata, prvHandleEstablished and
\* vTCPStateChange leave bits for its task ...
Left(c, event, select) ==
    [c EXCEPT !.xEventBits = @ \cup {event} \cup (c.xSelectBits \cap {select})]

TcpData(s, d) ==
    /\ s \in Tcp /\ sock[s].state = "eESTABLISHED" /\ Len(sock[s].waiting) < MaxTcp
    /\ sock' = [sock EXCEPT ![s] =
                  Left([sock[s] EXCEPT !.waiting = Append(@, d)], "RECEIVE", "READ")]
    /\ UNCHANGED <<usNextPortToUse, xSelectGroup, queue, task>>

TcpAcked(s) ==
    /\ s \in Tcp /\ sock[s].state = "eESTABLISHED" /\ ~ sock[s].txSpace
    /\ sock' = [sock EXCEPT ![s] = Left([sock[s] EXCEPT !.txSpace = TRUE], "SEND", "WRITE")]
    /\ UNCHANGED <<usNextPortToUse, xSelectGroup, queue, task>>

TcpCloses(s, state) ==
    /\ s \in Tcp /\ sock[s].state = "eESTABLISHED"
    /\ sock' = [sock EXCEPT ![s] = Left([sock[s] EXCEPT !.state = state], "CLOSED", "EXCEPT")]
    /\ UNCHANGED <<usNextPortToUse, xSelectGroup, queue, task>>

\* ... which it gets before the IP task sleeps (prvCheckNetworkTimers and
\* xTCPTimerCheck).
xTCPTimerCheck(s) ==
    /\ queue = <<>> /\ sock[s].xEventBits # {}
    /\ sock' = [sock EXCEPT ![s] = Woken(@)]
    /\ xSelectGroup' = IF sock[s].inSet
                       THEN xSelectGroup \cup (sock[s].xEventBits \cap eSELECT_ALL)
                       ELSE xSelectGroup
    /\ UNCHANGED <<usNextPortToUse, queue, task>>

Serve == HandleBind \/ HandleClose \/ vSocketSelect \/ \E s \in Tcp : xTCPTimerCheck(s)

Packets == \/ \E p \in Ports, d \in Datagrams : xProcessReceivedUDPPacket(p, d)
           \/ \E s \in Tcp : \/ \E d \in Datagrams : TcpData(s, d)
                             \/ TcpAcked(s)
                             \/ \E state \in {"eCLOSED", "eCLOSE_WAIT"} : TcpCloses(s, state)

-----------------------------------------------------------------------------
(* The tasks.                                                                *)

Asleep == queue = <<>> /\ \A s \in Sockets : sock[s].xEventBits = {}

At(t, at) == Asleep /\ task[t].at = at

Goes(t, at) == task' = [task EXCEPT ![t].at = at]

Returns(t) == task' = [task EXCEPT ![t] = [at |-> "idle", s |-> None, call |-> ""]]

Calls(t, at, s) == /\ At(t, "idle") /\ Owner[s] = t /\ sock[s].open
                   /\ task' = [task EXCEPT ![t].at = at, ![t].s = s]

Posts(type, s) == queue' = Append(queue, [type |-> type, s |-> s])

\* FreeRTOS_socket
FreeRTOS_socket(t, s) ==
    /\ At(t, "idle") /\ s \in Udp \cap cast /\ Owner[s] = t /\ ~ sock[s].open
    /\ sock' = [sock EXCEPT ![s] = [Blank EXCEPT !.open = TRUE]]
    /\ UNCHANGED <<usNextPortToUse, xSelectGroup, queue, task>>

\* FreeRTOS_bind; port 0 asks for any.
FreeRTOS_bind(t, s, p) ==
    /\ Calls(t, "bind", s) /\ ~ sock[s].bound
    /\ sock' = [sock EXCEPT ![s].usLocalPort = p]
    /\ Posts("eSocketBindEvent", s)
    /\ UNCHANGED <<usNextPortToUse, xSelectGroup>>

BindReturns(t) ==
    /\ At(t, "bind") /\ "BOUND" \in sock[task[t].s].xEventGroup
    /\ sock' = [sock EXCEPT ![task[t].s].xEventGroup = @ \ {"BOUND"}]
    /\ Returns(t)
    /\ UNCHANGED <<usNextPortToUse, xSelectGroup, queue>>

\* FreeRTOS_closesocket
FreeRTOS_closesocket(t, s) ==
    /\ At(t, "idle") /\ s \in Udp /\ Owner[s] = t /\ sock[s].open
    /\ Posts("eSocketCloseEvent", s)
    /\ UNCHANGED <<sock, usNextPortToUse, xSelectGroup, task>>

\* FreeRTOS_recvfrom and FreeRTOS_recv look first.
Looked(s) == IF sock[s].waiting # <<>> THEN "take" ELSE IF s \in Udp THEN "none" ELSE "state"

FreeRTOS_recvfrom(t, s) ==
    /\ s \in Udp /\ sock[s].bound
    /\ Calls(t, Looked(s), s)
    /\ UNCHANGED <<sock, usNextPortToUse, xSelectGroup, queue>>

FreeRTOS_recv(t, s) ==
    /\ s \in Tcp
    /\ Calls(t, Looked(s), s)
    /\ UNCHANGED <<sock, usNextPortToUse, xSelectGroup, queue>>

\* A slip: the packet that came last is taken.
TakeLast(t) ==
    /\ At(t, "take")
    /\ sock' = [sock EXCEPT ![task[t].s].waiting = SubSeq(@, 1, Len(@) - 1)]
    /\ Returns(t)
    /\ UNCHANGED <<usNextPortToUse, xSelectGroup, queue>>

\* What was found is taken.
Take(t) ==
    /\ At(t, "take")
    /\ sock' = [sock EXCEPT ![task[t].s].waiting = Tail(@)]
    /\ Returns(t)
    /\ UNCHANGED <<usNextPortToUse, xSelectGroup, queue>>

\* FreeRTOS_recv looks at the state when it has found nothing.
CheckState(t) ==
    /\ At(t, "state")
    /\ Goes(t, IF sock[task[t].s].state = "eESTABLISHED" THEN "none" ELSE "closed")
    /\ UNCHANGED <<sock, usNextPortToUse, xSelectGroup, queue>>

\* There is nothing: it waits, or returns if it shall not or the time is over.
WaitOn(t) ==
    /\ At(t, "none")
    /\ Goes(t, "wait")
    /\ UNCHANGED <<sock, usNextPortToUse, xSelectGroup, queue>>

ReturnsEmpty(t) ==
    /\ \/ At(t, "none") \/ At(t, "closed") \/ At(t, "noSpace")
    /\ Returns(t)
    /\ UNCHANGED <<sock, usNextPortToUse, xSelectGroup, queue>>

\* The wait ends with a bit, which is cleared, or without; then it looks again.
Awaited(at) == CASE at = "wait" -> {"RECEIVE", "CLOSED"}
                 [] at = "sendWait" -> {"SEND", "CLOSED"}

Wakes(t) ==
    /\ \/ At(t, "wait") \/ At(t, "sendWait")
    /\ \E s \in {task[t].s}, bits \in {Awaited(task[t].at)} :
          /\ bits \cap sock[s].xEventGroup # {}
          /\ sock' = [sock EXCEPT ![s].xEventGroup = @ \ bits]
    /\ Goes(t, IF task[t].at = "wait" THEN "again" ELSE "space")
    /\ UNCHANGED <<usNextPortToUse, xSelectGroup, queue>>

TimesOut(t) ==
    /\ \/ At(t, "wait") \/ At(t, "sendWait")
    /\ Goes(t, IF task[t].at = "wait" THEN "again" ELSE "space")
    /\ UNCHANGED <<sock, usNextPortToUse, xSelectGroup, queue>>

LooksAgain(t) ==
    /\ At(t, "again")
    /\ Goes(t, Looked(task[t].s))
    /\ UNCHANGED <<sock, usNextPortToUse, xSelectGroup, queue>>

\* prvTCPSendCheck
prvTCPSendCheck(s) == s \in Tcp /\ sock[s].bound /\ sock[s].state # "eCLOSED"

\* FreeRTOS_send
FreeRTOS_send(t, s) ==
    /\ prvTCPSendCheck(s)
    /\ Calls(t, "space", s)
    /\ UNCHANGED <<sock, usNextPortToUse, xSelectGroup, queue>>

\* What fits goes into the stream; if that is not all, it is full.
Sends(t) ==
    /\ At(t, "space")
    /\ \E s \in {task[t].s} :
          \/ /\ sock[s].txSpace
             /\ \E left \in BOOLEAN : sock' = [sock EXCEPT ![s].txSpace = left]
             /\ Returns(t)
          \/ /\ sock' = [sock EXCEPT ![s].txSpace = FALSE]
             /\ Goes(t, "noSpace")
    /\ UNCHANGED <<usNextPortToUse, xSelectGroup, queue>>

SendWaits(t) ==
    /\ At(t, "noSpace")
    /\ Goes(t, "sendWait")
    /\ UNCHANGED <<sock, usNextPortToUse, xSelectGroup, queue>>

-----------------------------------------------------------------------------
(* FreeRTOS_select.                                                          *)

\* FreeRTOS_FD_SET, which has the IP task look at once,
FreeRTOS_FD_SET(s) ==
    /\ At(Selector, "idle") /\ Wants[s] # {} /\ sock[s].open
    /\ sock' = [sock EXCEPT ![s].xSelectBits = @ \cup Wants[s], ![s].inSet = TRUE]
    /\ task' = [task EXCEPT ![Selector].at = "ask", ![Selector].call = "set"]
    /\ UNCHANGED <<usNextPortToUse, xSelectGroup, queue>>

\* FreeRTOS_FD_CLR,
FreeRTOS_FD_CLR(s, bits) ==
    /\ At(Selector, "idle") /\ sock[s].inSet
    /\ sock' = [sock EXCEPT ![s].xSelectBits = @ \ bits,
                            ![s].inSet = sock[s].xSelectBits \ bits # {}]
    /\ UNCHANGED <<usNextPortToUse, xSelectGroup, queue, task>>

\* FreeRTOS_select waits for a bit of the set, or for the time to pass.
FreeRTOS_select ==
    /\ At(Selector, "idle") /\ InSet # {}
    /\ task' = [task EXCEPT ![Selector].at = "select", ![Selector].call = "select"]
    /\ UNCHANGED <<sock, usNextPortToUse, xSelectGroup, queue>>

SelectWakes ==
    /\ At(Selector, "select") /\ xSelectGroup \cap eSELECT_ALL # {}
    /\ Goes(Selector, "ask")
    /\ UNCHANGED <<sock, usNextPortToUse, xSelectGroup, queue>>

SelectTimesOut ==
    /\ At(Selector, "select")
    /\ Goes(Selector, "ask")
    /\ UNCHANGED <<sock, usNextPortToUse, xSelectGroup, queue>>

\* prvFindSelectedSocket
Ask ==
    /\ At(Selector, "ask")
    /\ xSelectGroup' = xSelectGroup \ {"CALL_IP"}
    /\ Goes(Selector, "post")
    /\ UNCHANGED <<sock, usNextPortToUse, queue>>

PostSelect ==
    /\ At(Selector, "post")
    /\ Posts("eSocketSelectEvent", None)
    /\ Goes(Selector, "answer")
    /\ UNCHANGED <<sock, usNextPortToUse, xSelectGroup>>

Answered ==
    /\ At(Selector, "answer") /\ "CALL_IP" \in xSelectGroup
    /\ xSelectGroup' = xSelectGroup \ {"CALL_IP"}
    /\ IF task[Selector].call = "set" THEN Returns(Selector) ELSE Goes(Selector, "bits")
    /\ UNCHANGED <<sock, usNextPortToUse, queue>>

\* The bits are looked at again; with none it waits on or returns.
SelectReturns ==
    /\ At(Selector, "bits")
    /\ IF xSelectGroup # {}
       THEN Goes(Selector, "look")
       ELSE Returns(Selector) \/ Goes(Selector, "select")
    /\ UNCHANGED <<sock, usNextPortToUse, xSelectGroup, queue>>

\* The task asks with FreeRTOS_FD_ISSET and reads once from a socket that
\* is ready.
FreeRTOS_FD_ISSET(s) == IF sock[s].inSet THEN sock[s].xSocketBits \cap eSELECT_ALL ELSE {}

Look(s) ==
    /\ At(Selector, "look") /\ "READ" \in FreeRTOS_FD_ISSET(s)
    /\ task' = [task EXCEPT ![Selector].at = "read", ![Selector].s = s]
    /\ UNCHANGED <<sock, usNextPortToUse, xSelectGroup, queue>>

ReadReady ==
    /\ At(Selector, "read")
    /\ sock' = [sock EXCEPT ![task[Selector].s].waiting = IF @ = <<>> THEN @ ELSE Tail(@)]
    /\ Returns(Selector)
    /\ UNCHANGED <<usNextPortToUse, xSelectGroup, queue>>

LookedAtAll ==
    /\ At(Selector, "look")
    /\ Returns(Selector)
    /\ UNCHANGED <<sock, usNextPortToUse, xSelectGroup, queue>>

-----------------------------------------------------------------------------
Work(t) == \/ BindReturns(t) \/ Take(t) \/ CheckState(t) \/ Wakes(t) \/ LooksAgain(t)
           \/ Sends(t)

Selecting == SelectWakes \/ Ask \/ PostSelect \/ Answered

TaskNext == \E t \in Tasks :
    \/ Work(t) \/ WaitOn(t) \/ SendWaits(t) \/ ReturnsEmpty(t) \/ TimesOut(t)
    \/ \E s \in Sockets :
          \/ FreeRTOS_socket(t, s) \/ FreeRTOS_closesocket(t, s)
          \/ \E p \in 0 .. MaxPort - 1 : FreeRTOS_bind(t, s, p)
          \/ FreeRTOS_recvfrom(t, s) \/ FreeRTOS_recv(t, s) \/ FreeRTOS_send(t, s)

SelectNext ==
    \/ Selecting \/ FreeRTOS_select \/ SelectTimesOut \/ SelectReturns
    \/ ReadReady \/ LookedAtAll
    \/ \E s \in Sockets :
          \/ Look(s)
          \/ FreeRTOS_FD_SET(s)
          \/ \E b \in {Wants[s]} : FreeRTOS_FD_CLR(s, b)

Next == (Serve \/ Packets \/ TaskNext \/ SelectNext) /\ UNCHANGED cast

(* The IP task serves its events and sleeps again and again, and each task   *)
(* has its turn while it does: none of the tasks of the program works        *)
(* without ever waiting.  Nothing is assumed of packets and time limits.     *)
Steps(t) == (Work(t) \/ (t = Selector /\ Selecting)) /\ UNCHANGED cast

Fairness == WF_vars(Serve /\ UNCHANGED cast) /\ \A t \in Tasks : SF_vars(Steps(t))

Spec == Init /\ [][Next]_vars /\ Fairness

-----------------------------------------------------------------------------
(* Properties.                                                               *)

\* Two bound UDP sockets never share a port, whoever asked for it and whether
\* it was asked for or given: what arrives has one receiver.
PortsAreUnique ==
    \A s, r \in BoundUdp : sock[s].usLocalPort = sock[r].usLocalPort => s = r

\* A task that sleeps in FreeRTOS_recvfrom, FreeRTOS_recv, FreeRTOS_send or
\* FreeRTOS_select while what it waits for is there has a bit that wakes it,
\* or the IP task has still to pass one on.
NobodyOversleeps ==
    Asleep =>
    /\ \A t \in Tasks : LET c == sock[task[t].s] IN
          /\ task[t].at = "wait" /\ (c.waiting # <<>> \/ (task[t].s \in Tcp /\ c.state # "eESTABLISHED"))
                => {"RECEIVE", "CLOSED"} \cap c.xEventGroup # {}
          /\ task[t].at = "sendWait" /\ c.txSpace => "SEND" \in c.xEventGroup
    /\ task[Selector].at = "select" =>
          \A s \in InSet : Ready(s) \subseteq xSelectGroup

\* A socket that FreeRTOS_FD_ISSET tells to be readable has something to read:
\* a task that reads from it does not block.
ReadableHasData ==
    task[Selector].at = "read" => sock[task[Selector].s].waiting # <<>>

\* FreeRTOS_bind, FreeRTOS_FD_SET and the question of FreeRTOS_select wait
\* without a time limit, and are answered.
Asking(t) == task[t].at \in {"bind", "ask", "post", "answer"}

QuestionsAreAnswered == \A t \in Tasks : Asking(t) ~> ~ Asking(t)

Boxes == INSTANCE Mailboxes WITH
    Ports <- Ports, Datagrams <- Datagrams, Nobody <- None,
    box <- [p \in Ports |-> IF InUse(p)
                            THEN sock[CHOOSE s \in BoundUdp : sock[s].usLocalPort = p].waiting
                            ELSE None]

\* Each bound UDP socket is the mailbox of its port: datagrams come out once
\* and in order, and closing one socket leaves those of the others alone.
ImplementsMailboxes == Boxes!Spec
-----------------------------------------------------------------------------
(* What the waits rest on: the inductive invariant of Sockets_proofs.        *)

Bits == eSELECT_ALL \cup {"RECEIVE", "SEND", "CLOSED", "BOUND"}

Socket == [open : BOOLEAN, bound : BOOLEAN, usLocalPort : Nat,
           waiting : Seq(Datagrams),
           state : {"eESTABLISHED", "eCLOSED", "eCLOSE_WAIT"},
           txSpace : BOOLEAN, bConnPassed : BOOLEAN,
           xSelectBits : SUBSET eSELECT_ALL, inSet : BOOLEAN,
           xSocketBits : SUBSET eSELECT_ALL,
           xEventBits : SUBSET Bits, xEventGroup : SUBSET Bits]

Event == [type : {"eSocketBindEvent", "eSocketCloseEvent", "eSocketSelectEvent"},
          s : Sockets \cup {None}]

\* Where a task holds a socket of its own,
Using == {"bind", "take", "none", "state", "closed", "wait", "again", "space",
          "noSpace", "sendWait", "read"}

\* and where it asks for the set.
Selects == {"ask", "post", "answer", "bits", "select", "look"}

TypeOK ==
    /\ sock \in [Sockets -> Socket]
    /\ xSelectGroup \subseteq eSELECT_ALL \cup {"CALL_IP"}
    /\ queue \in Seq(Event)
    /\ task \in [Tasks -> [at : {"idle"} \cup Using \cup Selects,
                           s : Sockets \cup {None},
                           call : {"", "set", "select"}]]

\* A socket without a port is empty, and one with a port is open; a UDP socket leaves nothing for later.
SocketOK(s) ==
    /\ ~ sock[s].bound => /\ sock[s].waiting = <<>>
                          /\ sock[s].xEventBits = {} /\ sock[s].xSocketBits = {}
                          /\ sock[s].state = "eCLOSED"
    /\ s \in Udp => sock[s].xEventBits = {}
    /\ sock[s].bound => sock[s].open
    /\ s \in Tcp /\ sock[s].open => sock[s].bound
    /\ "READ" \in sock[s].xEventBits => sock[s].waiting # <<>>
    /\ sock[s].inSet => Wants[s] # {}

\* One event waits at most, and its owner waits for it to be served.
QueueOK ==
    /\ Len(queue) <= 1
    /\ IsEvent("eSocketBindEvent")
          => Head(queue).s \in Udp /\ ~ sock[Head(queue).s].bound /\ sock[Head(queue).s].open
    /\ IsEvent("eSocketCloseEvent")
          => Head(queue).s \in Udp /\ task[Owner[Head(queue).s]].at = "idle"

\* The bits that a socket's task finds, or will find before it runs
Due(s) == sock[s].xEventGroup \cup sock[s].xEventBits

\* A task that has looked at a socket and found nothing finds a bit for all
\* that has come since.
TaskOK(t) ==
    LET at == task[t].at
        s == task[t].s
    IN  /\ at \in Using => s \in Sockets /\ Owner[s] = t
        /\ at \in {"space", "noSpace", "sendWait"} => s \in Tcp
        /\ at \in {"take", "read"} => sock[s].waiting # <<>>
        /\ at \in {"none", "state", "wait"} /\ sock[s].waiting # <<>> => "RECEIVE" \in Due(s)
        /\ at \in {"none", "wait"} /\ s \in Tcp /\ sock[s].state # "eESTABLISHED"
              => "CLOSED" \in Due(s)
        /\ at \in {"noSpace", "sendWait"} /\ sock[s].txSpace => "SEND" \in Due(s)

\* Unless it is still to be asked, the set tells what is true of its sockets,
\* and what it tells when it has answered is true.
SelectOK ==
    /\ task[Selector].at \notin {"ask", "post"} /\ ~ IsEvent("eSocketSelectEvent")
          => \A s \in InSet : Ready(s) \subseteq xSelectGroup \cup sock[s].xEventBits
    /\ (\/ task[Selector].at \in {"bits", "look"}
        \/ task[Selector].at = "answer" /\ ~ IsEvent("eSocketSelectEvent"))
          => \A s \in Sockets : (sock[s].inSet /\ "READ" \in sock[s].xSocketBits)
                               => sock[s].waiting # <<>>

IInv ==
    /\ TypeOK
    /\ \A s \in Sockets : SocketOK(s)
    /\ QueueOK
    /\ \A t \in Tasks : TaskOK(t)
    /\ SelectOK
    /\ PortsAreUnique
=============================================================================
