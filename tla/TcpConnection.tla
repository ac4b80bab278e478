--------------------------- MODULE TcpConnection ----------------------------
(* The life of TCP connections: a listening socket whose children come from  *)
(* remote peers and are passed to the task that calls FreeRTOS_accept, and a *)
(* task that connects to a server.  The IP task changes the states of the    *)
(* sockets (FreeRTOS_TCP_IP.c), the tasks call the API (FreeRTOS_Sockets.c)  *)
(* and its queue of events lies between them.                                *)
(*                                                                           *)
(* Peers are external and send anything at any time, so that lost, late and  *)
(* repeated packets need no network of their own.  What the numbers of a     *)
(* packet say is a choice; TcpReceive and TcpTransmit model them.            *)
EXTENDS FiniteSets, Sequences, SequencesExt, Integers

CONSTANTS Sockets,        \* the structures FreeRTOS_socket can allocate
          Peers,          \* remote address and port of the clients
          Server,         \* and of the server the other task connects to
          None,           \* NULL
          Backlog,        \* usBacklog
          QueueLength,    \* ipconfigEVENT_QUEUE_LENGTH
          ConnectRepeats, \* SYN packets and ARP requests before it gives up
          Tasks,          \* which task runs, "server" or "client"; each
                          \* has a port of its own
          ListenerCloses  \* whether the server task closes its listener

ASSUME ConnectionAssumption ==
    /\ IsFiniteSet(Sockets) /\ None \notin Sockets
    /\ Server \notin Peers
    /\ Backlog \in Nat /\ QueueLength \in Nat \ {0}
    /\ ConnectRepeats \in Nat \ {0}
    /\ Tasks \subseteq {"server", "client"}
    /\ ListenerCloses \in BOOLEAN

States == {"eCLOSED", "eCONNECT_SYN", "eSYN_RECEIVED", "eESTABLISHED",
           "eFIN_WAIT_1", "eLAST_ACK", "eCLOSE_WAIT"}

VARIABLES
    sock,     \* u.xTCP of every socket
    bound,    \* xBoundTCPSocketsList, without the listener
    listener, \* the listening socket
    queue,    \* events for the IP task
    server,   \* where the task is that accepts: [at]
    client,   \* where the task is that connects: [at, s]
    owned     \* the sockets the tasks have got and not closed

vars == <<sock, bound, listener, queue, server, client, owned>>

\* A socket as FreeRTOS_socket returns it.
Blank ==
    [state |-> "eCLOSED", remote |-> None, pxPeerSocket |-> FALSE,
     bPassQueued |-> FALSE, bPassAccept |-> FALSE, bUserShutdown |-> FALSE,
     bFinSent |-> FALSE, bFinRecv |-> FALSE, bFinAcked |-> FALSE,
     bFinAccepted |-> FALSE, bConnPrepared |-> FALSE, ucRepCount |-> 0,
     eventBits |-> FALSE, eventGroup |-> FALSE]

Init ==
    /\ sock = [s \in Sockets |-> Blank]
    /\ bound = <<>>
    /\ listener = [state |-> "eCLOSED", usChildCount |-> 0,
                   pxPeerSocket |-> None, eventGroup |-> FALSE]
    /\ queue = <<>>
    /\ \E task \in Tasks :
          /\ server = IF task = "server" THEN "idle" ELSE "none"
          /\ client = [at |-> IF task = "client" THEN "idle" ELSE "none", s |-> None]
    /\ owned = {}

-----------------------------------------------------------------------------
(* What the IP task does to a world: the sockets, their list, the listener   *)
(* and the queue of events.                                                  *)

World == [sock |-> sock, bound |-> bound, listener |-> listener, queue |-> queue]

Becomes(w) == /\ sock' = w.sock /\ bound' = w.bound
              /\ listener' = w.listener /\ queue' = w.queue

Bound == Range(bound)
Free == Sockets \ Bound
NextFree == {CHOOSE s \in Free : TRUE : t \in Free}  \* any one, if there is one

NOW_CONNECTED(state) == state \in {"eESTABLISHED", "eFIN_WAIT_1", "eLAST_ACK"}

prvTCPSocketIsActive(state) == state \notin {"eCLOSED", "eCLOSE_WAIT"}

\* FreeRTOS_closesocket: an event without a wait; it may find the queue full.
CloseEvent(s) == [type |-> "eSocketCloseEvent", s |-> s]
FreeRTOS_closesocket(w, s) ==
    IF Len(w.queue) < QueueLength
    THEN [w EXCEPT !.queue = Append(@, CloseEvent(s))]
    ELSE w

\* A slip: the new child is offered even if one is waiting to be accepted.
vTCPStateChangeOverwrites(w, s, state) ==
    LET c == w.sock[s]
        up == NOW_CONNECTED(state) /\ ~ NOW_CONNECTED(c.state)
    IN  IF up /\ c.bPassQueued
        THEN [w EXCEPT !.sock[s] = [c EXCEPT !.state = state,
                            !.pxPeerSocket = FALSE, !.bPassQueued = FALSE],
                       !.listener.pxPeerSocket = s,
                       !.listener.eventGroup = TRUE]
        ELSE [w EXCEPT !.sock[s].state = state,
                       !.sock[s].eventBits = @ \/ up]

\* The listener l has a child to offer; the first one stays.
Told(l, s) == [l EXCEPT !.pxPeerSocket = IF @ = None THEN s ELSE @, !.eventGroup = TRUE]

\* vTCPStateChange.  A child that connects is offered to the listener it came
\* from; when that is gone, what is written there is nobody's.
vTCPStateChange(w, s, state) ==
    LET c == w.sock[s]
        up == NOW_CONNECTED(state) /\ ~ NOW_CONNECTED(c.state)
        offer == up /\ c.bPassQueued
        given == IF /\ state = "eCLOSED" /\ ~ NOW_CONNECTED(c.state)
                    /\ c.bPassQueued \/ c.bPassAccept
                 THEN FreeRTOS_closesocket(w, s) ELSE w
    IN  [given EXCEPT
            !.sock[s] = [c EXCEPT !.state = state,
                                  !.pxPeerSocket = @ /\ ~ offer,
                                  !.bPassQueued = @ /\ ~ offer,
                                  !.bPassAccept = @ \/ offer,
                                  !.eventBits = @ \/ (up /\ ~ offer)],
            !.listener = IF offer /\ @.state # "freed" THEN Told(@, s) ELSE @]

\* A slip: a socket that is closed stays counted.
vSocketCloseUncounted(w, s) == [w EXCEPT !.bound = RemoveFirst(@, s),
                                         !.sock[s] = Blank]

\* vSocketClose and prvTCPSetSocketCount, for a child or the client's socket
vSocketClose(w, s) ==
    [w EXCEPT
        !.bound = RemoveFirst(@, s),
        !.sock[s] = Blank,
        !.listener.usChildCount =
            IF w.listener.state = "eTCP_LISTEN" /\ w.sock[s].remote # Server /\ @ > 0
            THEN @ - 1 ELSE @]

\* prvTCPPrepareSend as far as the state goes: txDone says that everything
\* was acknowledged, silent that ucKeepRepCount is above 3.
prvTCPPrepareSend(w, s, txDone, silent) ==
    LET c == w.sock[s]
        fin == c.state = "eESTABLISHED" /\ c.bUserShutdown /\ txDone
        sent == IF fin
                THEN vTCPStateChange([w EXCEPT !.sock[s] =
                                         [c EXCEPT !.bUserShutdown = FALSE, !.bFinSent = TRUE]],
                                     s, "eFIN_WAIT_1")
                ELSE w
    IN  IF c.state = "eESTABLISHED" /\ silent
        THEN vTCPStateChange(sent, s, "eCLOSE_WAIT") ELSE sent

-----------------------------------------------------------------------------
(* Received packets.                                                         *)

\* pxTCPSocketLookup among the sockets that do not listen
Lookup(p) == LET found == {s \in Bound : sock[s].remote = p}
             IN  IF found = {} THEN None ELSE CHOOSE s \in found : TRUE

\* prvHandleListen and prvTCPSocketCopy, then prvTCPHandleState for the SYN
prvHandleListen(p) ==
    /\ p \in Peers /\ Lookup(p) = None
    /\ listener.state = "eTCP_LISTEN"
    /\ listener.usChildCount < Backlog
    /\ \E s \in NextFree :
          /\ sock' = [sock EXCEPT ![s] =
                [Blank EXCEPT !.remote = p, !.bPassQueued = TRUE,
                              !.pxPeerSocket = TRUE, !.state = "eSYN_RECEIVED"]]
          /\ bound' = Append(bound, s)
    /\ listener' = [listener EXCEPT !.usChildCount = @ + 1]
    /\ UNCHANGED <<queue, server, client, owned>>

Flags == {{"SYN"}, {"ACK"}, {"SYN", "ACK"}, {"FIN", "ACK"}, {"RST"}}

\* prvTCPHandleFin.  acksFin: the packet acknowledges our FIN.
prvTCPHandleFin(w, s, acksFin) ==
    LET c == w.sock[s]
        acked == c.bFinAcked \/ (c.bFinSent /\ acksFin)
        v == [w EXCEPT !.sock[s] = [c EXCEPT !.bFinSent = TRUE, !.bFinAcked = acked]]
    IN  CASE ~ acked -> vTCPStateChange(v, s, "eLAST_ACK")
          [] acked /\ ~ c.bFinRecv -> v
          [] acked /\ c.bFinRecv -> vTCPStateChange(v, s, "eCLOSE_WAIT")

\* prvHandleSynReceived: anything but the packet that is due ends it.
prvHandleSynReceived(w, s, flags) ==
    LET usExpect == IF w.sock[s].state = "eCONNECT_SYN" THEN {"SYN", "ACK"} ELSE {"ACK"}
    IN  vTCPStateChange(w, s, IF flags = usExpect THEN "eESTABLISHED" ELSE "eCLOSE_WAIT")

\* prvHandleEstablished.  all: everything was received and acknowledged.
prvHandleEstablished(w, s, flags, acksFin, txDone, all) ==
    LET c == w.sock[s]
    IN  IF (c.bFinAccepted \/ "FIN" \in flags) /\ (c.bFinSent \/ all)
        THEN prvTCPHandleFin([w EXCEPT !.sock[s].bFinAccepted = TRUE], s, acksFin)
        ELSE prvTCPPrepareSend(w, s, txDone, FALSE)

\* prvTCPHandleState; a SYN that is repeated in eSYN_RECEIVED is answered and
\* changes nothing, by way of eSYN_FIRST.
prvTCPHandleState(w, s, flags, acksFin, txDone, all) ==
    LET c == w.sock[s]
        v == [w EXCEPT !.sock[s] = [c EXCEPT !.ucRepCount = 0,
                                             !.bFinRecv = @ \/ "FIN" \in flags]]
        state == c.state
    IN  CASE state = "eSYN_RECEIVED" /\ flags = {"SYN"} -> v
          [] state = "eCONNECT_SYN" \/ (state = "eSYN_RECEIVED" /\ flags # {"SYN"}) ->
                prvHandleSynReceived(v, s, flags)
          [] state = "eESTABLISHED" ->
                prvHandleEstablished(v, s, flags, acksFin, txDone, all)
          [] state \in {"eFIN_WAIT_1", "eLAST_ACK"} -> prvTCPHandleFin(v, s, acksFin)

\* xProcessReceivedTCPPacket, for a packet to a socket that is active; others
\* are dropped or answered with a reset and change nothing.
xProcessReceivedTCPPacket(p, flags, acksFin, txDone, all) ==
    \E s \in Bound :
        /\ s = Lookup(p)
        /\ prvTCPSocketIsActive(sock[s].state)
        /\ ~ (flags = {"SYN"} /\ NOW_CONNECTED(sock[s].state))
        /\ acksFin => sock[s].bFinSent
        /\ txDone => sock[s].bUserShutdown /\ "RST" \notin flags
        /\ all => sock[s].state = "eESTABLISHED" /\ flags = {"FIN", "ACK"}
        /\ Becomes(IF "RST" \in flags
                   THEN vTCPStateChange([World EXCEPT !.sock[s].ucRepCount = 0],
                                        s, "eCLOSED")
                   ELSE prvTCPHandleState(World, s, flags, acksFin, txDone, all))
        /\ UNCHANGED <<server, client, owned>>

-----------------------------------------------------------------------------
(* Timers and events.                                                        *)

\* prvTCPPrepareConnect: the peer's address is in the ARP cache, or it is
\* asked for.
prvTCPPrepareConnect(c, hit) ==
    [c EXCEPT !.bConnPrepared = hit, !.ucRepCount = IF hit THEN 0 ELSE @ + 1]

\* prvTCPSendPacket in eCONNECT_SYN: an ARP request, or the SYN.
prvTCPSendPacket(w, s, hit) ==
    LET c == w.sock[s]
        d == IF c.bConnPrepared THEN c ELSE prvTCPPrepareConnect(c, hit)
    IN  IF c.ucRepCount >= ConnectRepeats
        THEN vTCPStateChange(w, s, "eCLOSE_WAIT")
        ELSE [w EXCEPT !.sock[s] = [d EXCEPT !.ucRepCount =
                                            IF d.bConnPrepared THEN @ + 1 ELSE @]]

\* A slip: the state that waits for the last acknowledgement is forgotten.
AgesButLastAck(state) == state \in {"eCONNECT_SYN", "eSYN_RECEIVED", "eFIN_WAIT_1"}

\* the states that may not last
Ages(state) == state \in {"eCONNECT_SYN", "eSYN_RECEIVED", "eFIN_WAIT_1", "eLAST_ACK"}

\* A slip: every child that waits for too long is deleted.
prvTCPStatusAgeCheckFrees(w, s) ==
    LET v == vTCPStateChange(w, s, "eCLOSE_WAIT")
    IN  IF w.sock[s].remote # Server THEN vSocketClose(v, s) ELSE v

\* prvTCPStatusAgeCheck, when nothing has happened for too long
prvTCPStatusAgeCheck(w, s) ==
    LET v == vTCPStateChange(w, s, "eCLOSE_WAIT")
    IN  IF v.sock[s].bPassQueued THEN vSocketClose(v, s) ELSE v

\* xTCPSocketCheck: aged says that the socket has been idle for 30 seconds.
xTCPSocketCheck(s, hit, txDone, silent, aged) ==
    LET state == sock[s].state
        v == IF state = "eCONNECT_SYN" THEN prvTCPSendPacket(World, s, hit)
             ELSE prvTCPPrepareSend(World, s, txDone, silent)
    IN  IF aged /\ Ages(state) /\ v.sock[s].state = state
        THEN prvTCPStatusAgeCheck(v, s) ELSE v

\* vSocketWakeUpUser
vSocketWakeUpUser(w, s) ==
    LET c == w.sock[s]
    IN  [w EXCEPT !.sock[s] = [c EXCEPT !.eventGroup = @ \/ c.eventBits,
                                        !.eventBits = FALSE]]

\* xTCPTimerCheck, for a socket whose time has come
xTCPTimerCheck(s, hit, txDone, silent, aged) ==
    /\ s \in Bound
    /\ \E v \in {xTCPSocketCheck(s, hit, txDone, silent, aged)} :
          Becomes(IF s \in Range(v.bound) THEN vSocketWakeUpUser(v, s) ELSE v)
    /\ UNCHANGED <<server, client, owned>>

IsEvent(type) == queue # <<>> /\ Head(queue).type = type

\* eSocketCloseEvent
HandleClose ==
    /\ IsEvent("eSocketCloseEvent")
    /\ \E s \in {Head(queue).s}, w \in {[World EXCEPT !.queue = Tail(@)]} :
          Becomes(IF s \in Sockets THEN vSocketClose(w, s)
                  ELSE [w EXCEPT !.listener.state = "freed",
                                 !.listener.pxPeerSocket = None])
    /\ UNCHANGED <<server, client, owned>>

\* A slip: nobody is told that another child waits.
HandleAcceptSilently ==
    /\ IsEvent("eTCPAcceptEvent")
    /\ queue' = Tail(queue)
    /\ UNCHANGED <<sock, bound, listener, server, client, owned>>

\* eTCPAcceptEvent and xTCPCheckNewClient: the first in the list is offered.
HandleAccept ==
    LET waits(i) == sock[bound[i]].bPassAccept
    IN  /\ IsEvent("eTCPAcceptEvent")
        /\ queue' = Tail(queue)
        /\ \/ ~ (\E i \in DOMAIN bound : waits(i)) /\ UNCHANGED listener
           \/ \E i \in DOMAIN bound :
                 /\ waits(i) /\ \A j \in 1 .. i - 1 : ~ waits(j)
                 /\ listener' = [listener EXCEPT !.pxPeerSocket = bound[i],
                                                 !.eventGroup = TRUE]
        /\ UNCHANGED <<sock, bound, server, client, owned>>

-----------------------------------------------------------------------------
(* The task that accepts.                                                    *)

\* FreeRTOS_listen
FreeRTOS_listen ==
    /\ server = "idle" /\ listener.state = "eCLOSED"
    /\ listener' = [listener EXCEPT !.state = "eTCP_LISTEN"]
    /\ UNCHANGED <<sock, bound, queue, server, client, owned>>

\* FreeRTOS_accept: the call,
AcceptCall ==
    /\ server = "idle" /\ listener.state = "eTCP_LISTEN"
    /\ server' = "accept"
    /\ UNCHANGED <<sock, bound, listener, queue, client, owned>>

\* the look at the child that is offered, with the scheduler suspended,
Offered == {s \in Sockets : s = listener.pxPeerSocket /\ sock[s].bPassAccept}

AcceptTake ==
    /\ server = "accept"
    /\ \E s \in Offered :
          /\ sock' = [sock EXCEPT ![s].bPassAccept = FALSE]
          /\ owned' = owned \cup {s}
    /\ listener' = [listener EXCEPT !.pxPeerSocket = None]
    /\ server' = "ask"
    /\ UNCHANGED <<bound, queue, client>>

\* which may find none,
AcceptNothing ==
    /\ server = "accept" /\ Offered = {}
    /\ listener' = [listener EXCEPT !.pxPeerSocket = None]
    /\ server' = "wait"
    /\ UNCHANGED <<sock, bound, queue, client, owned>>

\* the question for the next one, which waits for room in the queue,
AcceptAsk ==
    /\ server = "ask" /\ Len(queue) < QueueLength
    /\ queue' = Append(queue, [type |-> "eTCPAcceptEvent", s |-> None])
    /\ server' = "idle"
    /\ UNCHANGED <<sock, bound, listener, client, owned>>

\* and the wait for a child, or for the time to pass.
AcceptWoken ==
    /\ server = "wait" /\ listener.eventGroup
    /\ listener' = [listener EXCEPT !.eventGroup = FALSE]
    /\ server' = "accept"
    /\ UNCHANGED <<sock, bound, queue, client, owned>>

AcceptTimesOut ==
    /\ server = "wait"
    /\ server' = "idle"
    /\ UNCHANGED <<sock, bound, listener, queue, client, owned>>

\* The server task stops listening.
CloseListener ==
    /\ ListenerCloses
    /\ server = "idle" /\ listener.state = "eTCP_LISTEN"
    /\ Len(queue) < QueueLength
    /\ queue' = Append(queue, CloseEvent(None))
    /\ server' = "done"
    /\ UNCHANGED <<sock, bound, listener, client, owned>>

-----------------------------------------------------------------------------
(* The task that connects, and what both do with a connection.               *)

\* FreeRTOS_socket, FreeRTOS_connect and prvTCPConnectStart, with a new socket
\* (once its last one has been deleted) or with one whose connection is over
FreeRTOS_connect ==
    /\ client.at = "idle"
    /\ \/ \E s \in NextFree :
             /\ client.s = None /\ bound = <<>>
             /\ sock' = [sock EXCEPT ![s] = [Blank EXCEPT !.remote = Server,
                                                          !.state = "eCONNECT_SYN"]]
             /\ bound' = Append(bound, s)
             /\ client' = [at |-> "check", s |-> s]
             /\ owned' = owned \cup {s}
       \/ \E s \in owned \cap {client.s} :
             /\ ~ prvTCPSocketIsActive(sock[s].state)
             /\ sock' = [sock EXCEPT ![s].state = "eCONNECT_SYN",
                                     ![s].bConnPrepared = FALSE, ![s].ucRepCount = 0]
             /\ client' = [client EXCEPT !.at = "check"]
             /\ UNCHANGED <<bound, owned>>
    /\ UNCHANGED <<listener, queue, server>>

\* FreeRTOS_issocketconnected tells that it is done, or it waits ...
FreeRTOS_issocketconnected(state) == state \in {"eESTABLISHED", "eFIN_WAIT_1"}

ConnectCheck ==
    /\ client.at = "check"
    /\ client' = [client EXCEPT !.at =
            IF FreeRTOS_issocketconnected(sock[client.s].state) THEN "idle" ELSE "wait"]
    /\ UNCHANGED <<sock, bound, listener, queue, server, owned>>

\* ... for the event or for the time to pass.
ConnectWoken ==
    /\ client.at = "wait" /\ sock[client.s].eventGroup
    /\ sock' = [sock EXCEPT ![client.s].eventGroup = FALSE]
    /\ client' = [client EXCEPT !.at = "check"]
    /\ UNCHANGED <<bound, listener, queue, server, owned>>

ConnectTimesOut ==
    /\ client.at = "wait"
    /\ client' = [client EXCEPT !.at = "idle"]
    /\ UNCHANGED <<sock, bound, listener, queue, server, owned>>

\* FreeRTOS_shutdown
FreeRTOS_shutdown(s) ==
    /\ s \in owned /\ sock[s].state = "eESTABLISHED"
    /\ sock' = [sock EXCEPT ![s].bUserShutdown = TRUE]
    /\ UNCHANGED <<bound, listener, queue, server, client, owned>>

\* FreeRTOS_closesocket, by the owner, who keeps the socket if it fails
CloseOwned(s) ==
    /\ s \in owned
    /\ s = client.s => client.at = "idle"
    /\ Len(queue) < QueueLength
    /\ queue' = FreeRTOS_closesocket(World, s).queue
    /\ owned' = owned \ {s}
    /\ client' = IF s = client.s THEN [at |-> "idle", s |-> None] ELSE client
    /\ UNCHANGED <<sock, bound, listener, server>>

-----------------------------------------------------------------------------
Packets ==
    \E p \in Peers \cup {Server} :
        \/ prvHandleListen(p)
        \/ \E flags \in Flags, acksFin, txDone, all \in BOOLEAN :
              xProcessReceivedTCPPacket(p, flags, acksFin, txDone, all)

Timers == \E s \in Bound :
    \E hit \in {FALSE, sock[s].state = "eCONNECT_SYN"},
       txDone \in {FALSE, sock[s].bUserShutdown},
       silent \in {FALSE, sock[s].state = "eESTABLISHED"},
       aged \in {FALSE, Ages(sock[s].state)} :
          xTCPTimerCheck(s, hit, txDone, silent, aged)

Events == HandleClose \/ HandleAccept

Accepting == AcceptCall \/ AcceptTake \/ AcceptNothing \/ AcceptAsk \/ AcceptWoken

Calls == \/ FreeRTOS_listen \/ Accepting \/ AcceptTimesOut \/ CloseListener
         \/ FreeRTOS_connect \/ ConnectCheck \/ ConnectWoken \/ ConnectTimesOut
         \/ \E s \in Sockets : FreeRTOS_shutdown(s) \/ CloseOwned(s)

Next == Packets \/ Timers \/ Events \/ Calls

(* The IP task comes to its events and timers and finds, some day, that a    *)
(* peer has been silent for 30 seconds; the task that accepts keeps calling  *)
(* FreeRTOS_accept, gets its question into the queue, which has room again   *)
(* and again, and the one that connects goes on.  Nothing is assumed of the  *)
(* peers, and not that a wait runs into its time limit.                      *)
Fairness ==
    /\ WF_vars(Events)
    /\ WF_vars(Accepting) /\ SF_vars(AcceptAsk)
    /\ WF_vars(ConnectCheck \/ ConnectWoken)
    /\ \A s \in Sockets : WF_vars(xTCPTimerCheck(s, FALSE, FALSE, FALSE, TRUE))

Spec == Init /\ [][Next]_vars /\ Fairness
-----------------------------------------------------------------------------
(* Properties.                                                               *)

SocketType ==
    [state : States, remote : Peers \cup {Server, None}, pxPeerSocket : BOOLEAN,
     bPassQueued : BOOLEAN, bPassAccept : BOOLEAN, bUserShutdown : BOOLEAN,
     bFinSent : BOOLEAN, bFinRecv : BOOLEAN, bFinAcked : BOOLEAN,
     bFinAccepted : BOOLEAN, bConnPrepared : BOOLEAN,
     ucRepCount : 0 .. ConnectRepeats, eventBits : BOOLEAN, eventGroup : BOOLEAN]

TypeOK ==
    /\ sock \in [Sockets -> SocketType]
    /\ bound \in Seq(Sockets) /\ Len(bound) = Cardinality(Bound)
    /\ listener.state \in {"eCLOSED", "eTCP_LISTEN", "freed"}
    /\ listener.usChildCount \in 0 .. Cardinality(Sockets)
    /\ listener.pxPeerSocket \in Sockets \cup {None}
    /\ Len(queue) <= QueueLength
    /\ server \in {"idle", "accept", "ask", "wait", "done", "none"}
    /\ client.at \in {"none", "idle", "check", "wait"}
    /\ client.s \in Sockets \cup {None}
    /\ owned \subseteq Sockets

Children == {s \in Bound : sock[s].remote # Server}

\* The backlog counts the children that exist, whoever closes them and why,
\* so that a listener never turns peers away for connections that are gone.
ChildrenCounted ==
    listener.state = "eTCP_LISTEN"
        => /\ listener.usChildCount = Cardinality(Children)
           /\ listener.usChildCount <= Backlog

\* The invariant of the connections: their states, and the count of children.
ConnectionInv == TypeOK /\ ChildrenCounted

\* The child that FreeRTOS_accept will find at the listener is one that is
\* connected, waits to be accepted and has not been deleted.
OfferIsAcceptable ==
    listener.pxPeerSocket # None
        => /\ listener.pxPeerSocket \in Bound
           /\ sock[listener.pxPeerSocket].bPassAccept

Custody == INSTANCE SocketCustody WITH
    free <- Free,
    closing <- {s \in Bound : CloseEvent(s) \in Range(queue)},
    orphans <- {s \in Bound : sock[s].bPassQueued /\ CloseEvent(s) \notin Range(queue)},
    offered <- {s \in Bound : sock[s].bPassAccept}

\* A task gets a child once and only when it is connected, and neither a reset
\* nor a timer nor a second close event deletes a socket that a task holds.
ImplementsCustody == Custody!Spec

\* A connected child is accepted in the end, however many connect at the same
\* time and in whatever order the events are handled, while the listener lives.
OfferedAreAccepted ==
    \A s \in Sockets : sock[s].bPassAccept
                         ~> (~ sock[s].bPassAccept \/ server = "done")

\* No socket stays half open or half closed for ever, and no task waits for
\* ever for a connection that exists.
TransientStatesEnd ==
    /\ \A s \in Sockets : ~ <>[](sock[s].state \in States \ {"eCLOSED", "eESTABLISHED", "eCLOSE_WAIT"})
    /\ ~ <>[](client.at = "wait" /\ sock[client.s].state = "eESTABLISHED")

\* A child that nobody owns yet is offered or deleted in the end.
OrphansLeave == \A s \in Sockets : sock[s].bPassQueued ~> ~ sock[s].bPassQueued

=============================================================================
