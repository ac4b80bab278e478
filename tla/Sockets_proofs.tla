---------------------------- MODULE Sockets_proofs ----------------------------
(***************************************************************************)
(* Proofs about Sockets, for every number of sockets, tasks, ports and     *)
(* packets: the inductive invariant, that no two bound sockets share a     *)
(* port, that a task which sleeps has nothing to wake for, and that a      *)
(* socket told to be readable has something to read.                       *)
(***************************************************************************)
EXTENDS Sockets, SequenceTheorems, TLAPS

TaskState == [at : {"idle"} \cup Using \cup Selects, s : Sockets \cup {None},
              call : {"", "set", "select"}]

Idle == [at |-> "idle", s |-> None, call |-> ""]

\* A task that moves on, and nothing else.
Stay == UNCHANGED <<sock, xSelectGroup, queue>>

LEMMA TypedTask ==
  ASSUME TypeOK, NEW t \in Tasks
  PROVE  task[t] \in TaskState /\ Idle \in TaskState
PROOF BY DEF TypeOK, TaskState, Idle

LEMMA SocketIsTyped ==
  /\ Blank \in Socket /\ Connected \in Socket
  /\ [Blank EXCEPT !.open = TRUE] \in Socket
PROOF
<1>1. <<>> \in Seq(Datagrams) OBVIOUS
<1>2. QED BY <1>1 DEF Blank, Connected, Socket

\* The invariant holds at the start.
LEMMA InitInvariant == Init => IInv
PROOF
<1>1. SUFFICES ASSUME Init PROVE IInv OBVIOUS
<1>2. \A s \in Sockets : \/ sock[s] = Blank
                         \/ s \in Tcp /\ s \notin Udp /\ sock[s] = Connected
  BY <1>1, SocketsAssumption DEF Init, Sockets
<1>3. TypeOK
  <2>1. sock \in [Sockets -> Socket] BY <1>1, SocketIsTyped DEF Init
  <2>2. queue = <<>> /\ <<>> \in Seq(Event) BY <1>1, EmptySeq DEF Init
  <2>3. queue \in Seq(Event) BY <2>2
  <2>4. QED BY <1>1, <2>1, <2>3 DEF Init, TypeOK
<1>4. ASSUME NEW s \in Sockets PROVE SocketOK(s) /\ ~ sock[s].inSet /\ (s \in Udp => ~ sock[s].bound)
  <2>1. CASE sock[s] = Blank BY <2>1 DEF SocketOK, Blank
  <2>2. CASE s \notin Udp /\ sock[s] = Connected BY <2>2 DEF SocketOK, Blank, Connected
  <2>3. QED BY <1>2, <2>1, <2>2
<1>5. QueueOK
  <2>1. queue = <<>> BY <1>1 DEF Init
  <2>2. \A type : ~ IsEvent(type) BY <2>1 DEF IsEvent
  <2>3. QED BY <2>1, <2>2 DEF QueueOK
<1>6. \A t \in Tasks : TaskOK(t) BY <1>1 DEF Init, TaskOK, Using
<1>8. SelectOK BY <1>4 DEF SelectOK, InSet
<1>9. PortsAreUnique BY <1>4 DEF PortsAreUnique, BoundUdp, Sockets
<1>10. QED BY <1>3, <1>4, <1>5, <1>6, <1>8, <1>9 DEF IInv

\* While the IP task sleeps nothing waits for it.
LEMMA GroupStays ==
  ASSUME IInv, Stay
  PROVE  UNCHANGED <<sock, queue>> /\ xSelectGroup' \subseteq eSELECT_ALL \cup {"CALL_IP"}
PROOF BY DEF IInv, TypeOK, Stay

LEMMA NothingWaits ==
  ASSUME Asleep
  PROVE  /\ queue = <<>> /\ \A type : ~ IsEvent(type)
         /\ \A s \in Sockets : sock[s].xEventBits = {}
PROOF BY DEF Asleep, IsEvent

\* A task that moves on leaves the rest of the invariant as it is.
LEMMA TaskMoves ==
  ASSUME IInv, Asleep, UNCHANGED <<sock, queue>>, NEW t \in Tasks, NEW r \in TaskState,
         xSelectGroup' \subseteq eSELECT_ALL \cup {"CALL_IP"},
         task' = [task EXCEPT ![t] = r], TaskOK(t)', SelectOK'
  PROVE  IInv'
PROOF
<1>1. queue = <<>> /\ queue' = <<>> BY NothingWaits
<1>2. TypeOK' BY DEF IInv, TypeOK, TaskState
<1>3. \A s \in Sockets : SocketOK(s)' BY DEF IInv, SocketOK
<1>4. QueueOK' BY <1>1 DEF QueueOK, IsEvent
<1>5. \A q \in Tasks : TaskOK(q)'
  <2>1. SUFFICES ASSUME NEW q \in Tasks, q # t PROVE TaskOK(q)' OBVIOUS
  <2>2. task'[q] = task[q] BY <2>1 DEF IInv, TypeOK
  <2>3. QED BY <2>2 DEF IInv, TaskOK, Due
<1>6. PortsAreUnique' BY DEF IInv, PortsAreUnique, BoundUdp
<1>7. QED BY <1>2, <1>3, <1>4, <1>5, <1>6 DEF IInv

\* The set of sockets is right after a step of a task that asks nothing of it.
LEMMA SelectStays ==
  ASSUME IInv, Asleep, Stay, NEW t \in Tasks, NEW r \in TaskState,
         task' = [task EXCEPT ![t] = r],
         task[t].at \notin {"ask", "post"}, r.at \notin {"answer", "bits", "look"}
  PROVE  SelectOK'
PROOF
<1>1. SelectOK /\ Selector \in Tasks BY SocketsAssumption DEF IInv
<1>2. IsEvent("eSocketSelectEvent")' = IsEvent("eSocketSelectEvent") /\ InSet' = InSet
      /\ \A s \in Sockets : Ready(s)' = Ready(s)
  BY DEF Stay, IsEvent, InSet, Ready
<1>3. CASE t = Selector
  <2>1. task'[Selector].at = r.at BY <1>1, <1>3 DEF IInv, TypeOK
  <2>2. ~ IsEvent("eSocketSelectEvent") BY NothingWaits
  <2>3. \A s \in InSet : Ready(s) \subseteq xSelectGroup \cup sock[s].xEventBits
    BY <1>1, <1>3, <2>2 DEF SelectOK
  <2>4. \A s \in InSet' : (Ready(s) \subseteq xSelectGroup \cup sock[s].xEventBits)'
    BY <1>2, <2>3 DEF Stay, InSet
  <2>5. QED BY <2>1, <2>4 DEF SelectOK
<1>4. CASE t # Selector
  <2>1. task'[Selector] = task[Selector] BY <1>1, <1>4 DEF IInv, TypeOK
  <2>2. QED BY <1>1, <1>2, <2>1 DEF SelectOK, Stay, InSet
<1>5. QED BY <1>3, <1>4

\* Where the three ways to move lead.
LEMMA WhereGoes ==
  ASSUME TypeOK, NEW t \in Tasks, NEW at \in {"idle"} \cup Using \cup Selects, Goes(t, at)
  PROVE  \E r \in TaskState : /\ task' = [task EXCEPT ![t] = r] /\ task'[t] = r
                              /\ r.at = at /\ r.s = task[t].s /\ r.call = task[t].call
PROOF
<1>1. task[t] \in TaskState /\ task \in [Tasks -> TaskState] BY DEF TypeOK, TaskState
<1> DEFINE r == [task[t] EXCEPT !.at = at]
<1>2. r \in TaskState BY <1>1 DEF TaskState
<1>3. r.at = at /\ r.s = task[t].s /\ r.call = task[t].call BY <1>1 DEF TaskState
<1>4. task' = [task EXCEPT ![t] = r] BY DEF Goes
<1>5. task'[t] = r BY <1>1, <1>4
<1>6. QED BY <1>2, <1>3, <1>4, <1>5

LEMMA WhereReturns ==
  ASSUME TypeOK, NEW t \in Tasks, Returns(t)
  PROVE  /\ Idle \in TaskState /\ Idle.at = "idle"
         /\ task' = [task EXCEPT ![t] = Idle] /\ task'[t] = Idle
         /\ TaskOK(t)'
PROOF
<1>1. task' = [task EXCEPT ![t] = Idle] /\ task'[t] = Idle BY DEF Returns, Idle, TypeOK
<1>2. Idle.at = "idle" BY DEF Idle
<1>3. TaskOK(t)' BY <1>1, <1>2 DEF TaskOK, Using
<1>4. QED BY <1>1, <1>2, <1>3, TypedTask

LEMMA WhereCalls ==
  ASSUME TypeOK, NEW t \in Tasks, NEW at \in Using, NEW s \in Sockets, Calls(t, at, s)
  PROVE  \E r \in TaskState : /\ task' = [task EXCEPT ![t] = r] /\ task'[t] = r
                              /\ r.at = at /\ r.s = s
PROOF
<1>1. task[t] \in TaskState /\ task \in [Tasks -> TaskState] BY DEF TypeOK, TaskState
<1> DEFINE r == [task[t] EXCEPT !.at = at, !.s = s]
<1>2. r \in TaskState BY <1>1 DEF TaskState
<1>3. r.at = at /\ r.s = s BY <1>1 DEF TaskState
<1>4. task' = [task EXCEPT ![t] = r] BY <1>1 DEF Calls
<1>5. task'[t] = r BY <1>1, <1>4
<1>6. QED BY <1>2, <1>3, <1>4, <1>5

\* A task goes on with its socket, goes back, or begins with a socket.
LEMMA GoesOn ==
  ASSUME IInv, Asleep, Stay, NEW t \in Tasks, NEW at \in Using,
         task[t].at \in Using, Goes(t, at),
         (task'[t].at = at /\ task'[t].s = task[t].s) => TaskOK(t)'
  PROVE  IInv'
PROOF
<1>1. TypeOK /\ at \in {"idle"} \cup Using \cup Selects BY DEF IInv
<1>2. PICK r \in TaskState : /\ task' = [task EXCEPT ![t] = r] /\ task'[t] = r
                             /\ r.at = at /\ r.s = task[t].s
  BY <1>1, WhereGoes
<1>3. SelectOK' BY <1>2, SelectStays DEF Using
<1>4. QED BY <1>2, <1>3, GroupStays, TaskMoves

LEMMA GoesBack ==
  ASSUME IInv, Asleep, Stay, NEW t \in Tasks, task[t].at \notin {"ask", "post"}, Returns(t)
  PROVE  IInv'
PROOF
<1>1. TypeOK BY DEF IInv
<1>2. SelectOK' BY <1>1, WhereReturns, SelectStays
<1>3. QED BY <1>1, <1>2, WhereReturns, GroupStays, TaskMoves

LEMMA BeginsWith ==
  ASSUME IInv, Asleep, Stay, NEW t \in Tasks, NEW at \in Using, NEW s \in Sockets,
         Calls(t, at, s), (task'[t].at = at /\ task'[t].s = s) => TaskOK(t)'
  PROVE  IInv'
PROOF
<1>1. TypeOK BY DEF IInv
<1>2. PICK r \in TaskState : /\ task' = [task EXCEPT ![t] = r] /\ task'[t] = r
                             /\ r.at = at /\ r.s = s
  BY <1>1, WhereCalls
<1>3. task[t].at = "idle" BY DEF Calls, At
<1>4. SelectOK' BY <1>2, <1>3, SelectStays DEF Using
<1>5. QED BY <1>2, <1>4, GroupStays, TaskMoves

\* The steps of a task that look at its socket and leave it as it is
\* (FreeRTOS_recvfrom, FreeRTOS_recv, FreeRTOS_send).
LEMMA LookedInvariant ==
  ASSUME IInv, NEW t \in Tasks, NEW s \in Sockets,
         FreeRTOS_recvfrom(t, s) \/ FreeRTOS_recv(t, s)
  PROVE  IInv'
PROOF
<1>1. Stay /\ Asleep /\ Calls(t, Looked(s), s)
  BY DEF FreeRTOS_recvfrom, FreeRTOS_recv, Stay, Calls, At
<1>2. Owner[s] = t BY <1>1 DEF Calls
<1>3. Looked(s) \in {"take", "none", "state"} /\ Looked(s) \in Using BY DEF Looked, Using
<1>4. ASSUME task'[t].at = Looked(s), task'[t].s = s PROVE TaskOK(t)'
  BY <1>1, <1>2, <1>3, <1>4, SocketsAssumption DEF TaskOK, Looked, Stay
<1>5. QED BY <1>1, <1>3, <1>4, BeginsWith

LEMMA SendInvariant ==
  ASSUME IInv, NEW t \in Tasks, NEW s \in Sockets, FreeRTOS_send(t, s)
  PROVE  IInv'
PROOF
<1>1. Stay /\ Asleep /\ Calls(t, "space", s) /\ s \in Tcp
  BY DEF FreeRTOS_send, prvTCPSendCheck, Stay, Calls, At
<1>2. Owner[s] = t BY <1>1 DEF Calls
<1>3. "space" \in Using BY DEF Using
<1>4. ASSUME task'[t].at = "space", task'[t].s = s PROVE TaskOK(t)'
  BY <1>1, <1>2, <1>4 DEF TaskOK
<1>5. QED BY <1>1, <1>3, <1>4, BeginsWith

LEMMA CheckStateInvariant ==
  ASSUME IInv, NEW t \in Tasks, CheckState(t) PROVE IInv'
PROOF
<1>1. Stay /\ Asleep /\ task[t].at = "state" /\ TaskOK(t) BY DEF CheckState, Stay, At, IInv
<1>2. PICK at \in {"none", "closed"} :
        Goes(t, at) /\ (at = "none" => sock[task[t].s].state = "eESTABLISHED")
  BY DEF CheckState
<1>3. at \in Using /\ "state" \in Using BY DEF Using
<1>4. ASSUME task'[t].at = at, task'[t].s = task[t].s PROVE TaskOK(t)'
  BY <1>1, <1>2, <1>3, <1>4 DEF TaskOK, Stay, Due
<1>5. QED BY <1>1, <1>2, <1>3, <1>4, GoesOn

LEMMA WaitsInvariant ==
  ASSUME IInv, NEW t \in Tasks, WaitOn(t) \/ SendWaits(t) PROVE IInv'
PROOF
<1>1. Stay /\ Asleep /\ TaskOK(t) BY DEF WaitOn, SendWaits, Stay, At, IInv
<1>2. PICK at \in {"wait", "sendWait"} :
        Goes(t, at) /\ task[t].at = IF at = "wait" THEN "none" ELSE "noSpace"
  BY DEF WaitOn, SendWaits, At
<1>3. at \in Using /\ task[t].at \in Using BY <1>2 DEF Using
<1>4. ASSUME task'[t].at = at, task'[t].s = task[t].s PROVE TaskOK(t)'
  BY <1>1, <1>2, <1>3, <1>4 DEF TaskOK, Stay, Due
<1>5. QED BY <1>1, <1>2, <1>3, <1>4, GoesOn

LEMMA TimesOutInvariant ==
  ASSUME IInv, NEW t \in Tasks, TimesOut(t) PROVE IInv'
PROOF
<1>1. Stay /\ Asleep /\ TaskOK(t) BY DEF TimesOut, Stay, At, IInv
<1>2. PICK at \in {"again", "space"} :
        Goes(t, at) /\ task[t].at = IF at = "again" THEN "wait" ELSE "sendWait"
  BY DEF TimesOut, At
<1>3. at \in Using /\ task[t].at \in Using BY <1>2 DEF Using
<1>4. ASSUME task'[t].at = at, task'[t].s = task[t].s PROVE TaskOK(t)'
  BY <1>1, <1>2, <1>3, <1>4 DEF TaskOK
<1>5. QED BY <1>1, <1>2, <1>3, <1>4, GoesOn

LEMMA LooksAgainInvariant ==
  ASSUME IInv, NEW t \in Tasks, LooksAgain(t) PROVE IInv'
PROOF
<1>1. Stay /\ Asleep /\ task[t].at = "again" /\ TaskOK(t) BY DEF LooksAgain, Stay, At, IInv
<1>2. task[t].s \in Sockets /\ Owner[task[t].s] = t BY <1>1 DEF TaskOK, Using
<1> DEFINE at == Looked(task[t].s)
<1>3. at \in {"take", "none", "state"} /\ at \in Using /\ "again" \in Using
  BY DEF Looked, Using
<1>4. ASSUME task'[t].at = at, task'[t].s = task[t].s PROVE TaskOK(t)'
  BY <1>1, <1>2, <1>3, <1>4, SocketsAssumption DEF TaskOK, Looked, Stay
<1>5. Goes(t, at) BY DEF LooksAgain
<1>6. QED BY <1>1, <1>3, <1>4, <1>5, GoesOn

LEMMA ReturnsEmptyInvariant ==
  ASSUME IInv, NEW t \in Tasks, ReturnsEmpty(t) PROVE IInv'
PROOF
<1>1. Stay /\ Asleep /\ task[t].at \in {"none", "closed", "noSpace"} /\ Returns(t)
  BY DEF ReturnsEmpty, Stay, At
<1>2. QED BY <1>1, GoesBack

\* The steps of FreeRTOS_select that only move its task.
LEMMA SelectorMoves ==
  ASSUME IInv, Asleep, Stay, NEW r \in TaskState, r.at \in Selects,
         task' = [task EXCEPT ![Selector] = r],
         task[Selector].at \notin {"ask", "post"},
         r.at \in {"answer", "bits", "look"} => task[Selector].at \in {"bits", "look"}
  PROVE  IInv'
PROOF
<1>1. Selector \in Tasks /\ task'[Selector] = r BY SocketsAssumption DEF IInv, TypeOK
<1>2. TaskOK(Selector)' BY <1>1 DEF TaskOK, Using, Selects
<1>3. SelectOK'
  <2>1. CASE r.at \notin {"answer", "bits", "look"} BY <1>1, <2>1, SelectStays
  <2>2. CASE r.at \in {"answer", "bits", "look"}
    <3>1. SelectOK /\ ~ IsEvent("eSocketSelectEvent") /\ task[Selector].at \in {"bits", "look"}
      BY <2>2, NothingWaits DEF IInv
    <3>2. InSet' = InSet /\ \A s \in Sockets : Ready(s)' = Ready(s) BY DEF Stay, InSet, Ready
    <3>3. QED BY <3>1, <3>2 DEF SelectOK, Stay, InSet
  <2>3. QED BY <2>1, <2>2
<1>4. QED BY <1>1, <1>2, <1>3, GroupStays, TaskMoves

LEMMA SelectInvariant == ASSUME IInv, FreeRTOS_select PROVE IInv'
PROOF
<1>1. Stay /\ Asleep /\ task[Selector].at = "idle" BY DEF FreeRTOS_select, Stay, At
<1>2. task \in [Tasks -> TaskState] /\ Selector \in Tasks
  BY SocketsAssumption DEF IInv, TypeOK, TaskState
<1> DEFINE r == [task[Selector] EXCEPT !.at = "select", !.call = "select"]
<1>3. r \in TaskState /\ r.at = "select" BY <1>2 DEF TaskState, Selects
<1>4. task' = [task EXCEPT ![Selector] = r] BY <1>2 DEF FreeRTOS_select
<1>5. QED BY <1>1, <1>3, <1>4, SelectorMoves DEF Selects

LEMMA SelectWakesInvariant ==
  ASSUME IInv, SelectWakes \/ SelectTimesOut PROVE IInv'
PROOF
<1>1. Stay /\ Asleep /\ task[Selector].at = "select" /\ Goes(Selector, "ask")
  BY DEF SelectWakes, SelectTimesOut, Stay, At
<1>2. TypeOK /\ Selector \in Tasks /\ "ask" \in Selects BY SocketsAssumption DEF IInv, Selects
<1>3. PICK r \in TaskState : task' = [task EXCEPT ![Selector] = r] /\ r.at = "ask"
  BY <1>1, <1>2, WhereGoes
<1>4. QED BY <1>1, <1>2, <1>3, SelectorMoves

LEMMA SelectReturnsInvariant == ASSUME IInv, SelectReturns PROVE IInv'
PROOF
<1>1. Stay /\ Asleep /\ task[Selector].at = "bits" BY DEF SelectReturns, Stay, At
<1>2. TypeOK /\ Selector \in Tasks BY SocketsAssumption DEF IInv
<1>3. CASE Returns(Selector) BY <1>1, <1>2, <1>3, GoesBack
<1>4. ASSUME NEW at \in {"look", "select"}, Goes(Selector, at) PROVE IInv'
  <2>1. at \in Selects BY DEF Selects
  <2>2. PICK r \in TaskState : task' = [task EXCEPT ![Selector] = r] /\ r.at = at
    BY <1>2, <1>4, <2>1, WhereGoes
  <2>3. QED BY <1>1, <2>1, <2>2, SelectorMoves
<1>5. QED BY <1>3, <1>4 DEF SelectReturns

LEMMA LookInvariant ==
  ASSUME IInv, NEW s \in Sockets, Look(s) PROVE IInv'
PROOF
<1>1. Stay /\ Asleep /\ task[Selector].at = "look" /\ sock[s].inSet
      /\ "READ" \in sock[s].xSocketBits
  BY DEF Look, Stay, At, FreeRTOS_FD_ISSET
<1>2. task \in [Tasks -> TaskState] /\ Selector \in Tasks
  BY SocketsAssumption DEF IInv, TypeOK, TaskState
<1> DEFINE r == [task[Selector] EXCEPT !.at = "read", !.s = s]
<1>3. r \in TaskState /\ r.at = "read" /\ r.s = s BY <1>2 DEF TaskState, Using
<1>4. task' = [task EXCEPT ![Selector] = r] /\ task'[Selector] = r BY <1>2 DEF Look
<1>5. Owner[s] = Selector
  BY <1>1, SocketsAssumption DEF IInv, SocketOK
<1>6. sock[s].waiting # <<>> BY <1>1 DEF IInv, SelectOK
<1>7. TaskOK(Selector)' BY <1>1, <1>3, <1>4, <1>5, <1>6 DEF TaskOK, Stay
<1>8. SelectOK' BY <1>1, <1>2, <1>3, <1>4, SelectStays
<1>9. QED BY <1>1, <1>2, <1>3, <1>4, <1>7, <1>8, GroupStays, TaskMoves

LEMMA LookedAtAllInvariant == ASSUME IInv, LookedAtAll PROVE IInv'
PROOF
<1>1. Stay /\ Asleep /\ task[Selector].at = "look" /\ Returns(Selector)
  BY DEF LookedAtAll, Stay, At
<1>2. QED BY <1>1, SocketsAssumption, GoesBack

\* prvFindSelectedSocket asks,
LEMMA AskInvariant == ASSUME IInv, Ask PROVE IInv'
PROOF
<1>1. UNCHANGED <<sock, queue>> /\ Asleep /\ Goes(Selector, "post")
      /\ xSelectGroup' \subseteq eSELECT_ALL \cup {"CALL_IP"}
  BY DEF Ask, At, IInv, TypeOK
<1>2. TypeOK /\ Selector \in Tasks /\ "post" \in Selects BY SocketsAssumption DEF IInv, Selects
<1>3. PICK r \in TaskState : /\ task' = [task EXCEPT ![Selector] = r] /\ task'[Selector] = r
                             /\ r.at = "post"
  BY <1>1, <1>2, WhereGoes
<1>4. TaskOK(Selector)' /\ SelectOK' BY <1>3 DEF TaskOK, Using, SelectOK
<1>5. QED BY <1>1, <1>2, <1>3, <1>4, TaskMoves

\* and goes on when it has the answer.
LEMMA AnsweredInvariant == ASSUME IInv, Answered PROVE IInv'
PROOF
<1>1. UNCHANGED <<sock, queue>> /\ Asleep /\ task[Selector].at = "answer"
      /\ xSelectGroup' = xSelectGroup \ {"CALL_IP"}
      /\ xSelectGroup' \subseteq eSELECT_ALL \cup {"CALL_IP"}
  BY DEF Answered, At, IInv, TypeOK
<1>2. TypeOK /\ Selector \in Tasks /\ "bits" \in Selects BY SocketsAssumption DEF IInv, Selects
<1>3. PICK r \in TaskState : /\ task' = [task EXCEPT ![Selector] = r] /\ task'[Selector] = r
                             /\ r.at \in {"idle", "bits"}
  BY <1>2, WhereGoes, WhereReturns DEF Answered
<1>4. TaskOK(Selector)' BY <1>3 DEF TaskOK, Using
<1>5. SelectOK'
  <2>1. SelectOK /\ ~ IsEvent("eSocketSelectEvent") BY <1>1, NothingWaits DEF IInv
  <2>2. InSet' = InSet /\ \A s \in Sockets : Ready(s)' = Ready(s) BY <1>1 DEF InSet, Ready
  <2>3. \A s \in InSet : "CALL_IP" \notin Ready(s)
    BY DEF IInv, TypeOK, InSet, Ready
  <2>4. \A s \in InSet : Ready(s) \subseteq xSelectGroup' \cup sock[s].xEventBits
    BY <1>1, <2>1, <2>3 DEF SelectOK
  <2>5. \A s \in Sockets : (sock[s].inSet /\ "READ" \in sock[s].xSocketBits)
                               => sock[s].waiting # <<>>
    BY <1>1, <2>1 DEF SelectOK
  <2>6. QED BY <1>1, <2>2, <2>4, <2>5 DEF SelectOK, InSet
<1>6. QED BY <1>1, <1>2, <1>3, <1>4, <1>5, TaskMoves

-----------------------------------------------------------------------------
(* Events for the IP task.                                                   *)

LEMMA Posted ==
  ASSUME queue = <<>>, NEW e \in Event, queue' = Append(queue, e)
  PROVE  queue' \in Seq(Event) /\ Len(queue') <= 1 /\ queue' # <<>> /\ Head(queue') = e
PROOF
<1>1. queue' = <<e>> OBVIOUS
<1>2. QED BY <1>1

LEMMA Served ==
  ASSUME IInv, queue # <<>>
  PROVE  Head(queue) \in Event /\ Tail(queue) = <<>>
PROOF
<1>1. queue \in Seq(Event) /\ Len(queue) <= 1 BY DEF IInv, TypeOK, QueueOK
<1>2. Len(queue) \in Nat \ {0} BY <1>1, EmptySeq, Zenon
<1>3. /\ Head(queue) \in Event
      /\ Tail(queue) \in Seq(Event)
      /\ Len(Tail(queue)) = Len(queue) - 1
  BY <1>1, HeadTailProperties
<1>4. Len(Tail(queue)) = 0 BY <1>1, <1>2, <1>3
<1>5. \A q \in Seq(Event) : q # <<>> => Len(q) \in Nat \ {0} BY EmptySeq, Zenon
<1>6. QED BY <1>3, <1>4, <1>5

\* The question of FreeRTOS_select is posted.
LEMMA PostSelectInvariant == ASSUME IInv, PostSelect PROVE IInv'
PROOF
<1>1. UNCHANGED <<sock, xSelectGroup>> /\ Asleep /\ Goes(Selector, "answer")
  BY DEF PostSelect, At
<1> DEFINE e == [type |-> "eSocketSelectEvent", s |-> None]
<1>2. TypeOK /\ Selector \in Tasks /\ "answer" \in Selects BY SocketsAssumption DEF IInv, Selects
<1>3. PICK r \in TaskState : /\ task' = [task EXCEPT ![Selector] = r] /\ task'[Selector] = r
                             /\ r.at = "answer"
  BY <1>1, <1>2, WhereGoes
<1>4. e \in Event /\ queue = <<>> /\ queue' = Append(queue, e)
  BY <1>1, NothingWaits DEF PostSelect, Posts, Event
<1>5. queue' \in Seq(Event) /\ Len(queue') <= 1 /\ queue' # <<>> /\ Head(queue') = e
  BY <1>4, Posted
<1>6. TypeOK' BY <1>1, <1>2, <1>3, <1>5 DEF TypeOK, TaskState
<1>7. \A s \in Sockets : SocketOK(s)' BY <1>1 DEF IInv, SocketOK
<1>8. QueueOK' BY <1>5 DEF QueueOK, IsEvent
<1>9. \A t \in Tasks : TaskOK(t)'
  <2>1. TaskOK(Selector)' BY <1>3 DEF TaskOK, Using
  <2>2. ASSUME NEW t \in Tasks, t # Selector PROVE TaskOK(t)'
    <3>1. task'[t] = task[t] BY <1>2, <1>3, <2>2 DEF TypeOK
    <3>2. QED BY <1>1, <3>1 DEF IInv, TaskOK, Due
  <2>3. QED BY <2>1, <2>2
<1>10. SelectOK' BY <1>3, <1>5 DEF SelectOK, IsEvent
<1>11. PortsAreUnique' BY <1>1 DEF IInv, PortsAreUnique, BoundUdp
<1>12. QED BY <1>6, <1>7, <1>8, <1>9, <1>10, <1>11 DEF IInv

-----------------------------------------------------------------------------
(* Steps that change one socket.                                             *)

LEMMA OneSocket ==
  ASSUME IInv, NEW x \in Sockets, NEW c \in Socket, sock' = [sock EXCEPT ![x] = c]
  PROVE  /\ sock' \in [Sockets -> Socket] /\ sock'[x] = c
         /\ \A s \in Sockets : s # x => sock'[s] = sock[s]
PROOF BY DEF IInv, TypeOK

LEMMA OtherSockets ==
  ASSUME IInv, NEW x \in Sockets, NEW c \in Socket, sock' = [sock EXCEPT ![x] = c],
         SocketOK(x)'
  PROVE  \A s \in Sockets : SocketOK(s)'
PROOF
<1>1. SUFFICES ASSUME NEW s \in Sockets, s # x PROVE SocketOK(s)' OBVIOUS
<1>2. sock'[s] = sock[s] BY <1>1, OneSocket
<1>3. QED BY <1>2 DEF IInv, SocketOK

\* A socket that neither gains nor changes a port leaves the ports unique.
LEMMA SamePorts ==
  ASSUME IInv, NEW x \in Sockets, NEW c \in Socket, sock' = [sock EXCEPT ![x] = c],
         c.bound => sock[x].bound /\ c.usLocalPort = sock[x].usLocalPort
  PROVE  PortsAreUnique'
PROOF
<1>1. SUFFICES ASSUME NEW s \in BoundUdp', NEW r \in BoundUdp',
                      sock'[s].usLocalPort = sock'[r].usLocalPort
               PROVE  s = r
  BY DEF PortsAreUnique
<1>2. \A q \in BoundUdp' : q \in BoundUdp /\ sock'[q].usLocalPort = sock[q].usLocalPort
  BY OneSocket DEF BoundUdp, Sockets
<1>3. QED BY <1>1, <1>2 DEF IInv, PortsAreUnique

\* Only a socket's owner depends on it.
LEMMA OtherTasks ==
  ASSUME IInv, NEW x \in Sockets, NEW c \in Socket, sock' = [sock EXCEPT ![x] = c],
         NEW t \in Tasks, task'[t] = task[t], t # Owner[x] \/ task[t].at \notin Using
  PROVE  TaskOK(t)'
PROOF
<1>1. TaskOK(t) BY DEF IInv
<1>2. CASE task[t].at \in Using
  <2>1. task[t].s \in Sockets /\ task[t].s # x BY <1>1, <1>2 DEF TaskOK
  <2>2. sock'[task[t].s] = sock[task[t].s] BY <2>1, OneSocket
  <2>3. QED BY <1>1, <2>2 DEF TaskOK, Due
<1>3. CASE task[t].at \notin Using BY <1>3 DEF TaskOK, Using
<1>4. QED BY <1>2, <1>3

\* What the IP task brings is there for the owner, with a bit for it.
LEMMA TasksFind ==
  ASSUME IInv, NEW x \in Sockets, NEW c \in Socket, sock' = [sock EXCEPT ![x] = c],
         UNCHANGED task,
         sock[x].waiting # <<>> => c.waiting # <<>>,
         Due(x) \subseteq c.xEventGroup \cup c.xEventBits,
         c.waiting # sock[x].waiting => "RECEIVE" \in c.xEventGroup \cup c.xEventBits,
         c.state # sock[x].state => "CLOSED" \in c.xEventGroup \cup c.xEventBits,
         c.txSpace # sock[x].txSpace => "SEND" \in c.xEventGroup \cup c.xEventBits
  PROVE  \A t \in Tasks : TaskOK(t)'
PROOF
<1>1. SUFFICES ASSUME NEW t \in Tasks, task[t].at \in Using, task[t].s = x PROVE TaskOK(t)'
  <2>1. ASSUME NEW t \in Tasks, task[t].at \notin Using PROVE TaskOK(t)' BY <2>1, OtherTasks
  <2>2. ASSUME NEW t \in Tasks, task[t].at \in Using, task[t].s # x PROVE TaskOK(t)'
    <3>1. TaskOK(t) /\ task[t].s \in Sockets BY <2>2 DEF IInv, TaskOK
    <3>2. sock'[task[t].s] = sock[task[t].s] BY <2>2, <3>1, OneSocket
    <3>3. QED BY <3>1, <3>2 DEF TaskOK, Due
  <2>3. QED BY <2>1, <2>2
<1>2. sock'[x] = c /\ TaskOK(t) BY OneSocket DEF IInv
<1>3. QED BY <1>1, <1>2 DEF TaskOK, Due

\* The set keeps telling what is true of its sockets if it does of one.
LEMMA SetTells ==
  ASSUME IInv, NEW x \in Sockets, NEW c \in Socket, sock' = [sock EXCEPT ![x] = c],
         IsEvent("eSocketSelectEvent")' <=> IsEvent("eSocketSelectEvent"),
         xSelectGroup \subseteq xSelectGroup',
         \/ task'[Selector] = task[Selector]
         \/ /\ task[Selector].at \notin {"ask", "post"} /\ ~ IsEvent("eSocketSelectEvent")
            /\ task'[Selector].at \notin {"answer", "bits", "look"},
         x \in InSet' =>
           \/ (Ready(x) \subseteq xSelectGroup \cup sock[x].xEventBits)'
           \/ /\ x \in InSet
              /\ (Ready(x) \subseteq xSelectGroup \cup sock[x].xEventBits)
                   => (Ready(x) \subseteq xSelectGroup \cup sock[x].xEventBits)',
         /\ task'[Selector].at \in {"answer", "bits", "look"}
         /\ c.inSet /\ "READ" \in c.xSocketBits
         => \/ c.waiting # <<>>
            \/ /\ sock[x].inSet /\ "READ" \in sock[x].xSocketBits
               /\ sock[x].waiting = <<>>
  PROVE  SelectOK'
PROOF
<1>1. SelectOK BY DEF IInv
<1>2. sock'[x] = c BY OneSocket
<1>3. \A s \in Sockets : s # x =>
        /\ sock'[s] = sock[s] /\ Ready(s)' = Ready(s) /\ (s \in InSet' <=> s \in InSet)
  BY OneSocket DEF Ready, InSet
<1>4. ASSUME \A s \in InSet : Ready(s) \subseteq xSelectGroup \cup sock[s].xEventBits,
             NEW s \in InSet'
      PROVE  (Ready(s) \subseteq xSelectGroup \cup sock[s].xEventBits)'
  <2>1. CASE s = x BY <1>4, <2>1
  <2>2. CASE s # x
    <3>1. s \in Sockets BY DEF InSet
    <3>2. QED BY <1>3, <1>4, <2>2, <3>1
  <2>3. QED BY <2>1, <2>2
<1>5. ASSUME \A s \in Sockets : (sock[s].inSet /\ "READ" \in sock[s].xSocketBits)
                               => sock[s].waiting # <<>>,
             task'[Selector].at \in {"answer", "bits", "look"}
      PROVE  \A s \in Sockets : (sock'[s].inSet /\ "READ" \in sock'[s].xSocketBits)
                               => sock'[s].waiting # <<>>
  BY <1>2, <1>3, <1>5
<1>6. QED BY <1>1, <1>4, <1>5 DEF SelectOK

\* A packet for a UDP socket
LEMMA DatagramInvariant ==
  ASSUME IInv, NEW p \in Ports, NEW d \in Datagrams, xProcessReceivedUDPPacket(p, d)
  PROVE  IInv'
PROOF
<1>1. UNCHANGED <<queue, task>> BY DEF xProcessReceivedUDPPacket
<1>2. PICK x \in BoundUdp :
        /\ sock' = [sock EXCEPT ![x].waiting = Append(@, d),
                                ![x].xEventGroup = @ \cup {"RECEIVE"}]
        /\ xSelectGroup' = IF sock[x].inSet /\ "READ" \in sock[x].xSelectBits
                           THEN xSelectGroup \cup {"READ"} ELSE xSelectGroup
  BY DEF xProcessReceivedUDPPacket
<1>3. x \in Sockets /\ x \in Udp /\ x \notin Tcp /\ sock[x].bound
  BY SocketsAssumption DEF BoundUdp, Sockets
<1>4. sock \in [Sockets -> Socket] /\ sock[x] \in Socket /\ SocketOK(x) BY <1>3 DEF IInv, TypeOK
<1> DEFINE c == [sock[x] EXCEPT !.waiting = Append(@, d), !.xEventGroup = @ \cup {"RECEIVE"}]
<1>5. Append(sock[x].waiting, d) \in Seq(Datagrams) /\ Append(sock[x].waiting, d) # <<>>
  BY <1>4, AppendProperties DEF Socket
<1>6. c \in Socket BY <1>4, <1>5 DEF Socket, Bits
<1>7. /\ c.waiting # <<>> /\ c.xEventGroup = sock[x].xEventGroup \cup {"RECEIVE"}
      /\ c.bound = sock[x].bound /\ c.open = sock[x].open /\ c.inSet = sock[x].inSet
      /\ c.usLocalPort = sock[x].usLocalPort /\ c.state = sock[x].state
      /\ c.xEventBits = sock[x].xEventBits /\ c.xSocketBits = sock[x].xSocketBits
      /\ c.xSelectBits = sock[x].xSelectBits /\ c.txSpace = sock[x].txSpace
  BY <1>4, <1>5 DEF Socket
<1>8. sock' = [sock EXCEPT ![x] = c] BY <1>2, <1>4
<1>9. sock'[x] = c /\ sock' \in [Sockets -> Socket] BY <1>3, <1>6, <1>8, OneSocket
<1> HIDE DEF c
<1>10. TypeOK' BY <1>1, <1>2, <1>9 DEF IInv, TypeOK, eSELECT_ALL
<1>11. SocketOK(x)' BY <1>3, <1>4, <1>7, <1>9 DEF SocketOK
<1>12. \A s \in Sockets : SocketOK(s)' BY <1>3, <1>6, <1>8, <1>11, OtherSockets
<1>13. QueueOK'
  <2>1. \A s \in Sockets : sock'[s].bound = sock[s].bound /\ sock'[s].open = sock[s].open
    BY <1>3, <1>6, <1>7, <1>8, <1>9, OneSocket
  <2>2. QED BY <1>1, <2>1 DEF IInv, QueueOK, IsEvent, Sockets
<1>14. \A t \in Tasks : TaskOK(t)' BY <1>1, <1>3, <1>6, <1>7, <1>8, TasksFind DEF Due
<1>15. SelectOK'
  <2>1. Ready(x)' \subseteq {"READ"} /\ (Ready(x)' # {} => "READ" \in sock[x].xSelectBits)
    BY <1>3, <1>7, <1>9 DEF Ready
  <2>2. x \in InSet' => x \in InSet /\ sock[x].inSet BY <1>3, <1>7, <1>9 DEF InSet
  <2>3. x \in InSet' => (Ready(x) \subseteq xSelectGroup \cup sock[x].xEventBits)'
    BY <1>2, <2>1, <2>2
  <2>4. xSelectGroup \subseteq xSelectGroup' BY <1>2
  <2>5. QED BY <1>1, <1>3, <1>6, <1>7, <1>8, <2>2, <2>3, <2>4, SetTells DEF IsEvent
<1>16. PortsAreUnique' BY <1>3, <1>6, <1>7, <1>8, SamePorts
<1>17. QED BY <1>10, <1>12, <1>13, <1>14, <1>15, <1>16 DEF IInv

\* What packets leave at a TCP socket: the bits that fit what has changed.
LEMMA LeftInvariant ==
  ASSUME IInv, NEW x \in Tcp, NEW w \in Seq(Datagrams), NEW space \in BOOLEAN,
         NEW state \in {"eESTABLISHED", "eCLOSED", "eCLOSE_WAIT"},
         NEW event \in {"RECEIVE", "SEND", "CLOSED"}, NEW select \in eSELECT_ALL,
         UNCHANGED <<xSelectGroup, queue, task>>, sock[x].state = "eESTABLISHED",
         w # sock[x].waiting => w # <<>> /\ event = "RECEIVE" /\ select = "READ",
         state # sock[x].state => event = "CLOSED" /\ select = "EXCEPT",
         space # sock[x].txSpace => space /\ event = "SEND" /\ select = "WRITE",
         select = "READ" => w # <<>>,
         sock' = [sock EXCEPT ![x] =
                    [sock[x] EXCEPT !.waiting = w, !.txSpace = space, !.state = state,
                       !.xEventBits = @ \cup {event} \cup (sock[x].xSelectBits \cap {select})]]
  PROVE  IInv'
PROOF
<1>1. x \in Sockets /\ x \notin Udp BY SocketsAssumption DEF Sockets
<1>2. sock \in [Sockets -> Socket] /\ sock[x] \in Socket /\ SocketOK(x) BY <1>1 DEF IInv, TypeOK
<1> DEFINE c == [sock[x] EXCEPT !.waiting = w, !.txSpace = space, !.state = state,
                   !.xEventBits = @ \cup {event} \cup (sock[x].xSelectBits \cap {select})]
<1>3. c \in Socket BY <1>2 DEF Socket, Bits, eSELECT_ALL
<1>4. /\ c.waiting = w /\ c.state = state /\ c.txSpace = space
      /\ c.xEventBits = sock[x].xEventBits \cup {event} \cup (sock[x].xSelectBits \cap {select})
      /\ c.bound = sock[x].bound /\ c.open = sock[x].open /\ c.inSet = sock[x].inSet
      /\ c.usLocalPort = sock[x].usLocalPort /\ c.xEventGroup = sock[x].xEventGroup
      /\ c.xSocketBits = sock[x].xSocketBits
      /\ c.xSelectBits = sock[x].xSelectBits /\ c.bConnPassed = sock[x].bConnPassed
  BY <1>2 DEF Socket
<1>5. sock' = [sock EXCEPT ![x] = c] OBVIOUS
<1>6. sock'[x] = c /\ sock' \in [Sockets -> Socket] BY <1>1, <1>3, <1>5, OneSocket
<1> HIDE DEF c
<1>7. TypeOK' BY <1>6 DEF IInv, TypeOK
<1>8. SocketOK(x)'
  <2>1. c.bound /\ c.bound = c.open BY <1>1, <1>2, <1>4 DEF SocketOK
  <2>2. "READ" \in c.xEventBits => c.waiting # <<>> BY <1>2, <1>4 DEF SocketOK
  <2>3. QED BY <1>1, <1>2, <1>4, <1>6, <2>1, <2>2 DEF SocketOK
<1>9. \A s \in Sockets : SocketOK(s)' BY <1>1, <1>3, <1>5, <1>8, OtherSockets
<1>10. QueueOK'
  <2>1. \A s \in Sockets : sock'[s].bound = sock[s].bound /\ sock'[s].open = sock[s].open
    BY <1>1, <1>3, <1>4, <1>5, <1>6, OneSocket
  <2>2. QED BY <2>1 DEF IInv, QueueOK, IsEvent, Sockets
<1>11. \A t \in Tasks : TaskOK(t)'
  <2>1. sock[x].waiting # <<>> => c.waiting # <<>> BY <1>4
  <2>2. QED BY <1>1, <1>3, <1>4, <1>5, <2>1, TasksFind DEF Due
<1>12. SelectOK'
  <2>1. x \in InSet' => x \in InSet BY <1>4, <1>6 DEF InSet
  <2>2. Ready(x)' \subseteq Ready(x) \cup c.xEventBits
    <3>1. sock[x].txSpace => c.txSpace BY <1>2, <1>4 DEF Socket
    <3>2. SUFFICES ASSUME NEW b \in Ready(x)' PROVE b \in Ready(x) \cup c.xEventBits OBVIOUS
    <3>3. b \in sock[x].xSelectBits BY <1>4, <1>6, <3>2 DEF Ready
    <3>4. CASE b = select BY <1>4, <3>3, <3>4
    <3>5. CASE b = "READ" /\ b # select BY <1>1, <1>4, <1>6, <3>2, <3>3, <3>5 DEF Ready
    <3>6. CASE b = "WRITE" /\ b # select
      <4>1. c.txSpace = sock[x].txSpace BY <1>4, <3>6
      <4>2. QED BY <1>1, <1>4, <1>6, <3>2, <3>3, <3>6, <4>1 DEF Ready
    <3>7. CASE b = "EXCEPT" /\ b # select
      <4>1. c.state = sock[x].state BY <1>4, <3>7
      <4>2. QED BY <1>1, <1>4, <1>6, <3>2, <3>3, <3>7, <4>1 DEF Ready
    <3>8. QED BY <3>2, <3>4, <3>5, <3>6, <3>7 DEF Ready
  <2>3. (Ready(x) \subseteq xSelectGroup \cup sock[x].xEventBits)
                => (Ready(x) \subseteq xSelectGroup \cup sock[x].xEventBits)'
    BY <1>4, <1>6, <2>2
  <2>4. c.inSet /\ "READ" \in c.xSocketBits =>
           \/ c.waiting # <<>>
           \/ /\ sock[x].inSet /\ "READ" \in sock[x].xSocketBits
              /\ sock[x].waiting = <<>>
    BY <1>4
  <2>5. UNCHANGED <<queue, task>> /\ xSelectGroup \subseteq xSelectGroup' OBVIOUS
  <2>6. QED BY <1>1, <1>3, <1>5, <2>1, <2>3, <2>4, <2>5, SetTells DEF IsEvent
<1>13. PortsAreUnique' BY <1>1, <1>3, <1>4, <1>5, SamePorts
<1>14. QED BY <1>7, <1>9, <1>10, <1>11, <1>12, <1>13 DEF IInv

\* lTCPAddRxdata, prvHandleEstablished and vTCPStateChange
LEMMA TcpInvariant ==
  ASSUME IInv, NEW x \in Tcp,
         \/ \E d \in Datagrams : TcpData(x, d)
         \/ TcpAcked(x)
         \/ \E state \in {"eCLOSED", "eCLOSE_WAIT"} : TcpCloses(x, state)
  PROVE  IInv'
PROOF
<1>1. x \in Sockets BY DEF Sockets
<1>2. sock \in [Sockets -> Socket] /\ sock[x] \in Socket BY <1>1 DEF IInv, TypeOK
<1> DEFINE c(w, space, state, event, select) ==
             [sock[x] EXCEPT !.waiting = w, !.txSpace = space, !.state = state,
                !.xEventBits = @ \cup {event} \cup (sock[x].xSelectBits \cap {select})]
<1>3. ASSUME NEW d \in Datagrams, TcpData(x, d) PROVE IInv'
  <2> DEFINE w == Append(sock[x].waiting, d)
  <2>1. w \in Seq(Datagrams) /\ w # <<>> BY <1>2, AppendProperties DEF Socket
  <2>0. sock' = [sock EXCEPT ![x] = Left([sock[x] EXCEPT !.waiting = w], "RECEIVE", "READ")]
    BY <1>2, <1>3 DEF TcpData
  <2> HIDE DEF w
  <2>2. sock' = [sock EXCEPT ![x] = c(w, sock[x].txSpace, sock[x].state, "RECEIVE", "READ")]
    BY <1>2, <2>0 DEF Left, Socket
  <2>3. sock[x].txSpace \in BOOLEAN
        /\ sock[x].state \in {"eESTABLISHED", "eCLOSED", "eCLOSE_WAIT"}
    BY <1>2 DEF Socket
  <2>4. UNCHANGED <<xSelectGroup, queue, task>> /\ sock[x].state = "eESTABLISHED"
    BY <1>3 DEF TcpData
  <2>5. QED BY <2>1, <2>2, <2>3, <2>4, LeftInvariant DEF eSELECT_ALL
<1>4. ASSUME TcpAcked(x) PROVE IInv'
  <2>1. sock' = [sock EXCEPT ![x] = c(sock[x].waiting, TRUE, sock[x].state, "SEND", "WRITE")]
    BY <1>2, <1>4 DEF TcpAcked, Left, Socket
  <2>2. sock[x].waiting \in Seq(Datagrams)
        /\ sock[x].state \in {"eESTABLISHED", "eCLOSED", "eCLOSE_WAIT"}
    BY <1>2 DEF Socket
  <2>3. UNCHANGED <<xSelectGroup, queue, task>> /\ sock[x].state = "eESTABLISHED"
    BY <1>4 DEF TcpAcked
  <2>4. QED BY <2>1, <2>2, <2>3, LeftInvariant DEF eSELECT_ALL
<1>5. ASSUME NEW state \in {"eCLOSED", "eCLOSE_WAIT"}, TcpCloses(x, state) PROVE IInv'
  <2>1. sock' = [sock EXCEPT ![x] = c(sock[x].waiting, sock[x].txSpace, state, "CLOSED", "EXCEPT")]
    BY <1>2, <1>5 DEF TcpCloses, Left, Socket
  <2>2. sock[x].waiting \in Seq(Datagrams) /\ sock[x].txSpace \in BOOLEAN BY <1>2 DEF Socket
  <2>3. UNCHANGED <<xSelectGroup, queue, task>> /\ sock[x].state = "eESTABLISHED"
    BY <1>5 DEF TcpCloses
  <2>4. QED BY <2>1, <2>2, <2>3, LeftInvariant DEF eSELECT_ALL
<1>6. QED BY <1>3, <1>4, <1>5

\* xTCPTimerCheck passes the bits on.
LEMMA TimerInvariant ==
  ASSUME IInv, NEW x \in Tcp, xTCPTimerCheck(x) PROVE IInv'
PROOF
<1>0. UNCHANGED <<queue, task>> BY DEF xTCPTimerCheck
<1>1. x \in Sockets /\ x \notin Udp BY SocketsAssumption DEF Sockets
<1>2. sock \in [Sockets -> Socket] /\ sock[x] \in Socket /\ SocketOK(x) BY <1>1 DEF IInv, TypeOK
<1> DEFINE c == Woken(sock[x])
<1>3. c \in Socket BY <1>2 DEF Socket, Bits, Woken
<1>4. /\ c.xEventBits = {}
      /\ c.xEventGroup = sock[x].xEventGroup \cup (sock[x].xEventBits \ eSELECT_ALL)
      /\ c.xSocketBits = IF sock[x].inSet
                         THEN sock[x].xSocketBits \cup (sock[x].xEventBits \cap eSELECT_ALL)
                         ELSE sock[x].xSocketBits
      /\ c.waiting = sock[x].waiting /\ c.state = sock[x].state /\ c.txSpace = sock[x].txSpace
      /\ c.bound = sock[x].bound /\ c.open = sock[x].open /\ c.inSet = sock[x].inSet
      /\ c.usLocalPort = sock[x].usLocalPort
      /\ c.xSelectBits = sock[x].xSelectBits /\ c.bConnPassed = sock[x].bConnPassed
  BY <1>2 DEF Socket, Woken
<1>5. sock' = [sock EXCEPT ![x] = c] BY <1>2 DEF xTCPTimerCheck
<1>6. sock'[x] = c /\ sock' \in [Sockets -> Socket] BY <1>1, <1>3, <1>5, OneSocket
<1> HIDE DEF c
<1>7. xSelectGroup' = IF sock[x].inSet
                      THEN xSelectGroup \cup (sock[x].xEventBits \cap eSELECT_ALL)
                      ELSE xSelectGroup
  BY DEF xTCPTimerCheck
<1>8. TypeOK' BY <1>0, <1>6, <1>7 DEF IInv, TypeOK
<1>9. SocketOK(x)'
  <2>1. ~ c.bound => c.xSocketBits = {} BY <1>2, <1>4 DEF SocketOK
  <2>2. QED BY <1>1, <1>2, <1>4, <1>6, <2>1 DEF SocketOK
<1>10. \A s \in Sockets : SocketOK(s)' BY <1>1, <1>3, <1>5, <1>9, OtherSockets
<1>11. QueueOK'
  <2>1. \A s \in Sockets : sock'[s].bound = sock[s].bound /\ sock'[s].open = sock[s].open
    BY <1>1, <1>3, <1>4, <1>5, <1>6, OneSocket
  <2>2. QED BY <1>0, <2>1 DEF IInv, QueueOK, IsEvent, Sockets
<1>12. \A t \in Tasks : TaskOK(t)'
  <2>1. ASSUME NEW t \in Tasks, t # Owner[x] \/ task[t].at \notin Using PROVE TaskOK(t)'
    BY <1>0, <1>1, <1>3, <1>5, <2>1, OtherTasks
  <2>2. ASSUME NEW t \in Tasks, task[t].at \in Using PROVE TaskOK(t)'
    <3>1. TaskOK(t) /\ task[t].s \in Sockets BY <2>2 DEF IInv, TaskOK
    <3>2. CASE task[t].s = x BY <1>0, <1>4, <1>6, <3>1, <3>2 DEF TaskOK, Due, eSELECT_ALL
    <3>3. CASE task[t].s # x
      <4>1. sock'[task[t].s] = sock[task[t].s] BY <1>1, <1>3, <1>5, <3>1, <3>3, OneSocket
      <4>2. QED BY <1>0, <3>1, <4>1 DEF TaskOK, Due
    <3>4. QED BY <3>2, <3>3
  <2>3. QED BY <2>1, <2>2
<1>13. SelectOK'
  <2>1. x \in InSet' => x \in InSet BY <1>4, <1>6 DEF InSet
  <2>3. Ready(x)' = Ready(x) BY <1>4, <1>6 DEF Ready
  <2>4. Ready(x) \subseteq eSELECT_ALL BY <1>2 DEF Ready, Socket
  <2>5. x \in InSet' => ((Ready(x) \subseteq xSelectGroup \cup sock[x].xEventBits)
                 => (Ready(x) \subseteq xSelectGroup \cup sock[x].xEventBits)')
    BY <1>4, <1>6, <1>7, <2>1, <2>3, <2>4 DEF InSet
  <2>6. c.inSet /\ "READ" \in c.xSocketBits =>
           \/ c.waiting # <<>>
           \/ /\ sock[x].inSet /\ "READ" \in sock[x].xSocketBits
              /\ sock[x].waiting = <<>>
    BY <1>2, <1>4 DEF SocketOK
  <2>7. xSelectGroup \subseteq xSelectGroup' BY <1>7
  <2>8. QED BY <1>0, <1>1, <1>3, <1>5, <2>1, <2>5, <2>6, <2>7, SetTells DEF IsEvent
<1>14. PortsAreUnique' BY <1>1, <1>3, <1>4, <1>5, SamePorts
<1>15. QED BY <1>8, <1>10, <1>11, <1>12, <1>13, <1>14 DEF IInv

\* The IP task serves the event that waits.
LEMMA QueueEmpties ==
  ASSUME IInv, queue # <<>>, queue' = Tail(queue)
  PROVE  /\ queue' = <<>> /\ queue' \in Seq(Event) /\ QueueOK'
         /\ \A type : ~ IsEvent(type)'
PROOF
<1>1. queue' = <<>> BY Served
<1>2. queue' \in Seq(Event) BY <1>1, EmptySeq
<1>3. \A type : ~ IsEvent(type)' BY <1>1 DEF IsEvent
<1>4. Len(queue') <= 1
  <2>1. Len(<<>>) = 0 BY EmptySeq, Zenon
  <2>2. Len(queue') = 0 BY <1>1, <2>1, Zenon
  <2>3. QED BY <2>2
<1>5. QED BY <1>1, <1>2, <1>3, <1>4 DEF QueueOK

\* vSocketBind
LEMMA HandleBindInvariant == ASSUME IInv, HandleBind PROVE IInv'
PROOF
<1>1. IsEvent("eSocketBindEvent") /\ queue # <<>> /\ UNCHANGED <<xSelectGroup, task>>
  BY DEF HandleBind, IsEvent
<1>2. queue' \in Seq(Event) /\ QueueOK' /\ (\A type : ~ IsEvent(type)')
  BY <1>1, QueueEmpties DEF HandleBind
<1>3. PICK x \in Sockets : /\ x = Head(queue).s /\ x \in Udp /\ x \notin Tcp
                           /\ ~ sock[x].bound /\ sock[x].open
  BY <1>1, SocketsAssumption DEF IInv, QueueOK, Sockets
<1>4. sock \in [Sockets -> Socket] /\ sock[x] \in Socket /\ SocketOK(x) BY <1>3 DEF IInv, TypeOK
<1>5. PICK p \in Nat : sock' = [sock EXCEPT ![x] = vSocketBind(x, p)]
  <2>1. sock[x].usLocalPort \in Nat BY <1>4 DEF Socket
  <2>2. prvGetPrivatePortNumber \subseteq Nat
    BY SocketsAssumption DEF prvGetPrivatePortNumber, Ports
  <2>3. \E p \in IF sock[x].usLocalPort = 0 THEN prvGetPrivatePortNumber
                 ELSE {sock[x].usLocalPort} :
        sock' = [sock EXCEPT ![x] = vSocketBind(x, p)]
    BY <1>3 DEF HandleBind
  <2>4. QED BY <2>1, <2>2, <2>3
<1> DEFINE b == [sock[x] EXCEPT !.bound = ~ PortTaken(p),
                                !.usLocalPort = IF PortTaken(p) THEN 0 ELSE p,
                                !.xEventBits = @ \cup {"BOUND"}]
           c == Woken(b)
<1>6. PortTaken(p) \in BOOLEAN BY DEF PortTaken, InUse
<1>7. b \in Socket BY <1>4, <1>6 DEF Socket, Bits
<1>8. /\ b.bound = ~ PortTaken(p) /\ (b.bound => b.usLocalPort = p)
      /\ b.open = sock[x].open /\ b.xEventBits = {"BOUND"} /\ b.waiting = <<>> /\ b.state = sock[x].state
      /\ b.txSpace = sock[x].txSpace /\ b.inSet = sock[x].inSet
      /\ b.xSocketBits = {} /\ b.xEventGroup = sock[x].xEventGroup
  BY <1>3, <1>4, <1>6 DEF Socket, SocketOK
<1> HIDE DEF b
<1>9. c \in Socket BY <1>7 DEF Socket, Bits, Woken
<1>10. /\ c.bound = b.bound /\ c.usLocalPort = b.usLocalPort /\ c.xEventBits = {}
       /\ c.waiting = <<>> /\ c.state = sock[x].state /\ c.txSpace = sock[x].txSpace
       /\ c.inSet = sock[x].inSet /\ sock[x].xEventGroup \subseteq c.xEventGroup
       /\ c.open = sock[x].open /\ c.xSocketBits = {}
  BY <1>7, <1>8 DEF Socket, Woken, eSELECT_ALL
<1>11. sock' = [sock EXCEPT ![x] = c] BY <1>5 DEF b, vSocketBind
<1> HIDE DEF c
<1>12. sock'[x] = c /\ sock' \in [Sockets -> Socket]
       /\ \A s \in Sockets : s # x => sock'[s] = sock[s]
  BY <1>3, <1>9, <1>11, OneSocket
<1>13. TypeOK' BY <1>1, <1>2, <1>12 DEF IInv, TypeOK
<1>14. SocketOK(x)' BY <1>3, <1>4, <1>10, <1>12 DEF SocketOK
<1>15. \A s \in Sockets : SocketOK(s)' BY <1>3, <1>9, <1>11, <1>14, OtherSockets
<1>16. \A t \in Tasks : TaskOK(t)'
  <2>1. sock[x].waiting = <<>> /\ sock[x].xEventBits = {} BY <1>3, <1>4 DEF SocketOK
  <2>2. QED BY <1>1, <1>3, <1>9, <1>10, <1>11, <2>1, TasksFind DEF Due
<1>17. SelectOK'
  <2>1. Ready(x)' = {} BY <1>3, <1>10, <1>12 DEF Ready
  <2>2. ~ IsEvent("eSocketSelectEvent") BY <1>1 DEF IsEvent
  <2>3. QED BY <1>1, <1>2, <1>3, <1>9, <1>10, <1>11, <2>1, <2>2, SetTells
<1>18. PortsAreUnique'
  <2>1. ASSUME c.bound, NEW s \in BoundUdp', s # x PROVE sock'[s].usLocalPort # sock'[x].usLocalPort
    <3>1. s \in BoundUdp /\ sock'[s] = sock[s] BY <1>12, <2>1 DEF BoundUdp, Sockets
    <3>2. ~ InUse(p) BY <1>6, <1>8, <1>10, <2>1 DEF PortTaken
    <3>3. QED BY <1>8, <1>10, <1>12, <2>1, <3>1, <3>2 DEF InUse
  <2>2. \A s \in BoundUdp' : s # x => s \in BoundUdp /\ sock'[s] = sock[s]
    BY <1>12 DEF BoundUdp, Sockets
  <2>3. x \in BoundUdp' => c.bound BY <1>12 DEF BoundUdp
  <2>4. QED BY <2>1, <2>2, <2>3 DEF IInv, PortsAreUnique
<1>19. QED BY <1>2, <1>13, <1>15, <1>16, <1>17, <1>18 DEF IInv

\* vSocketClose
LEMMA HandleCloseInvariant == ASSUME IInv, HandleClose PROVE IInv'
PROOF
<1>1. IsEvent("eSocketCloseEvent") /\ queue # <<>> /\ UNCHANGED <<xSelectGroup, task>>
  BY DEF HandleClose, IsEvent
<1>2. queue' \in Seq(Event) /\ QueueOK' /\ (\A type : ~ IsEvent(type)')
  BY <1>1, QueueEmpties DEF HandleClose
<1>3. PICK x \in Sockets : x = Head(queue).s /\ x \in Udp /\ x \notin Tcp
                            /\ task[Owner[x]].at = "idle"
  BY <1>1, SocketsAssumption DEF IInv, QueueOK, Sockets
<1>4. sock' = [sock EXCEPT ![x] = Blank] BY <1>3 DEF HandleClose
<1>5. Blank \in Socket BY SocketIsTyped
<1>6. sock'[x] = Blank /\ sock' \in [Sockets -> Socket] BY <1>3, <1>4, <1>5, OneSocket
<1>7. TypeOK' BY <1>1, <1>2, <1>6 DEF IInv, TypeOK
<1>8. SocketOK(x)' BY <1>3, <1>6 DEF SocketOK, Blank
<1>9. \A s \in Sockets : SocketOK(s)' BY <1>3, <1>4, <1>5, <1>8, OtherSockets
<1>10. \A t \in Tasks : TaskOK(t)'
  <2>1. \A t \in Tasks : t # Owner[x] \/ task[t].at \notin Using BY <1>3 DEF Using
  <2>2. QED BY <1>1, <1>3, <1>4, <1>5, <2>1, OtherTasks
<1>11. ~ Blank.inSet /\ ~ Blank.bound BY DEF Blank
<1>12. SelectOK'
  <2>1. x \notin InSet' BY <1>6, <1>11 DEF InSet
  <2>2. ~ IsEvent("eSocketSelectEvent") BY <1>1 DEF IsEvent
  <2>3. QED BY <1>1, <1>2, <1>3, <1>4, <1>5, <1>11, <2>1, <2>2, SetTells
<1>13. PortsAreUnique' BY <1>3, <1>4, <1>5, <1>11, SamePorts
<1>14. QED BY <1>2, <1>7, <1>9, <1>10, <1>12, <1>13 DEF IInv

\* vSocketSelect
LEMMA SocketSelectInvariant == ASSUME IInv, vSocketSelect PROVE IInv'
PROOF
<1>1. queue # <<>> /\ UNCHANGED task /\ xSelectGroup' = SelectBits \cup {"CALL_IP"}
  BY DEF vSocketSelect, IsEvent
<1>2. queue' \in Seq(Event) /\ QueueOK' /\ (\A type : ~ IsEvent(type)')
  BY <1>1, QueueEmpties DEF vSocketSelect
<1>3. \A s \in Sockets : sock[s] \in Socket /\ SocketOK(s) BY DEF IInv, TypeOK
<1>4. \A s \in Sockets :
        sock'[s] = IF s \in InSet
                   THEN [sock[s] EXCEPT
                           !.xSocketBits = Ready(s),
                           !.bConnPassed = @ \/ ("WRITE" \in Ready(s) /\ ~ sock[s].txSpace)]
                   ELSE sock[s]
  BY DEF vSocketSelect
<1>5. \A s \in Sockets : Ready(s) \subseteq eSELECT_ALL BY <1>3 DEF Ready, Socket
<1>6. ASSUME NEW s \in Sockets
      PROVE  /\ sock'[s] \in Socket
             /\ sock'[s].bound = sock[s].bound /\ sock'[s].open = sock[s].open
             /\ sock'[s].usLocalPort = sock[s].usLocalPort
             /\ sock'[s].waiting = sock[s].waiting /\ sock'[s].state = sock[s].state
             /\ sock'[s].txSpace = sock[s].txSpace /\ sock'[s].inSet = sock[s].inSet
             /\ sock'[s].xSelectBits = sock[s].xSelectBits
             /\ sock'[s].xEventBits = sock[s].xEventBits
             /\ sock'[s].xEventGroup = sock[s].xEventGroup
             /\ sock[s].bConnPassed => sock'[s].bConnPassed
             /\ s \in InSet => sock'[s].xSocketBits = Ready(s)
             /\ s \notin InSet => sock'[s].xSocketBits = sock[s].xSocketBits
  <2>1. CASE s \in InSet
    <3> DEFINE passed == sock[s].bConnPassed \/ ("WRITE" \in Ready(s) /\ ~ sock[s].txSpace)
    <3>1. passed \in BOOLEAN OBVIOUS
    <3>2. sock'[s] = [sock[s] EXCEPT !.xSocketBits = Ready(s), !.bConnPassed = passed]
      BY <1>4, <2>1
    <3>4. sock[s].bConnPassed => passed BY DEF passed
    <3> HIDE DEF passed
    <3>3. QED BY <1>3, <1>5, <2>1, <3>1, <3>2, <3>4 DEF Socket
  <2>2. CASE s \notin InSet BY <1>3, <1>4, <2>2
  <2>3. QED BY <2>1, <2>2
<1>7. TypeOK'
  <2>1. sock' \in [Sockets -> Socket] BY <1>6 DEF vSocketSelect
  <2>2. SelectBits \subseteq eSELECT_ALL BY <1>5 DEF SelectBits, InSet
  <2>3. QED BY <1>1, <1>2, <2>1, <2>2 DEF IInv, TypeOK
<1>8. \A s \in Sockets : SocketOK(s)'
  <2>1. SUFFICES ASSUME NEW s \in Sockets PROVE SocketOK(s)' OBVIOUS
  <2>2. ~ sock[s].bound => sock'[s].xSocketBits = {} BY <1>3, <1>6 DEF SocketOK, InSet
  <2>3. QED BY <1>3, <1>6, <2>2 DEF SocketOK
<1>9. \A t \in Tasks : TaskOK(t)'
  <2>1. SUFFICES ASSUME NEW t \in Tasks PROVE TaskOK(t)' OBVIOUS
  <2>2. TaskOK(t) BY DEF IInv
  <2>3. CASE task[t].at \in Using
    <3>1. task[t].s \in Sockets BY <2>2, <2>3 DEF TaskOK
    <3>2. QED BY <1>1, <1>6, <2>2, <3>1 DEF TaskOK, Due
  <2>4. CASE task[t].at \notin Using BY <1>1, <2>4 DEF TaskOK, Using
  <2>5. QED BY <2>3, <2>4
<1>10. SelectOK'
  <2>1. ASSUME NEW s \in InSet' PROVE (Ready(s) \subseteq xSelectGroup \cup sock[s].xEventBits)'
    <3>1. s \in InSet /\ s \in Sockets BY <1>6 DEF InSet
    <3>2. Ready(s)' \subseteq Ready(s) BY <1>6, <3>1 DEF Ready
    <3>3. Ready(s) \subseteq SelectBits BY <3>1 DEF SelectBits
    <3>4. QED BY <1>1, <3>2, <3>3
  <2>2. ASSUME NEW s \in Sockets, sock'[s].inSet, "READ" \in sock'[s].xSocketBits
        PROVE  sock'[s].waiting # <<>>
    <3>1. sock[s].bound /\ s \in InSet BY <1>3, <1>6, <2>2 DEF SocketOK, InSet
    <3>2. QED BY <1>6, <2>2, <3>1 DEF Ready
  <2>3. QED BY <2>1, <2>2 DEF SelectOK
<1>11. PortsAreUnique'
  <2>1. BoundUdp' = BoundUdp /\ \A s \in BoundUdp : sock'[s].usLocalPort = sock[s].usLocalPort
    BY <1>6 DEF BoundUdp, Sockets
  <2>2. QED BY <2>1 DEF IInv, PortsAreUnique
<1>12. QED BY <1>2, <1>7, <1>8, <1>9, <1>10, <1>11 DEF IInv

-----------------------------------------------------------------------------
(* Steps of a task with a socket of its own.                                 *)

LEMMA QueueStays ==
  ASSUME IInv, Asleep, UNCHANGED queue
  PROVE  queue' \in Seq(Event) /\ QueueOK' /\ \A type : ~ IsEvent(type)'
PROOF
<1>1. queue = <<>> BY NothingWaits
<1>2. \A type : ~ IsEvent(type)' BY <1>1 DEF IsEvent
<1>3. Len(queue') <= 1 /\ queue' \in Seq(Event) BY DEF IInv, QueueOK, TypeOK
<1>4. QED BY <1>2, <1>3 DEF QueueOK

LEMMA OwnStep ==
  ASSUME IInv, UNCHANGED xSelectGroup, queue' \in Seq(Event), QueueOK', NEW t \in Tasks,
         NEW r \in TaskState, task' = [task EXCEPT ![t] = r],
         NEW x \in Sockets, Owner[x] = t, NEW c \in Socket, sock' = [sock EXCEPT ![x] = c],
         c.bound => sock[x].bound /\ c.usLocalPort = sock[x].usLocalPort,
         SocketOK(x)', TaskOK(t)', SelectOK'
  PROVE  IInv'
PROOF
<1>2. TypeOK'
  <2>1. sock' \in [Sockets -> Socket] BY OneSocket
  <2>2. QED BY <2>1 DEF IInv, TypeOK, TaskState
<1>3. \A s \in Sockets : SocketOK(s)' BY OtherSockets
<1>5. ASSUME NEW q \in Tasks PROVE TaskOK(q)'
  <2>1. CASE q # t
    <3>1. task'[q] = task[q] BY <2>1 DEF IInv, TypeOK
    <3>2. QED BY <2>1, <3>1, OtherTasks
  <2>2. QED BY <2>1
<1>6. PortsAreUnique' BY SamePorts
<1>7. QED BY <1>2, <1>3, <1>5, <1>6 DEF IInv

\* The set tells what is true after such a step, for a socket that has no more than before.
LEMMA OwnSelect ==
  ASSUME IInv, Asleep, UNCHANGED xSelectGroup, ~ IsEvent("eSocketSelectEvent")',
         NEW t \in Tasks, NEW r \in TaskState, task' = [task EXCEPT ![t] = r],
         task[t].at \notin {"ask", "post"}, r.at \notin {"answer", "bits", "look"},
         NEW x \in Sockets, Owner[x] = t, NEW c \in Socket, sock' = [sock EXCEPT ![x] = c],
         SocketOK(x)',
         c.inSet /\ c.bound =>
           /\ sock[x].inSet /\ sock[x].bound
           /\ c.waiting # <<>> => sock[x].waiting # <<>>
           /\ c.state = sock[x].state
           /\ c.xSelectBits \subseteq sock[x].xSelectBits
           /\ c.txSpace => sock[x].txSpace
           /\ c.bConnPassed = sock[x].bConnPassed
  PROVE  SelectOK'
PROOF
<1>1. Selector \in Tasks BY SocketsAssumption
<1>2. sock'[x] = c /\ sock[x].xEventBits = {} BY OneSocket, NothingWaits
<1>3. (IsEvent("eSocketSelectEvent")' <=> IsEvent("eSocketSelectEvent"))
      /\ ~ IsEvent("eSocketSelectEvent") /\ xSelectGroup \subseteq xSelectGroup'
  BY NothingWaits DEF IsEvent
<1>4. x \in InSet' => x \in InSet /\ Ready(x)' \subseteq Ready(x)
  BY <1>2 DEF Ready, InSet
<1>5. CASE t = Selector
  <2>1. task'[Selector] = r BY <1>1, <1>5 DEF IInv, TypeOK
  <2>3. x \in InSet' => ((Ready(x) \subseteq xSelectGroup \cup sock[x].xEventBits)
             => (Ready(x) \subseteq xSelectGroup \cup sock[x].xEventBits)')
    BY <1>2, <1>3, <1>4
  <2>4. QED BY <1>3, <1>4, <1>5, <2>1, <2>3, SetTells
<1>6. CASE t # Selector
  <2>1. task'[Selector] = task[Selector] BY <1>1, <1>6 DEF IInv, TypeOK
  <2>2. ~ c.inSet BY <1>2, <1>6, SocketsAssumption DEF SocketOK
  <2>3. x \notin InSet' BY <1>2, <2>2 DEF InSet
  <2>4. QED BY <1>3, <2>1, <2>2, <2>3, SetTells
<1>7. QED BY <1>5, <1>6

\* FreeRTOS_socket
LEMMA SocketInvariant ==
  ASSUME IInv, NEW t \in Tasks, NEW x \in Sockets, FreeRTOS_socket(t, x)
  PROVE  IInv'
PROOF
<1>1. Asleep /\ task[t].at = "idle" /\ x \in Udp /\ x \notin Tcp /\ Owner[x] = t
      /\ UNCHANGED <<xSelectGroup, queue, task>>
  BY SocketsAssumption DEF FreeRTOS_socket, At
<1> DEFINE c == [Blank EXCEPT !.open = TRUE]
<1>2. c \in Socket BY SocketIsTyped
<1>3. ~ c.bound /\ ~ c.inSet /\ c.waiting = <<>> /\ c.xEventBits = {} /\ c.xSocketBits = {}
      /\ c.state = "eCLOSED"
  BY DEF Blank
<1>4. sock' = [sock EXCEPT ![x] = c] BY DEF FreeRTOS_socket
<1> HIDE DEF c
<1>5. sock'[x] = c BY <1>2, <1>4, OneSocket
<1>6. SocketOK(x)' BY <1>1, <1>3, <1>5 DEF SocketOK
<1>7. task[t] \in TaskState /\ task' = [task EXCEPT ![t] = task[t]]
  BY <1>1, TypedTask DEF IInv, TypeOK
<1>8. TaskOK(t)' BY <1>1 DEF TaskOK, Using
<1>9. queue' \in Seq(Event) /\ QueueOK' /\ ~ IsEvent("eSocketSelectEvent")' BY <1>1, QueueStays
<1>10. SelectOK' BY <1>1, <1>2, <1>3, <1>4, <1>6, <1>7, <1>9, OwnSelect
<1>11. QED BY <1>1, <1>2, <1>3, <1>4, <1>6, <1>7, <1>8, <1>9, <1>10, OwnStep

\* FreeRTOS_bind
LEMMA BindInvariant ==
  ASSUME IInv, NEW t \in Tasks, NEW x \in Sockets, NEW p \in 0 .. MaxPort - 1,
         FreeRTOS_bind(t, x, p)
  PROVE  IInv'
PROOF
<1>1. Asleep /\ Calls(t, "bind", x) /\ task[t].at = "idle" /\ ~ sock[x].bound /\ sock[x].open
      /\ Owner[x] = t /\ xSelectGroup' = xSelectGroup
  BY DEF FreeRTOS_bind, Calls, At
<1>0. p \in Nat OBVIOUS
<1>2. sock \in [Sockets -> Socket] /\ sock[x] \in Socket /\ SocketOK(x) BY DEF IInv, TypeOK
<1>3. x \in Udp /\ x \notin Tcp BY <1>1, <1>2 DEF SocketOK, Sockets
<1> DEFINE c == [sock[x] EXCEPT !.usLocalPort = p]
<1>4. c \in Socket BY <1>0, <1>2 DEF Socket
<1>5. ~ c.bound /\ c.waiting = <<>> /\ c.xEventBits = {} /\ c.xSocketBits = {}
      /\ c.state = "eCLOSED" /\ c.inSet = sock[x].inSet /\ c.open
  BY <1>1, <1>2 DEF SocketOK, Socket
<1>6. sock' = [sock EXCEPT ![x] = c] BY <1>2 DEF FreeRTOS_bind
<1> HIDE DEF c
<1>7. sock'[x] = c BY <1>4, <1>6, OneSocket
<1>8. SocketOK(x)' BY <1>2, <1>3, <1>5, <1>7 DEF SocketOK
<1>9. "bind" \in Using /\ TypeOK BY DEF Using, IInv
<1>10. PICK r \in TaskState : /\ task' = [task EXCEPT ![t] = r] /\ task'[t] = r
                              /\ r.at = "bind" /\ r.s = x
  BY <1>1, <1>9, WhereCalls
<1>11. TaskOK(t)' BY <1>1, <1>10 DEF TaskOK
<1> DEFINE e == [type |-> "eSocketBindEvent", s |-> x]
<1>12. e \in Event /\ queue = <<>> /\ queue' = Append(queue, e)
  BY <1>1, NothingWaits DEF FreeRTOS_bind, Posts, Event
<1>13. queue' \in Seq(Event) /\ Len(queue') <= 1 /\ Head(queue') = e BY <1>12, Posted
<1>14. QueueOK' /\ ~ IsEvent("eSocketSelectEvent")'
  BY <1>3, <1>5, <1>7, <1>13 DEF QueueOK, IsEvent
<1>15. SelectOK' BY <1>1, <1>4, <1>5, <1>6, <1>8, <1>10, <1>14, OwnSelect
<1>16. QED BY <1>1, <1>4, <1>5, <1>6, <1>8, <1>10, <1>11, <1>13, <1>14, <1>15, OwnStep

\* FreeRTOS_closesocket
LEMMA CloseInvariant ==
  ASSUME IInv, NEW t \in Tasks, NEW x \in Sockets, FreeRTOS_closesocket(t, x)
  PROVE  IInv'
PROOF
<1>1. Asleep /\ task[t].at = "idle" /\ x \in Udp /\ Owner[x] = t
      /\ UNCHANGED <<sock, xSelectGroup, task>>
  BY DEF FreeRTOS_closesocket, At
<1>2. sock \in [Sockets -> Socket] /\ sock[x] \in Socket /\ SocketOK(x) BY DEF IInv, TypeOK
<1>3. sock' = [sock EXCEPT ![x] = sock[x]] /\ SocketOK(x)' BY <1>1, <1>2 DEF SocketOK
<1>4. task[t] \in TaskState /\ task' = [task EXCEPT ![t] = task[t]]
  BY <1>1, TypedTask DEF IInv, TypeOK
<1>5. TaskOK(t)' BY <1>1 DEF TaskOK, Using
<1> DEFINE e == [type |-> "eSocketCloseEvent", s |-> x]
<1>6. e \in Event /\ queue = <<>> /\ queue' = Append(queue, e)
  BY <1>1, NothingWaits DEF FreeRTOS_closesocket, Posts, Event
<1>7. queue' \in Seq(Event) /\ Len(queue') <= 1 /\ Head(queue') = e BY <1>6, Posted
<1>8. QueueOK' /\ ~ IsEvent("eSocketSelectEvent")' BY <1>1, <1>7 DEF QueueOK, IsEvent
<1>9. SelectOK' BY <1>1, <1>2, <1>3, <1>4, <1>8, OwnSelect
<1>10. QED BY <1>1, <1>2, <1>3, <1>4, <1>5, <1>7, <1>8, <1>9, OwnStep

\* What a task's place tells of its socket
LEMMA OwnSocket ==
  ASSUME IInv, NEW t \in Tasks, task[t].at \in Using
  PROVE  /\ task[t].s \in Sockets /\ Owner[task[t].s] = t
         /\ sock \in [Sockets -> Socket] /\ sock[task[t].s] \in Socket
         /\ SocketOK(task[t].s) /\ TaskOK(t) /\ TypeOK
PROOF
<1>1. TaskOK(t) /\ TypeOK BY DEF IInv
<1>2. task[t].s \in Sockets /\ Owner[task[t].s] = t BY <1>1 DEF TaskOK
<1>3. QED BY <1>1, <1>2 DEF IInv, TypeOK

LEMMA BindReturnsInvariant ==
  ASSUME IInv, NEW t \in Tasks, BindReturns(t) PROVE IInv'
PROOF
<1>1. Asleep /\ task[t].at = "bind" /\ Returns(t) /\ UNCHANGED <<xSelectGroup, queue>>
  BY DEF BindReturns, At
<1>2. PICK x \in Sockets : x = task[t].s /\ Owner[x] = t /\ SocketOK(x)
        /\ sock \in [Sockets -> Socket] /\ sock[x] \in Socket
  BY <1>1, OwnSocket DEF Using
<1> DEFINE c == [sock[x] EXCEPT !.xEventGroup = @ \ {"BOUND"}]
<1>3. c \in Socket BY <1>2 DEF Socket
<1>4. /\ c.bound = sock[x].bound /\ c.usLocalPort = sock[x].usLocalPort
      /\ c.open = sock[x].open /\ c.waiting = sock[x].waiting /\ c.state = sock[x].state
      /\ c.inSet = sock[x].inSet /\ c.xSelectBits = sock[x].xSelectBits
      /\ c.xSocketBits = sock[x].xSocketBits /\ c.xEventBits = sock[x].xEventBits
      /\ c.txSpace = sock[x].txSpace /\ c.bConnPassed = sock[x].bConnPassed
  BY <1>2 DEF Socket
<1>5. sock' = [sock EXCEPT ![x] = c] BY <1>2 DEF BindReturns
<1> HIDE DEF c
<1>6. sock'[x] = c BY <1>2, <1>3, <1>5, OneSocket
<1>7. SocketOK(x)' BY <1>2, <1>4, <1>6 DEF SocketOK
<1>8. /\ Idle \in TaskState /\ Idle.at = "idle" /\ TaskOK(t)'
      /\ task' = [task EXCEPT ![t] = Idle]
  BY <1>1, WhereReturns DEF IInv
<1>9. queue' \in Seq(Event) /\ QueueOK' /\ ~ IsEvent("eSocketSelectEvent")' BY <1>1, QueueStays
<1>10. SelectOK' BY <1>1, <1>2, <1>3, <1>4, <1>5, <1>7, <1>8, <1>9, OwnSelect
<1>11. QED BY <1>1, <1>2, <1>3, <1>4, <1>5, <1>7, <1>8, <1>9, <1>10, OwnStep

\* What was found is taken: by FreeRTOS_recvfrom or FreeRTOS_recv, or after FreeRTOS_select.
LEMMA TakeInvariant ==
  ASSUME IInv, NEW t \in Tasks, Take(t) \/ (t = Selector /\ ReadReady) PROVE IInv'
PROOF
<1>1. Asleep /\ task[t].at \in {"take", "read"} /\ Returns(t)
      /\ UNCHANGED <<xSelectGroup, queue>>
  BY DEF Take, ReadReady, At
<1>2. PICK x \in Sockets : x = task[t].s /\ Owner[x] = t /\ SocketOK(x)
        /\ sock \in [Sockets -> Socket] /\ sock[x] \in Socket /\ sock[x].waiting # <<>>
  BY <1>1, OwnSocket DEF Using, TaskOK
<1>3. Tail(sock[x].waiting) \in Seq(Datagrams)
  <2>1. sock[x].waiting \in Seq(Datagrams) BY <1>2 DEF Socket
  <2>2. QED BY <1>2, <2>1, HeadTailProperties
<1> DEFINE w == Tail(sock[x].waiting)
           c == [sock[x] EXCEPT !.waiting = w]
<1>4. sock' = [sock EXCEPT ![x] = c]
  <2>1. CASE Take(t) BY <1>2, <2>1 DEF Take
  <2>2. CASE t = Selector /\ ReadReady BY <1>2, <2>2 DEF ReadReady
  <2>3. QED BY <2>1, <2>2
<1> HIDE DEF w
<1>5. w \in Seq(Datagrams) BY <1>3 DEF w
<1>6. c \in Socket BY <1>2, <1>5 DEF Socket
<1>7. /\ c.bound = sock[x].bound /\ c.usLocalPort = sock[x].usLocalPort
      /\ c.open = sock[x].open /\ c.waiting = w /\ c.state = sock[x].state
      /\ c.inSet = sock[x].inSet /\ c.xSelectBits = sock[x].xSelectBits
      /\ c.xSocketBits = sock[x].xSocketBits /\ c.xEventBits = sock[x].xEventBits
      /\ c.txSpace = sock[x].txSpace /\ c.bConnPassed = sock[x].bConnPassed
  BY <1>2 DEF Socket
<1> HIDE DEF c
<1>8. sock'[x] = c BY <1>2, <1>4, <1>6, OneSocket
<1>9. SocketOK(x)'
  <2>1. sock[x].xEventBits = {} BY <1>1, NothingWaits
  <2>2. c.bound BY <1>2, <1>7 DEF SocketOK
  <2>3. QED BY <1>2, <1>7, <1>8, <2>1, <2>2 DEF SocketOK
<1>10. /\ Idle \in TaskState /\ Idle.at = "idle" /\ TaskOK(t)'
       /\ task' = [task EXCEPT ![t] = Idle]
  BY <1>1, WhereReturns DEF IInv
<1>11. queue' \in Seq(Event) /\ QueueOK' /\ ~ IsEvent("eSocketSelectEvent")' BY <1>1, QueueStays
<1>12. SelectOK' BY <1>1, <1>2, <1>4, <1>6, <1>7, <1>9, <1>10, <1>11, OwnSelect
<1>13. QED BY <1>1, <1>2, <1>4, <1>6, <1>7, <1>9, <1>10, <1>11, <1>12, OwnStep

\* A wait ends with a bit, which is cleared.
LEMMA WakesInvariant ==
  ASSUME IInv, NEW t \in Tasks, Wakes(t) PROVE IInv'
PROOF
<1>1. Asleep /\ task[t].at \in {"wait", "sendWait"} /\ UNCHANGED <<xSelectGroup, queue>>
  BY DEF Wakes, At
<1>2. PICK x \in Sockets : x = task[t].s /\ Owner[x] = t /\ SocketOK(x) /\ TaskOK(t)
        /\ sock \in [Sockets -> Socket] /\ sock[x] \in Socket
  BY <1>1, OwnSocket DEF Using
<1> DEFINE c == [sock[x] EXCEPT !.xEventGroup = @ \ Awaited(task[t].at)]
<1>3. c \in Socket BY <1>2 DEF Socket
<1>4. /\ c.bound = sock[x].bound /\ c.usLocalPort = sock[x].usLocalPort
      /\ c.open = sock[x].open /\ c.waiting = sock[x].waiting /\ c.state = sock[x].state
      /\ c.inSet = sock[x].inSet /\ c.xSelectBits = sock[x].xSelectBits
      /\ c.xSocketBits = sock[x].xSocketBits /\ c.xEventBits = sock[x].xEventBits
      /\ c.txSpace = sock[x].txSpace /\ c.bConnPassed = sock[x].bConnPassed
  BY <1>2 DEF Socket
<1>5. sock' = [sock EXCEPT ![x] = c] BY <1>2 DEF Wakes
<1> HIDE DEF c
<1>6. sock'[x] = c BY <1>2, <1>3, <1>5, OneSocket
<1>7. SocketOK(x)' BY <1>2, <1>4, <1>6 DEF SocketOK
<1>8. PICK at \in {"again", "space"} :
        Goes(t, at) /\ (at = "space" => task[t].at = "sendWait")
  BY <1>1 DEF Wakes
<1>9. TypeOK /\ at \in {"idle"} \cup Using \cup Selects BY DEF IInv, Using
<1>10. PICK r \in TaskState : /\ task' = [task EXCEPT ![t] = r] /\ task'[t] = r
                              /\ r.at = at /\ r.s = x
  BY <1>2, <1>8, <1>9, WhereGoes
<1>11. TaskOK(t)' BY <1>2, <1>8, <1>10 DEF TaskOK
<1>12. queue' \in Seq(Event) /\ QueueOK' /\ ~ IsEvent("eSocketSelectEvent")' BY <1>1, QueueStays
<1>13. SelectOK' BY <1>1, <1>2, <1>3, <1>4, <1>5, <1>7, <1>10, <1>12, OwnSelect
<1>14. QED BY <1>2, <1>3, <1>4, <1>5, <1>7, <1>1, <1>10, <1>11, <1>12, <1>13, OwnStep

\* FreeRTOS_send fills the stream, or part of it.
LEMMA SendsInvariant ==
  ASSUME IInv, NEW t \in Tasks, Sends(t) PROVE IInv'
PROOF
<1>1. Asleep /\ task[t].at = "space" /\ UNCHANGED <<xSelectGroup, queue>>
  BY DEF Sends, At
<1>2. PICK x \in Sockets : x = task[t].s /\ Owner[x] = t /\ SocketOK(x) /\ x \in Tcp
        /\ sock \in [Sockets -> Socket] /\ sock[x] \in Socket
  BY <1>1, OwnSocket DEF Using, TaskOK
<1>3. PICK left \in BOOLEAN :
        /\ sock' = [sock EXCEPT ![x].txSpace = left]
        /\ left => sock[x].txSpace
        /\ Returns(t) \/ (Goes(t, "noSpace") /\ ~ left)
  <2>1. CASE \E left \in BOOLEAN :
               sock[x].txSpace /\ sock' = [sock EXCEPT ![x].txSpace = left] /\ Returns(t)
    BY <2>1
  <2>2. CASE sock' = [sock EXCEPT ![x].txSpace = FALSE] /\ Goes(t, "noSpace") BY <2>2
  <2>3. QED BY <1>2, <2>1, <2>2 DEF Sends
<1> DEFINE c == [sock[x] EXCEPT !.txSpace = left]
<1>4. c \in Socket BY <1>2 DEF Socket
<1>5. /\ c.bound = sock[x].bound /\ c.usLocalPort = sock[x].usLocalPort
      /\ c.open = sock[x].open /\ c.waiting = sock[x].waiting /\ c.state = sock[x].state
      /\ c.inSet = sock[x].inSet /\ c.xSelectBits = sock[x].xSelectBits
      /\ c.xSocketBits = sock[x].xSocketBits /\ c.xEventBits = sock[x].xEventBits
      /\ c.txSpace = left /\ c.xEventGroup = sock[x].xEventGroup
      /\ c.bConnPassed = sock[x].bConnPassed
  BY <1>2 DEF Socket
<1>6. sock' = [sock EXCEPT ![x] = c] BY <1>2, <1>3
<1> HIDE DEF c
<1>7. sock'[x] = c BY <1>2, <1>4, <1>6, OneSocket
<1>8. SocketOK(x)' BY <1>2, <1>5, <1>7 DEF SocketOK
<1>9. PICK r \in TaskState : /\ task' = [task EXCEPT ![t] = r] /\ task'[t] = r
                             /\ \/ r.at = "idle"
                                \/ r.at = "noSpace" /\ r.s = x /\ ~ left
  <2>1. TypeOK /\ "noSpace" \in {"idle"} \cup Using \cup Selects BY DEF IInv, Using
  <2>2. CASE Returns(t) BY <2>1, <2>2, WhereReturns
  <2>3. CASE Goes(t, "noSpace") /\ ~ left BY <1>2, <2>1, <2>3, WhereGoes
  <2>4. QED BY <1>3, <2>2, <2>3
<1>10. TaskOK(t)' BY <1>2, <1>5, <1>7, <1>9 DEF TaskOK, Using
<1>11. queue' \in Seq(Event) /\ QueueOK' /\ ~ IsEvent("eSocketSelectEvent")' BY <1>1, QueueStays
<1>12. SelectOK'
  <2>1. c.txSpace => sock[x].txSpace BY <1>3, <1>5
  <2>2. r.at \notin {"answer", "bits", "look"} BY <1>9
  <2>3. QED BY <1>1, <1>2, <1>4, <1>5, <1>6, <1>8, <1>9, <1>11, <2>1, <2>2, OwnSelect
<1>13. QED BY <1>1, <1>2, <1>4, <1>5, <1>6, <1>8, <1>9, <1>10, <1>11, <1>12, OwnStep

\* FreeRTOS_FD_SET and FreeRTOS_FD_CLR
LEMMA FdSetInvariant ==
  ASSUME IInv, NEW x \in Sockets, FreeRTOS_FD_SET(x) PROVE IInv'
PROOF
<1>1. Asleep /\ task[Selector].at = "idle" /\ Wants[x] # {}
      /\ UNCHANGED <<xSelectGroup, queue>>
  BY DEF FreeRTOS_FD_SET, At
<1>2. Selector \in Tasks /\ Owner[x] = Selector /\ Wants[x] \subseteq eSELECT_ALL
  BY <1>1, SocketsAssumption DEF eSELECT_ALL
<1>3. sock \in [Sockets -> Socket] /\ sock[x] \in Socket /\ SocketOK(x)
      /\ task \in [Tasks -> TaskState] /\ task[Selector] \in TaskState
  BY <1>2 DEF IInv, TypeOK, TaskState
<1> DEFINE c == [sock[x] EXCEPT !.xSelectBits = @ \cup Wants[x], !.inSet = TRUE]
           r == [task[Selector] EXCEPT !.at = "ask", !.call = "set"]
<1>4. c \in Socket BY <1>2, <1>3 DEF Socket
<1>5. /\ c.bound = sock[x].bound /\ c.usLocalPort = sock[x].usLocalPort
      /\ c.open = sock[x].open /\ c.waiting = sock[x].waiting /\ c.state = sock[x].state
      /\ c.xSocketBits = sock[x].xSocketBits /\ c.xEventBits = sock[x].xEventBits
  BY <1>3 DEF Socket
<1>6. sock' = [sock EXCEPT ![x] = c] BY <1>3 DEF FreeRTOS_FD_SET
<1> HIDE DEF c
<1>7. sock'[x] = c BY <1>4, <1>6, OneSocket
<1>8. SocketOK(x)' BY <1>1, <1>3, <1>5, <1>7 DEF SocketOK
<1>9. r \in TaskState /\ r.at = "ask" BY <1>3 DEF TaskState, Selects
<1>10. task' = [task EXCEPT ![Selector] = r] /\ task'[Selector] = r
  BY <1>2, <1>3 DEF FreeRTOS_FD_SET
<1> HIDE DEF r
<1>11. TaskOK(Selector)' /\ SelectOK' BY <1>9, <1>10 DEF TaskOK, Using, SelectOK
<1>12. queue' \in Seq(Event) /\ QueueOK' BY <1>1, QueueStays
<1>13. QED BY <1>1, <1>2, <1>4, <1>5, <1>6, <1>8, <1>9, <1>10, <1>11, <1>12, OwnStep

LEMMA FdClrInvariant ==
  ASSUME IInv, NEW x \in Sockets, NEW bits \in {Wants[x]}, FreeRTOS_FD_CLR(x, bits)
  PROVE  IInv'
PROOF
<1>1. Asleep /\ task[Selector].at = "idle" /\ sock[x].inSet
      /\ UNCHANGED <<xSelectGroup, queue, task>>
  BY DEF FreeRTOS_FD_CLR, At
<1>2. sock \in [Sockets -> Socket] /\ sock[x] \in Socket /\ SocketOK(x)
  BY DEF IInv, TypeOK
<1>3. Selector \in Tasks /\ Owner[x] = Selector /\ Wants[x] # {}
  BY <1>1, <1>2, SocketsAssumption DEF SocketOK
<1> DEFINE in == sock[x].xSelectBits \ bits # {}
           c == [sock[x] EXCEPT !.xSelectBits = @ \ bits, !.inSet = in]
<1>4. in \in BOOLEAN OBVIOUS
<1>5. sock' = [sock EXCEPT ![x] = c] BY <1>2 DEF FreeRTOS_FD_CLR
<1> HIDE DEF in
<1>6. c \in Socket BY <1>2, <1>4 DEF Socket
<1>7. /\ c.bound = sock[x].bound /\ c.usLocalPort = sock[x].usLocalPort
      /\ c.open = sock[x].open /\ c.waiting = sock[x].waiting /\ c.state = sock[x].state
      /\ c.xSelectBits \subseteq sock[x].xSelectBits
      /\ c.xSocketBits = sock[x].xSocketBits /\ c.xEventBits = sock[x].xEventBits
      /\ c.txSpace = sock[x].txSpace /\ c.bConnPassed = sock[x].bConnPassed
  BY <1>2 DEF Socket
<1> HIDE DEF c
<1>8. sock'[x] = c BY <1>5, <1>6, OneSocket
<1>9. SocketOK(x)' BY <1>2, <1>3, <1>7, <1>8 DEF SocketOK
<1>10. task[Selector] \in TaskState /\ task' = [task EXCEPT ![Selector] = task[Selector]]
  BY <1>1, <1>3, TypedTask DEF IInv, TypeOK
<1>11. TaskOK(Selector)' BY <1>1 DEF TaskOK, Using
<1>12. queue' \in Seq(Event) /\ QueueOK' /\ ~ IsEvent("eSocketSelectEvent")' BY <1>1, QueueStays
<1>13. SelectOK' BY <1>1, <1>3, <1>5, <1>6, <1>7, <1>9, <1>10, <1>12, OwnSelect
<1>14. QED BY <1>1, <1>3, <1>5, <1>6, <1>7, <1>9, <1>10, <1>11, <1>12, <1>13, OwnStep

-----------------------------------------------------------------------------
(* The theorems.                                                             *)

LEMMA StepInvariant == IInv /\ [Next]_vars => IInv'
PROOF
<1>1. SUFFICES ASSUME IInv, [Next]_vars PROVE IInv' OBVIOUS
<1>2. CASE Serve
  <2>1. CASE HandleBind BY <1>1, <2>1, HandleBindInvariant
  <2>2. CASE HandleClose BY <1>1, <2>2, HandleCloseInvariant
  <2>3. CASE vSocketSelect BY <1>1, <2>3, SocketSelectInvariant
  <2>4. CASE \E s \in Tcp : xTCPTimerCheck(s) BY <1>1, <2>4, TimerInvariant
  <2>5. QED BY <1>2, <2>1, <2>2, <2>3, <2>4 DEF Serve
<1>3. CASE Packets
  <2>1. CASE \E p \in Ports, d \in Datagrams : xProcessReceivedUDPPacket(p, d)
    BY <1>1, <2>1, DatagramInvariant
  <2>2. ASSUME NEW s \in Tcp,
               \/ \E d \in Datagrams : TcpData(s, d)
               \/ TcpAcked(s)
               \/ \E state \in {"eCLOSED", "eCLOSE_WAIT"} : TcpCloses(s, state)
        PROVE  IInv'
    BY <1>1, <2>2, TcpInvariant
  <2>3. QED BY <1>3, <2>1, <2>2 DEF Packets
<1>4. CASE TaskNext
  <2>1. PICK t \in Tasks :
          \/ Work(t) \/ WaitOn(t) \/ SendWaits(t) \/ ReturnsEmpty(t) \/ TimesOut(t)
          \/ \E s \in Sockets :
                \/ FreeRTOS_socket(t, s) \/ FreeRTOS_closesocket(t, s)
                \/ \E p \in 0 .. MaxPort - 1 : FreeRTOS_bind(t, s, p)
                \/ FreeRTOS_recvfrom(t, s) \/ FreeRTOS_recv(t, s) \/ FreeRTOS_send(t, s)
    BY <1>4 DEF TaskNext
  <2>2. CASE Work(t)
    BY <1>1, <2>2, BindReturnsInvariant, TakeInvariant, CheckStateInvariant, WakesInvariant,
       LooksAgainInvariant, SendsInvariant DEF Work
  <2>3. CASE WaitOn(t) \/ SendWaits(t) \/ ReturnsEmpty(t) \/ TimesOut(t)
    BY <1>1, <2>3, WaitsInvariant, ReturnsEmptyInvariant, TimesOutInvariant
  <2>4. ASSUME NEW s \in Sockets,
               FreeRTOS_socket(t, s) \/ FreeRTOS_closesocket(t, s)
        PROVE  IInv'
    BY <1>1, <2>4, SocketInvariant, CloseInvariant
  <2>5. ASSUME NEW s \in Sockets, \E p \in 0 .. MaxPort - 1 : FreeRTOS_bind(t, s, p)
        PROVE  IInv'
    BY <1>1, <2>5, BindInvariant
  <2>6. ASSUME NEW s \in Sockets,
               FreeRTOS_recvfrom(t, s) \/ FreeRTOS_recv(t, s) \/ FreeRTOS_send(t, s)
        PROVE  IInv'
    BY <1>1, <2>6, LookedInvariant, SendInvariant
  <2>7. QED BY <2>1, <2>2, <2>3, <2>4, <2>5, <2>6
<1>5. CASE SelectNext
  <2>1. CASE Selecting
    BY <1>1, <2>1, SelectWakesInvariant, AskInvariant, PostSelectInvariant, AnsweredInvariant
    DEF Selecting
  <2>2. CASE FreeRTOS_select \/ SelectTimesOut \/ SelectReturns \/ LookedAtAll
    BY <1>1, <2>2, SelectInvariant, SelectWakesInvariant, SelectReturnsInvariant,
       LookedAtAllInvariant
  <2>3. CASE ReadReady BY <1>1, <2>3, TakeInvariant, SocketsAssumption
  <2>4. ASSUME NEW s \in Sockets,
               Look(s) \/ FreeRTOS_FD_SET(s) \/ \E b \in {Wants[s]} : FreeRTOS_FD_CLR(s, b)
        PROVE  IInv'
    BY <1>1, <2>4, LookInvariant, FdSetInvariant, FdClrInvariant
  <2>5. QED BY <1>5, <2>1, <2>2, <2>3, <2>4 DEF SelectNext
<1>6. CASE UNCHANGED vars
  <2>1. UNCHANGED <<sock, xSelectGroup, queue, task>> BY <1>6 DEF vars
  <2>2. TypeOK' BY <1>1, <2>1 DEF IInv, TypeOK
  <2>3. \A s \in Sockets : SocketOK(s)' BY <1>1, <2>1 DEF IInv, SocketOK
  <2>4. QueueOK' BY <1>1, <2>1 DEF IInv, QueueOK, IsEvent
  <2>5. \A t \in Tasks : TaskOK(t)' BY <1>1, <2>1 DEF IInv, TaskOK, Due
  <2>6. SelectOK' BY <1>1, <2>1 DEF IInv, SelectOK, IsEvent, InSet, Ready
  <2>7. PortsAreUnique' BY <1>1, <2>1 DEF IInv, PortsAreUnique, BoundUdp
  <2>8. QED BY <2>2, <2>3, <2>4, <2>5, <2>6, <2>7 DEF IInv
<1>7. QED BY <1>1, <1>2, <1>3, <1>4, <1>5, <1>6 DEF Next

\* IInv is an invariant: what is due to a sleeping task, and what the set of
\* sockets tells, is right after every step (FreeRTOS_Sockets.c).
THEOREM Invariant == Spec => []IInv
PROOF
<1>1. Init => IInv BY InitInvariant
<1>2. IInv /\ [Next]_vars => IInv' BY StepInvariant
<1>3. QED BY <1>1, <1>2, PTL DEF Spec

\* vSocketBind never gives a port to two sockets.
THEOREM Ports_are_unique == Spec => []PortsAreUnique
PROOF
<1>1. IInv => PortsAreUnique BY DEF IInv
<1>2. QED BY <1>1, Invariant, PTL

\* No task sleeps in FreeRTOS_recvfrom, FreeRTOS_recv, FreeRTOS_send or
\* FreeRTOS_select without a bit for what it waits for, once the IP task sleeps.
THEOREM Nobody_oversleeps == Spec => []NobodyOversleeps
PROOF
<1>1. IInv => NobodyOversleeps
  <2>1. SUFFICES ASSUME IInv, Asleep PROVE NobodyOversleeps BY DEF NobodyOversleeps
  <2>2. queue = <<>> /\ (\A type : ~ IsEvent(type)) /\ \A s \in Sockets : sock[s].xEventBits = {}
    BY <2>1, NothingWaits
  <2>3. ASSUME NEW t \in Tasks
        PROVE  LET c == sock[task[t].s] IN
               /\ task[t].at = "wait" /\ (c.waiting # <<>> \/ (task[t].s \in Tcp /\ c.state # "eESTABLISHED"))
                     => {"RECEIVE", "CLOSED"} \cap c.xEventGroup # {}
               /\ task[t].at = "sendWait" /\ c.txSpace => "SEND" \in c.xEventGroup
    <3>1. CASE task[t].at \in {"wait", "sendWait"}
      <4>1. TaskOK(t) /\ task[t].s \in Sockets BY <2>1, <3>1, OwnSocket DEF Using
      <4>2. Due(task[t].s) = sock[task[t].s].xEventGroup BY <2>2, <4>1 DEF Due
      <4>3. QED BY <3>1, <4>1, <4>2 DEF TaskOK
    <3>2. QED BY <3>1
  <2>4. ASSUME task[Selector].at = "select", NEW s \in InSet
        PROVE  Ready(s) \subseteq xSelectGroup
    <3>1. s \in Sockets BY DEF InSet
    <3>2. QED BY <2>1, <2>2, <2>4, <3>1 DEF IInv, SelectOK
  <2>5. QED BY <2>3, <2>4 DEF NobodyOversleeps
<1>2. QED BY <1>1, Invariant, PTL

\* A socket that FreeRTOS_FD_ISSET tells to be readable has something to read.
THEOREM Readable_has_data == Spec => []ReadableHasData
PROOF
<1>1. IInv => ReadableHasData
  <2>1. SUFFICES ASSUME IInv, task[Selector].at = "read"
                 PROVE  sock[task[Selector].s].waiting # <<>>
    BY DEF ReadableHasData
  <2>2. TaskOK(Selector) BY <2>1, SocketsAssumption DEF IInv
  <2>3. QED BY <2>1, <2>2 DEF TaskOK
<1>2. QED BY <1>1, Invariant, PTL

-----------------------------------------------------------------------------
(* Each bound UDP socket is the mailbox of its port.                         *)

\* What waits at a port, of sockets f
HasPort(f, s, p) == f[s].bound /\ f[s].usLocalPort = p

BoxIn(f, p) ==
  IF \E s \in {r \in Udp : f[r].bound} : f[s].usLocalPort = p
  THEN f[CHOOSE s \in {r \in Udp : f[r].bound} : f[s].usLocalPort = p].waiting
  ELSE None

Box == [p \in Ports |-> IF InUse(p)
                        THEN sock[CHOOSE s \in BoundUdp : sock[s].usLocalPort = p].waiting
                        ELSE None]

LEMMA BoxIs == Box = [p \in Ports |-> BoxIn(sock, p)] /\ Box' = [p \in Ports |-> BoxIn(sock', p)]
PROOF BY DEF Box, BoxIn, InUse, BoundUdp

LEMMA BoxFound ==
  ASSUME NEW f, NEW s \in Udp, NEW p, HasPort(f, s, p), \A r \in Udp : HasPort(f, r, p) => r = s
  PROVE  BoxIn(f, p) = f[s].waiting
PROOF
<1> DEFINE B == {r \in Udp : f[r].bound}
           c == CHOOSE r \in B : f[r].usLocalPort = p
<1>1. s \in B /\ f[s].usLocalPort = p BY DEF HasPort
<1>2. c \in B /\ f[c].usLocalPort = p BY <1>1
<1>3. c = s BY <1>2 DEF HasPort
<1>4. QED BY <1>1, <1>3 DEF BoxIn

LEMMA BoxEmpty ==
  ASSUME NEW f, NEW p, \A r \in Udp : ~ HasPort(f, r, p)
  PROVE  BoxIn(f, p) = None
PROOF BY DEF BoxIn, HasPort

\* A port none of whose sockets, before or after a step, is x: nothing changes.
LEMMA OtherBoxes ==
  ASSUME NEW f, NEW g, NEW x, NEW p,
         \A r \in Udp : r # x => g[r] = f[r],
         x \in Udp => ~ HasPort(f, x, p) /\ ~ HasPort(g, x, p),
         \A r, s \in Udp : HasPort(f, r, p) /\ HasPort(f, s, p) => r = s
  PROVE  BoxIn(g, p) = BoxIn(f, p)
PROOF
<1>1. \A r \in Udp : HasPort(g, r, p) <=> HasPort(f, r, p) BY DEF HasPort
<1>2. CASE \E s \in Udp : HasPort(f, s, p)
  <2>1. PICK s \in Udp : HasPort(f, s, p) BY <1>2
  <2>2. g[s] = f[s] BY <2>1
  <2>3. BoxIn(f, p) = f[s].waiting BY <2>1, BoxFound
  <2>4. BoxIn(g, p) = g[s].waiting BY <1>1, <2>1, BoxFound
  <2>5. QED BY <2>2, <2>3, <2>4
<1>3. CASE ~ \E s \in Udp : HasPort(f, s, p)
  <2>1. BoxIn(f, p) = None BY <1>3, BoxEmpty
  <2>2. BoxIn(g, p) = None BY <1>1, <1>3, BoxEmpty
  <2>3. QED BY <2>1, <2>2
<1>4. QED BY <1>2, <1>3

\* One socket changes, and with it at most the box of its port.
LEMMA OneBox ==
  ASSUME IInv, IInv', NEW x \in Udp, NEW c \in Socket, sock' = [sock EXCEPT ![x] = c],
         NEW p \in Nat, sock[x].bound => sock[x].usLocalPort = p, c.bound => c.usLocalPort = p
  PROVE  /\ \A q \in Ports : q # p => Box'[q] = Box[q]
         /\ p \in Ports /\ sock[x].bound => Box[p] = sock[x].waiting
         /\ p \in Ports /\ c.bound => Box'[p] = c.waiting
         /\ p \in Ports /\ c.bound /\ ~ sock[x].bound => Box[p] = None
         /\ p \in Ports /\ ~ c.bound /\ sock[x].bound => Box'[p] = None
PROOF
<1>1. sock \in [Sockets -> Socket] /\ x \in Sockets BY DEF IInv, TypeOK, Sockets
<1>2. sock'[x] = c /\ \A r \in Udp : r # x => sock'[r] = sock[r] BY <1>1 DEF Sockets
<1>3. /\ \A q : \A r, s \in Udp : HasPort(sock, r, q) /\ HasPort(sock, s, q) => r = s
      /\ \A q : \A r, s \in Udp : HasPort(sock', r, q) /\ HasPort(sock', s, q) => r = s
  BY DEF IInv, PortsAreUnique, BoundUdp, HasPort
<1>4. ASSUME NEW q \in Ports, q # p PROVE Box'[q] = Box[q]
  <2>1. ~ HasPort(sock, x, q) /\ ~ HasPort(sock', x, q) BY <1>2, <1>4 DEF HasPort
  <2>2. BoxIn(sock', q) = BoxIn(sock, q) BY <1>2, <1>3, <2>1, OtherBoxes
  <2>3. QED BY <2>2, BoxIs
<1>5. ASSUME p \in Ports, sock[x].bound PROVE Box[p] = sock[x].waiting
  <2>1. HasPort(sock, x, p) BY <1>5 DEF HasPort
  <2>2. BoxIn(sock, p) = sock[x].waiting BY <1>3, <2>1, BoxFound
  <2>3. QED BY <1>5, <2>2, BoxIs
<1>6. ASSUME p \in Ports, c.bound PROVE Box'[p] = c.waiting
  <2>1. HasPort(sock', x, p) BY <1>2, <1>6 DEF HasPort
  <2>2. BoxIn(sock', p) = sock'[x].waiting BY <1>3, <2>1, BoxFound
  <2>3. QED BY <1>2, <1>6, <2>2, BoxIs
<1>7. ASSUME p \in Ports, c.bound, ~ sock[x].bound PROVE Box[p] = None
  <2>1. HasPort(sock', x, p) BY <1>2, <1>7 DEF HasPort
  <2>2. \A r \in Udp : ~ HasPort(sock, r, p)
    <3>1. \A r \in Udp : r # x /\ HasPort(sock, r, p) => HasPort(sock', r, p) BY <1>2 DEF HasPort
    <3>2. QED BY <1>3, <1>7, <2>1, <3>1 DEF HasPort
  <2>3. QED BY <1>7, <2>2, BoxEmpty, BoxIs
<1>8. ASSUME p \in Ports, ~ c.bound, sock[x].bound PROVE Box'[p] = None
  <2>1. HasPort(sock, x, p) BY <1>8 DEF HasPort
  <2>2. \A r \in Udp : ~ HasPort(sock', r, p)
    <3>1. \A r \in Udp : r # x /\ HasPort(sock', r, p) => HasPort(sock, r, p) BY <1>2 DEF HasPort
    <3>2. QED BY <1>2, <1>3, <1>8, <2>1, <3>1 DEF HasPort
  <2>3. QED BY <1>8, <2>2, BoxEmpty, BoxIs
<1>9. QED BY <1>4, <1>5, <1>6, <1>7, <1>8

MailStep == [Boxes!Next]_Box

\* Whatever else changes, the boxes stay when ports and packets do.
LEMMA BoxStays ==
  ASSUME \A s \in Udp : /\ sock'[s].bound = sock[s].bound
                        /\ sock[s].bound => /\ sock'[s].usLocalPort = sock[s].usLocalPort
                                            /\ sock'[s].waiting = sock[s].waiting
  PROVE  Box' = Box
PROOF
<1>1. {r \in Udp : sock'[r].bound} = {r \in Udp : sock[r].bound} OBVIOUS
<1>2. \A p : BoxIn(sock', p) = BoxIn(sock, p)
  <2>1. SUFFICES ASSUME NEW p PROVE BoxIn(sock', p) = BoxIn(sock, p) OBVIOUS
  <2> DEFINE B == {r \in Udp : sock[r].bound}
             c == CHOOSE s \in B : sock[s].usLocalPort = p
             d == CHOOSE s \in B : sock'[s].usLocalPort = p
  <2>2. \A s \in B : sock'[s].usLocalPort = p <=> sock[s].usLocalPort = p OBVIOUS
  <2>3. c = d BY <2>2
  <2>4. CASE \E s \in B : sock[s].usLocalPort = p
    <3>1. c \in B BY <2>4
    <3>2. sock'[d].waiting = sock[c].waiting BY <2>3, <3>1
    <3>3. BoxIn(sock, p) = sock[c].waiting BY <2>4 DEF BoxIn
    <3>4. BoxIn(sock', p) = sock'[d].waiting BY <1>1, <2>2, <2>4 DEF BoxIn
    <3>5. QED BY <3>2, <3>3, <3>4
  <2>5. CASE ~ \E s \in B : sock[s].usLocalPort = p
    BY <1>1, <2>2, <2>5 DEF BoxIn
  <2>6. QED BY <2>4, <2>5
<1>3. QED BY <1>2, BoxIs

\* One box changes.
LEMMA BoxChanges ==
  ASSUME NEW p \in Ports, \A q \in Ports : q # p => Box'[q] = Box[q]
  PROVE  Box' = [Box EXCEPT ![p] = Box'[p]]
PROOF BY BoxIs

LEMMA Packet ==
  ASSUME NEW q \in Seq(Datagrams) PROVE q # None
PROOF BY SocketsAssumption

\* A datagram that comes in, or is taken, is at the end of one box.
LEMMA Arrives ==
  ASSUME IInv, IInv', NEW p \in Ports, NEW d \in Datagrams, xProcessReceivedUDPPacket(p, d)
  PROVE  MailStep
PROOF
<1>1. PICK x \in Udp : /\ sock[x].bound /\ sock[x].usLocalPort = p
                       /\ sock' = [sock EXCEPT ![x].waiting = Append(@, d),
                                               ![x].xEventGroup = @ \cup {"RECEIVE"}]
  BY DEF xProcessReceivedUDPPacket, BoundUdp
<1>2. sock[x] \in Socket BY <1>1 DEF IInv, TypeOK, Sockets
<1> DEFINE k == [sock[x] EXCEPT !.waiting = Append(@, d), !.xEventGroup = @ \cup {"RECEIVE"}]
<1>3. sock' = [sock EXCEPT ![x] = k] BY <1>1
<1>4. PICK c \in Socket : /\ sock' = [sock EXCEPT ![x] = c] /\ c.bound = TRUE
                          /\ c.usLocalPort = p /\ c.waiting = Append(sock[x].waiting, d)
  <2>1. Append(sock[x].waiting, d) \in Seq(Datagrams) BY <1>2 DEF Socket
  <2>2. /\ k \in Socket /\ k.bound = TRUE
        /\ k.usLocalPort = p /\ k.waiting = Append(sock[x].waiting, d)
    BY <1>1, <1>2, <2>1 DEF Socket, Bits
  <2> HIDE DEF k
  <2>3. QED BY <1>3, <2>2
<1>5. p \in Nat BY SocketsAssumption DEF Ports
<1>6. (sock[x].bound => sock[x].usLocalPort = p) /\ (c.bound => c.usLocalPort = p)
  BY <1>1, <1>4
<1>7. /\ \A q \in Ports : q # p => Box'[q] = Box[q]
      /\ p \in Ports /\ sock[x].bound => Box[p] = sock[x].waiting
      /\ p \in Ports /\ c.bound => Box'[p] = c.waiting
  BY <1>4, <1>5, <1>6, OneBox
<1>8. /\ \A q \in Ports : q # p => Box'[q] = Box[q]
      /\ Box[p] = sock[x].waiting /\ Box'[p] = c.waiting
  BY <1>1, <1>4, <1>7
<1>9. Box' = [Box EXCEPT ![p] = Box'[p]] BY <1>8, BoxChanges
<1>10. Box' = [Box EXCEPT ![p] = Append(Box[p], d)] BY <1>4, <1>8, <1>9
<1>11. Box[p] # None BY <1>2, <1>8, Packet DEF Socket
<1>12. QED BY <1>10, <1>11 DEF MailStep, Boxes!Next, Boxes!Arrive, Box

TakenFrom(x) == sock' = [sock EXCEPT ![x].waiting = Tail(@)]

LEMMA IsTaken ==
  ASSUME IInv, IInv', NEW x \in Udp, sock[x].waiting # <<>>, TakenFrom(x)
  PROVE  MailStep
PROOF
<1>1. sock[x] \in Socket /\ sock[x].bound BY DEF IInv, TypeOK, SocketOK, Sockets
<1>2. PICK p \in Nat : p = sock[x].usLocalPort BY <1>1 DEF Socket
<1> DEFINE k == [sock[x] EXCEPT !.waiting = Tail(@)]
<1>3. sock' = [sock EXCEPT ![x] = k] BY DEF TakenFrom
<1>4. PICK c \in Socket : /\ sock' = [sock EXCEPT ![x] = c] /\ c.bound = TRUE
                          /\ c.usLocalPort = p /\ c.waiting = Tail(sock[x].waiting)
  <2>1. Tail(sock[x].waiting) \in Seq(Datagrams) BY <1>1, HeadTailProperties DEF Socket
  <2>2. /\ k \in Socket /\ k.bound = TRUE
        /\ k.usLocalPort = p /\ k.waiting = Tail(sock[x].waiting)
    BY <1>1, <1>2, <2>1 DEF Socket
  <2> HIDE DEF k
  <2>3. QED BY <1>3, <2>2
<1>5. (sock[x].bound => sock[x].usLocalPort = p) /\ (c.bound => c.usLocalPort = p)
  BY <1>2, <1>4
<1>6. /\ \A q \in Ports : q # p => Box'[q] = Box[q]
      /\ p \in Ports /\ sock[x].bound => Box[p] = sock[x].waiting
      /\ p \in Ports /\ c.bound => Box'[p] = c.waiting
  BY <1>4, <1>5, OneBox
<1>7. /\ \A q \in Ports : q # p => Box'[q] = Box[q]
      /\ p \in Ports => Box[p] = sock[x].waiting /\ Box'[p] = c.waiting
  BY <1>1, <1>4, <1>6
<1>8. CASE p \in Ports
  <2>1. Box' = [Box EXCEPT ![p] = Box'[p]] BY <1>7, <1>8, BoxChanges
  <2>2. Box' = [Box EXCEPT ![p] = Tail(Box[p])] BY <1>4, <1>7, <1>8, <2>1
  <2>3. Box[p] # None /\ Box[p] # <<>> BY <1>1, <1>7, <1>8, Packet DEF Socket
  <2>4. QED BY <1>8, <2>2, <2>3 DEF MailStep, Boxes!Next, Boxes!Take, Box
<1>9. CASE p \notin Ports
  <2>1. Box' = Box BY <1>7, <1>9 DEF Box
  <2>2. QED BY <2>1 DEF MailStep
<1>10. QED BY <1>8, <1>9

\* A socket gets a port that is free, or none; or it gives its port up.
LEMMA Claims == ASSUME IInv, IInv', HandleBind PROVE MailStep
PROOF
<1>1. IsEvent("eSocketBindEvent") BY DEF HandleBind
<1>2. PICK x \in Udp : x = Head(queue).s /\ ~ sock[x].bound BY <1>1 DEF IInv, QueueOK
<1>3. sock[x] \in Socket /\ sock[x].waiting = <<>>
  BY <1>2 DEF IInv, TypeOK, SocketOK, Sockets
<1>4. PICK p \in Nat : sock' = [sock EXCEPT ![x] = vSocketBind(x, p)]
  <2>1. sock[x].usLocalPort \in Nat BY <1>3 DEF Socket
  <2>2. prvGetPrivatePortNumber \subseteq Nat
    BY SocketsAssumption DEF prvGetPrivatePortNumber, Ports
  <2>3. QED BY <1>2, <2>1, <2>2 DEF HandleBind
<1> DEFINE c == vSocketBind(x, p)
<1>5. PortTaken(p) \in BOOLEAN BY DEF PortTaken, InUse
<1>6. /\ c \in Socket /\ c.bound = ~ PortTaken(p) /\ c.waiting = <<>>
      /\ c.bound => c.usLocalPort = p
  BY <1>3, <1>5 DEF vSocketBind, Woken, Socket, Bits
<1> HIDE DEF c
<1>7. (sock[x].bound => sock[x].usLocalPort = p) /\ sock' = [sock EXCEPT ![x] = c]
  BY <1>2, <1>4 DEF c
<1>8. /\ \A q \in Ports : q # p => Box'[q] = Box[q]
      /\ p \in Ports /\ c.bound => Box[p] = None /\ Box'[p] = <<>>
  BY <1>2, <1>6, <1>7, OneBox
<1>9. CASE p \in Ports /\ c.bound
  <2>1. Box' = [Box EXCEPT ![p] = Box'[p]] BY <1>8, <1>9, BoxChanges
  <2>2. Box' = [Box EXCEPT ![p] = <<>>] BY <1>8, <1>9, <2>1
  <2>3. QED BY <1>8, <1>9, <2>2 DEF MailStep, Boxes!Next, Boxes!Claim, Box
<1>10. CASE p \notin Ports
  <2>1. Box' = Box BY <1>8, <1>10 DEF Box
  <2>2. QED BY <2>1 DEF MailStep
<1>11. CASE ~ c.bound
  <2>1. \A s \in Udp : /\ sock'[s].bound = sock[s].bound
                       /\ sock[s].bound => /\ sock'[s].usLocalPort = sock[s].usLocalPort
                                           /\ sock'[s].waiting = sock[s].waiting
    <3>1. x \in Sockets /\ Udp \subseteq Sockets BY DEF Sockets
    <3>2. sock'[x] = c /\ \A s \in Sockets : s # x => sock'[s] = sock[s]
      BY <1>6, <1>7, <3>1, OneSocket
    <3>3. sock[x].bound = FALSE /\ c.bound = FALSE BY <1>2, <1>3, <1>6, <1>11 DEF Socket
    <3>4. QED BY <3>1, <3>2, <3>3
  <2>2. QED BY <2>1, BoxStays DEF MailStep
<1>12. QED BY <1>9, <1>10, <1>11

LEMMA Leaves == ASSUME IInv, IInv', HandleClose PROVE MailStep
PROOF
<1>1. IsEvent("eSocketCloseEvent") BY DEF HandleClose
<1>2. PICK x \in Udp : x = Head(queue).s BY <1>1 DEF IInv, QueueOK
<1>3. sock[x] \in Socket BY <1>2 DEF IInv, TypeOK, Sockets
<1>4. sock' = [sock EXCEPT ![x] = Blank] /\ ~ Blank.bound /\ Blank \in Socket
  BY <1>2, SocketIsTyped DEF HandleClose, Blank
<1>5. PICK p \in Nat : p = sock[x].usLocalPort BY <1>3 DEF Socket
<1>6. (sock[x].bound => sock[x].usLocalPort = p) /\ (Blank.bound => Blank.usLocalPort = p)
  BY <1>4, <1>5
<1>7. /\ \A q \in Ports : q # p => Box'[q] = Box[q]
      /\ p \in Ports /\ sock[x].bound => Box[p] = sock[x].waiting /\ Box'[p] = None
  BY <1>4, <1>5, <1>6, OneBox
<1>8. CASE p \in Ports /\ sock[x].bound
  <2>1. Box' = [Box EXCEPT ![p] = Box'[p]] BY <1>7, <1>8, BoxChanges
  <2>2. Box' = [Box EXCEPT ![p] = None] BY <1>7, <1>8, <2>1
  <2>3. Box[p] # None BY <1>3, <1>7, <1>8, Packet DEF Socket
  <2>4. QED BY <1>8, <2>2, <2>3 DEF MailStep, Boxes!Next, Boxes!Leave, Box
<1>9. CASE p \notin Ports
  <2>1. Box' = Box BY <1>7, <1>9 DEF Box
  <2>2. QED BY <2>1 DEF MailStep
<1>10. CASE ~ sock[x].bound
  <2>1. \A s \in Udp : /\ sock'[s].bound = sock[s].bound
                       /\ sock[s].bound => /\ sock'[s].usLocalPort = sock[s].usLocalPort
                                           /\ sock'[s].waiting = sock[s].waiting
    <3>1. x \in Sockets /\ Udp \subseteq Sockets BY DEF Sockets
    <3>2. sock'[x] = Blank /\ \A s \in Sockets : s # x => sock'[s] = sock[s]
      BY <1>4, <3>1, OneSocket
    <3>3. sock[x].bound = FALSE /\ Blank.bound = FALSE BY <1>3, <1>10 DEF Socket, Blank
    <3>4. QED BY <3>1, <3>2, <3>3
  <2>2. QED BY <2>1, BoxStays DEF MailStep
<1>11. QED BY <1>8, <1>9, <1>10


\* A socket changes, neither in its port nor in what waits at it; a TCP socket
\* has no mailbox.
LEMMA SocketStays ==
  ASSUME IInv, NEW x \in Sockets, NEW c \in Socket, sock' = [sock EXCEPT ![x] = c],
         x \in Udp => /\ c.bound = sock[x].bound /\ c.waiting = sock[x].waiting
                      /\ c.bound => c.usLocalPort = sock[x].usLocalPort
  PROVE  MailStep
PROOF
<1>1. sock'[x] = c /\ \A s \in Sockets : s # x => sock'[s] = sock[s] BY OneSocket
<1>2. \A s \in Udp : /\ sock'[s].bound = sock[s].bound
                     /\ sock[s].bound => /\ sock'[s].usLocalPort = sock[s].usLocalPort
                                         /\ sock'[s].waiting = sock[s].waiting
  BY <1>1 DEF Sockets
<1>3. QED BY <1>2, BoxStays DEF MailStep

LEMMA NothingChanges == ASSUME sock' = sock PROVE MailStep
PROOF BY BoxStays DEF MailStep

\* vSocketSelect changes only what is told of the sockets of the set.
LEMMA SelectKeeps == ASSUME IInv, vSocketSelect PROVE MailStep
PROOF
<1>1. \A s \in Udp : /\ sock'[s].bound = sock[s].bound
                     /\ sock'[s].usLocalPort = sock[s].usLocalPort
                     /\ sock'[s].waiting = sock[s].waiting
  <2>1. SUFFICES ASSUME NEW s \in Udp
                 PROVE  /\ sock'[s].bound = sock[s].bound
                        /\ sock'[s].usLocalPort = sock[s].usLocalPort
                        /\ sock'[s].waiting = sock[s].waiting
    OBVIOUS
  <2>2. s \in Sockets /\ sock[s] \in Socket BY DEF IInv, TypeOK, Sockets
  <2>3. CASE s \in InSet BY <2>2, <2>3 DEF vSocketSelect, Socket
  <2>4. CASE s \notin InSet BY <2>2, <2>4 DEF vSocketSelect
  <2>5. QED BY <2>3, <2>4
<1>2. QED BY <1>1, BoxStays DEF MailStep

LEMMA TcpKeeps ==
  ASSUME IInv, IInv', NEW s \in Tcp,
         \/ \E d \in Datagrams : TcpData(s, d)
         \/ TcpAcked(s)
         \/ \E state \in {"eCLOSED", "eCLOSE_WAIT"} : TcpCloses(s, state)
         \/ xTCPTimerCheck(s)
  PROVE  MailStep
PROOF
<1>1. s \in Sockets /\ s \notin Udp BY SocketsAssumption DEF Sockets
<1>2. sock' \in [Sockets -> Socket] /\ sock \in [Sockets -> Socket] BY DEF IInv, TypeOK
<1>3. \A r \in Sockets : r # s => sock'[r] = sock[r]
  BY <1>1, <1>2 DEF TcpData, TcpAcked, TcpCloses, xTCPTimerCheck
<1>4. \A r \in Udp : sock'[r] = sock[r] BY <1>1, <1>3 DEF Sockets
<1>5. QED BY <1>4, BoxStays DEF MailStep

\* FreeRTOS_socket, and FreeRTOS_bind, at a socket without a port
LEMMA UnboundKeeps ==
  ASSUME IInv, IInv', NEW t \in Tasks, NEW s \in Sockets,
         FreeRTOS_socket(t, s) \/ \E p \in 0 .. MaxPort - 1 : FreeRTOS_bind(t, s, p)
  PROVE  MailStep
PROOF
<1>1. /\ sock' \in [Sockets -> Socket] /\ sock \in [Sockets -> Socket] /\ sock[s] \in Socket
      /\ Blank \in Socket
  BY SocketIsTyped DEF IInv, TypeOK
<1>2. CASE FreeRTOS_socket(t, s)
  <2>1. sock[s].bound = FALSE
    <3>1. s \in Udp /\ ~ sock[s].open BY <1>2 DEF FreeRTOS_socket
    <3>2. QED BY <3>1, <1>1, SocketsAssumption DEF IInv, SocketOK, Socket
  <2>2. \A r \in Sockets : r # s => sock'[r] = sock[r] BY <1>1, <1>2 DEF FreeRTOS_socket
  <2>3. sock'[s].bound = FALSE BY <1>1, <1>2 DEF FreeRTOS_socket, Blank
  <2>4. QED BY <2>1, <2>2, <2>3, BoxStays DEF MailStep, Sockets
<1>3. ASSUME NEW p \in 0 .. MaxPort - 1, FreeRTOS_bind(t, s, p) PROVE MailStep
  <2>1. sock[s].bound = FALSE BY <1>1, <1>3 DEF FreeRTOS_bind, Socket
  <2>2. sock' = [sock EXCEPT ![s].usLocalPort = p] BY <1>3 DEF FreeRTOS_bind
  <2>3. \A r \in Sockets : r # s => sock'[r] = sock[r] BY <1>1, <2>2
  <2>4. sock'[s].bound = sock[s].bound BY <1>1, <2>2 DEF Socket
  <2>5. QED BY <2>1, <2>3, <2>4, BoxStays DEF MailStep, Sockets
<1>4. QED BY <1>2, <1>3

LEMMA Takes ==
  ASSUME IInv, IInv', NEW t \in Tasks, Take(t) \/ (t = Selector /\ ReadReady) PROVE MailStep
PROOF
<1>1. task[t].at \in {"take", "read"} BY DEF Take, ReadReady, At
<1>2. PICK x \in Sockets : x = task[t].s /\ sock[x].waiting # <<>>
  BY <1>1, OwnSocket DEF Using, TaskOK
<1>3. TakenFrom(x)
  <2>1. CASE Take(t) BY <1>2, <2>1 DEF Take, TakenFrom
  <2>2. CASE t = Selector /\ ReadReady BY <1>2, <2>2 DEF ReadReady, TakenFrom
  <2>3. QED BY <2>1, <2>2
<1>4. CASE x \in Udp BY <1>2, <1>3, <1>4, IsTaken
<1>5. CASE x \notin Udp
  <2>1. sock \in [Sockets -> Socket] BY DEF IInv, TypeOK
  <2>2. \A s \in Sockets : s # x => sock'[s] = sock[s] BY <1>3, <2>1 DEF TakenFrom
  <2>3. \A s \in Udp : sock'[s] = sock[s] BY <1>5, <2>2 DEF Sockets
  <2>4. QED BY <2>3, BoxStays DEF MailStep
<1>6. QED BY <1>4, <1>5

\* Steps at one socket that change neither ports nor packets
LEMMA WorkKeeps ==
  ASSUME IInv, NEW t \in Tasks, BindReturns(t) \/ Wakes(t) \/ Sends(t) PROVE MailStep
PROOF
<1>1. task[t].at \in Using BY DEF BindReturns, Wakes, Sends, At, Using
<1>2. PICK x \in Sockets : x = task[t].s /\ sock[x] \in Socket
  BY <1>1, OwnSocket
<1>3. sock \in [Sockets -> Socket] BY DEF IInv, TypeOK
<1>4. \A s \in Sockets : s # x => sock'[s] = sock[s]
  BY <1>2, <1>3 DEF BindReturns, Wakes, Sends
<1>5. /\ sock'[x].bound = sock[x].bound /\ sock'[x].usLocalPort = sock[x].usLocalPort
      /\ sock'[x].waiting = sock[x].waiting
  <2>1. CASE BindReturns(t) BY <1>2, <1>3, <2>1 DEF BindReturns, Socket
  <2>2. CASE Wakes(t)
    <3>1. PICK bits : sock' = [sock EXCEPT ![x].xEventGroup = @ \ bits] BY <1>2, <2>2 DEF Wakes
    <3>2. QED BY <1>2, <1>3, <3>1 DEF Socket
  <2>3. CASE Sends(t)
    <3>1. PICK left : sock' = [sock EXCEPT ![x].txSpace = left] BY <1>2, <2>3 DEF Sends
    <3>2. QED BY <1>2, <1>3, <3>1 DEF Socket
  <2>4. QED BY <2>1, <2>2, <2>3
<1>6. \A s \in Sockets :
        /\ sock'[s].bound = sock[s].bound /\ sock'[s].usLocalPort = sock[s].usLocalPort
        /\ sock'[s].waiting = sock[s].waiting
  BY <1>4, <1>5
<1>7. QED BY <1>6, BoxStays DEF MailStep, Sockets

LEMMA SetKeeps ==
  ASSUME IInv, NEW x \in Sockets,
         FreeRTOS_FD_SET(x) \/ \E b \in {Wants[x]} : FreeRTOS_FD_CLR(x, b)
  PROVE  MailStep
PROOF
<1>1. sock \in [Sockets -> Socket] /\ sock[x] \in Socket BY DEF IInv, TypeOK
<1>2. \A s \in Sockets : s # x => sock'[s] = sock[s]
  BY <1>1 DEF FreeRTOS_FD_SET, FreeRTOS_FD_CLR
<1>3. /\ sock'[x].bound = sock[x].bound /\ sock'[x].usLocalPort = sock[x].usLocalPort
      /\ sock'[x].waiting = sock[x].waiting
  BY <1>1 DEF FreeRTOS_FD_SET, FreeRTOS_FD_CLR, Socket
<1>4. \A s \in Sockets :
        /\ sock'[s].bound = sock[s].bound /\ sock'[s].usLocalPort = sock[s].usLocalPort
        /\ sock'[s].waiting = sock[s].waiting
  BY <1>2, <1>3
<1>5. QED BY <1>4, BoxStays DEF MailStep, Sockets

LEMMA StepMails == IInv /\ IInv' /\ [Next]_vars => MailStep
PROOF
<1>1. SUFFICES ASSUME IInv, IInv', [Next]_vars PROVE MailStep OBVIOUS
<1>2. CASE Serve
  <2>1. CASE HandleBind BY <1>1, <2>1, Claims
  <2>2. CASE HandleClose BY <1>1, <2>2, Leaves
  <2>3. CASE vSocketSelect BY <1>1, <2>3, SelectKeeps
  <2>4. CASE \E s \in Tcp : xTCPTimerCheck(s) BY <1>1, <2>4, TcpKeeps
  <2>5. QED BY <1>2, <2>1, <2>2, <2>3, <2>4 DEF Serve
<1>3. CASE Packets
  <2>1. CASE \E p \in Ports, d \in Datagrams : xProcessReceivedUDPPacket(p, d)
    BY <1>1, <2>1, Arrives
  <2>2. ASSUME NEW s \in Tcp,
               \/ \E d \in Datagrams : TcpData(s, d)
               \/ TcpAcked(s)
               \/ \E state \in {"eCLOSED", "eCLOSE_WAIT"} : TcpCloses(s, state)
        PROVE  MailStep
    BY <1>1, <2>2, TcpKeeps
  <2>3. QED BY <1>3, <2>1, <2>2 DEF Packets
<1>4. CASE TaskNext
  <2>1. PICK t \in Tasks :
          \/ Work(t) \/ WaitOn(t) \/ SendWaits(t) \/ ReturnsEmpty(t) \/ TimesOut(t)
          \/ \E s \in Sockets :
                \/ FreeRTOS_socket(t, s) \/ FreeRTOS_closesocket(t, s)
                \/ \E p \in 0 .. MaxPort - 1 : FreeRTOS_bind(t, s, p)
                \/ FreeRTOS_recvfrom(t, s) \/ FreeRTOS_recv(t, s) \/ FreeRTOS_send(t, s)
    BY <1>4 DEF TaskNext
  <2>2. CASE Work(t)
    <3>1. CASE Take(t) BY <1>1, <3>1, Takes
    <3>2. CASE BindReturns(t) \/ Wakes(t) \/ Sends(t) BY <1>1, <3>2, WorkKeeps
    <3>3. CASE CheckState(t) \/ LooksAgain(t)
      BY <3>3, NothingChanges DEF CheckState, LooksAgain
    <3>4. QED BY <2>2, <3>1, <3>2, <3>3 DEF Work
  <2>3. CASE WaitOn(t) \/ SendWaits(t) \/ ReturnsEmpty(t) \/ TimesOut(t)
    BY <2>3, NothingChanges DEF WaitOn, SendWaits, ReturnsEmpty, TimesOut
  <2>4. ASSUME NEW s \in Sockets,
               FreeRTOS_socket(t, s) \/ \E p \in 0 .. MaxPort - 1 : FreeRTOS_bind(t, s, p)
        PROVE  MailStep
    BY <1>1, <2>4, UnboundKeeps
  <2>5. ASSUME NEW s \in Sockets,
               \/ FreeRTOS_closesocket(t, s)
               \/ FreeRTOS_recvfrom(t, s) \/ FreeRTOS_recv(t, s) \/ FreeRTOS_send(t, s)
        PROVE  MailStep
    BY <2>5, NothingChanges
    DEF FreeRTOS_closesocket, FreeRTOS_recvfrom, FreeRTOS_recv, FreeRTOS_send
  <2>6. QED BY <2>1, <2>2, <2>3, <2>4, <2>5
<1>5. CASE SelectNext
  <2>1. CASE \/ Selecting \/ FreeRTOS_select \/ SelectTimesOut \/ SelectReturns \/ LookedAtAll
             \/ \E s \in Sockets : Look(s)
    BY <2>1, NothingChanges
    DEF Selecting, SelectWakes, Ask, PostSelect, Answered, FreeRTOS_select, SelectTimesOut,
        SelectReturns, LookedAtAll, Look
  <2>2. CASE ReadReady BY <1>1, <2>2, Takes, SocketsAssumption
  <2>3. ASSUME NEW s \in Sockets,
               FreeRTOS_FD_SET(s) \/ \E b \in {Wants[s]} : FreeRTOS_FD_CLR(s, b)
        PROVE  MailStep
    BY <1>1, <2>3, SetKeeps
  <2>4. QED BY <1>5, <2>1, <2>2, <2>3 DEF SelectNext
<1>6. CASE UNCHANGED vars BY <1>6, NothingChanges DEF vars
<1>7. QED BY <1>1, <1>2, <1>3, <1>4, <1>5, <1>6 DEF Next

\* The bound UDP sockets are the mailboxes of their ports: what arrives for a
\* port is kept in order and taken once, by the socket that holds the port,
\* and no other socket's binding or closing touches it (vSocketBind,
\* vSocketClose, xProcessReceivedUDPPacket and FreeRTOS_recvfrom).
THEOREM Implements_mailboxes == Spec => ImplementsMailboxes
PROOF
<1>1. Init => Boxes!Init
  <2>1. SUFFICES ASSUME Init PROVE Boxes!Init OBVIOUS
  <2>2. \A s \in Udp : sock[s].bound = FALSE BY <2>1 DEF Init, Blank, Sockets
  <2>3. \A p : ~ InUse(p) BY <2>2 DEF InUse, BoundUdp
  <2>4. QED BY <2>3 DEF Boxes!Init
<1>2. IInv /\ IInv' /\ [Next]_vars => [Boxes!Next]_Box BY StepMails DEF MailStep
<1>3. QED BY <1>1, <1>2, Invariant, PTL DEF Spec, ImplementsMailboxes, Boxes!Spec, Box
=============================================================================
