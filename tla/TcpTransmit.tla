---------------------------- MODULE TcpTransmit -----------------------------
(* The sending half of an established TCP connection: the owner's            *)
(* FreeRTOS_send and FreeRTOS_shutdown (FreeRTOS_Sockets.c), the segments of *)
(* the transmit window and their three queues (FreeRTOS_TCP_WIN.c), and what *)
(* the IP task does with them when a packet comes in or the connection's     *)
(* timer runs out (FreeRTOS_TCP_IP.c).                                       *)
(*                                                                           *)
(* The network loses, repeats and reorders packets both ways.  The peer is   *)
(* external: it acknowledges what it holds, also selectively, offers windows *)
(* as it likes and answers what it gets.                                     *)
EXTENDS StreamBuffer, SeqNumbers, FiniteSets, Sequences

CONSTANTS FirstSeq,      \* tx.ulFirstSequenceNumber: the number of byte 0
          StreamLength,  \* bytes the owner will send
          SendSize,      \* the most it passes to one call
          MSS,           \* usMSS
          SegCount,      \* ipconfigTCP_WIN_SEG_COUNT
          Borrowers,     \* the most segments other connections hold
          TxWindow,      \* xSize.ulTxWindowLength at first
          Windows,       \* the windows the peer offers
          SEND_REPEATED_COUNT,
          DUPLICATE_ACKS_BEFORE_FAST_RETRANSMIT,
          MAX_TRANSMIT_COUNT_USING_LARGE_WINDOW,
          MaxKeepAlives, \* ucKeepRepCount may not go beyond it
          MaxWire,       \* packets with data the network holds; it loses more
          SelectiveAcks  \* whether the peer sends them

ASSUME TransmitAssumption ==
    /\ FirstSeq \in Seqs
    /\ StreamLength \in Nat /\ 2 * (StreamLength + LENGTH) < SeqSpace
    /\ SendSize \in Nat \ {0} /\ MSS \in Nat \ {0}
    /\ SegCount \in Nat \ {0} /\ Borrowers \in 0 .. SegCount
    /\ TxWindow \in Nat /\ Windows \subseteq Nat
    /\ SEND_REPEATED_COUNT \in Nat \ {0}
    /\ DUPLICATE_ACKS_BEFORE_FAST_RETRANSMIT \in Nat \ {0}
    /\ MAX_TRANSMIT_COUNT_USING_LARGE_WINDOW \in Nat \ {0}
    /\ MaxKeepAlives \in Nat /\ MaxWire \in Nat \ {0}
    /\ SelectiveAcks \in BOOLEAN

Bytes == 0 .. StreamLength - 1
SeqOf(i) == Plus(FirstSeq, i)
Garbage == StreamLength        \* what a byte holds that was never written

\* Counts of transmissions beyond the one that matters are one.
Last == MAX_TRANSMIT_COUNT_USING_LARGE_WINDOW + 1

VARIABLES
    txStream,   \* the markers of the transmit stream
    ucArray,    \* its bytes: which of the owner's bytes each one is
    window,     \* the transmitting half of TCPWindow_t
    peerWindow, \* ulWindowSize: what the peer offered last
    state,      \* ucTCPState
    shutdown,   \* bUserShutdown
    keepAlives, \* ucKeepRepCount
    burst,      \* the IP task inside a series of prvTCPPrepareSend
    owner,      \* where the owner is: [at, count]
    \* segments other connections hold
    written,    \* bytes the owner has put into the stream
    released,   \* bytes that were acknowledged and left the stream
    wire,       \* packets on their way to the peer, [seq, data]
    held,       \* the bytes the peer has
    owes        \* the peer has something to answer

vars == <<txStream, ucArray, window, peerWindow, state, shutdown, keepAlives,
          burst, owner, written, released, wire, held, owes>>

ownerVars == <<ucArray, owner, written, shutdown>>
peerVars == <<held, owes>>

\* left: calls of prvTCPPrepareSend that may follow; old: segments at the
\* head of the waiting queue whose time is over; timer: called by the timer.
NoBurst == [left |-> 0, old |-> 0, timer |-> FALSE]
Idle == [at |-> "idle", count |-> 0]

Segment(seq, len, pos) ==
    [seq |-> seq, len |-> len, pos |-> pos, acked |-> FALSE,
     ucTransmitCount |-> 0, ucDupAckCount |-> 0]

\* segs is xTxSegments; open says that pxHeadSegment is the last of them and
\* takes more bytes.  The queues hold the numbers at which segments begin.
Init ==
    /\ txStream = vStreamBufferClear
    /\ ucArray = [i \in Index |-> Garbage]
    /\ window = [segs |-> <<>>, open |-> FALSE, xTxQueue |-> <<>>,
                 xPriorityQueue |-> <<>>, xWaitQueue |-> <<>>,
                 current |-> SeqOf(0), highest |-> SeqOf(0), next |-> SeqOf(0),
                 limit |-> TxWindow]
    /\ peerWindow \in Windows
    /\ state = "ESTABLISHED"
    /\ shutdown = FALSE
    /\ keepAlives = 0
    /\ burst = NoBurst
    /\ owner = Idle
    /\ written = 0
    /\ released = 0
    /\ wire = {}
    /\ held = {}
    /\ owes = FALSE

-----------------------------------------------------------------------------
(* Cutting the stream into segments.                                         *)

\* lTCPWindowTxAdd: the last segment is filled up while it has not been sent,
\* then segments are taken from the pool as long as there are any.
Filled(w, n) == IF w.open THEN Least(n, MSS - w.segs[Len(w.segs)].len) ELSE 0

NewSegments(w, n, borrowed) ==
    Least(IF Len(w.segs) + borrowed < SegCount THEN SegCount - borrowed - Len(w.segs) ELSE 0,
          (n + MSS - 1) \div MSS)

Grown(w, fill) ==
    IF fill = 0 THEN w.segs ELSE [w.segs EXCEPT ![Len(w.segs)].len = @ + fill]

\* n bytes from the number seq on, which begin at pos in the array.
Cut(seq, pos, n, new) ==
    [k \in 1 .. new |-> Segment(Plus(seq, (k - 1) * MSS),
                               Least(MSS, n - (k - 1) * MSS),
                               Wrap(pos + (k - 1) * MSS))]

lTCPWindowTxAdd(w, n, pos, borrowed) ==
    LET fill == Filled(w, n)
        left == n - fill
        new == NewSegments(w, left, borrowed)
        added == Cut(Plus(w.next, fill), Wrap(pos + fill), left, new)
        segs == Grown(w, fill) \o added
        done == fill + Least(left, new * MSS)
    IN  [done |-> done,
         window |-> [w EXCEPT
            !.segs = segs,
            !.xTxQueue = @ \o [k \in 1 .. new |-> added[k].seq],
            !.open = (w.open \/ new > 0) /\ segs[Len(segs)].len < MSS,
            !.next = Plus(@, done)]]

\* prvTCPAddTxData, on the stream m
prvTCPAddTxData(w, m, borrowed) ==
    LET add == lTCPWindowTxAdd(w, uxStreamBufferMidSpace(m), m.mid, borrowed)
    IN  [window |-> add.window, stream |-> vStreamBufferMoveMid(m, add.done)]

-----------------------------------------------------------------------------
(* Acknowledgements.                                                         *)

\* The segments that an acknowledgement of first .. last - 1 takes: from the
\* one that begins at first on, as long as they were acknowledged before or
\* end within it.
Taken(w, first, last) ==
    LET Takes(s) == /\ xSequenceLessThan(s.seq, last)
                    /\ s.acked \/ ~ xSequenceGreaterThan(Plus(s.seq, s.len), last)
    IN  {k \in DOMAIN w.segs :
            \E i \in 1 .. k : /\ w.segs[i].seq = first
                              /\ \A j \in i .. k : Takes(w.segs[j])}

\* What is left of a sequence when only the places in keep stay.
Kept(list, keep) ==
    LET kept[k \in 0 .. Len(list)] ==
          IF k = 0 THEN <<>>
          ELSE IF k \in keep THEN Append(kept[k - 1], list[k])
          ELSE kept[k - 1]
    IN  kept[Len(list)]

Within(queue, seqs) == Kept(queue, {k \in DOMAIN queue : queue[k] \in seqs})
Without(queue, seqs) == Kept(queue, {k \in DOMAIN queue : queue[k] \notin seqs})

\* The segments that are taken leave the three queues,
Unqueued(w, taken) ==
    LET seqs == {w.segs[k].seq : k \in taken}
    IN  [w EXCEPT !.xTxQueue = Without(@, seqs),
                  !.xWaitQueue = Without(@, seqs),
                  !.xPriorityQueue = Without(@, seqs)]

\* and are freed when they are at the left side, marked otherwise.
Freed(w, taken) == Kept(w.segs, DOMAIN w.segs \ taken)

Marked(w, taken) ==
    [k \in DOMAIN w.segs |-> [w.segs[k] EXCEPT !.acked = @ \/ k \in taken]]

EndOf(w, taken) ==
    LET k == CHOOSE k \in taken : k + 1 \notin taken
    IN  Plus(w.segs[k].seq, w.segs[k].len)

\* A slip: an acknowledgement beyond a missing segment moves the left side.
prvTCPWindowTxCheckAckLoose(w, first, last) ==
    LET taken == Taken(w, first, last)
        count == IF taken = {} THEN 0 ELSE Minus(last, first)
    IN  [window |-> [Unqueued(w, taken) EXCEPT
            !.segs = Freed(w, taken),
            !.current = Plus(@, count)],
         confirmed |-> count]

\* prvTCPWindowTxCheckAck: what is acknowledged at the left side may leave
\* the stream.
prvTCPWindowTxCheckAck(w, first, last) ==
    LET taken == Taken(w, first, last)
        left == first = w.current
        count == IF left /\ taken # {} THEN Minus(EndOf(w, taken), first) ELSE 0
    IN  [window |-> [Unqueued(w, taken) EXCEPT
            !.segs = IF left THEN Freed(w, taken) ELSE Marked(w, taken),
            !.current = Plus(@, count)],
         confirmed |-> count]

\* prvTCPWindowFastRetransmit: each selective acknowledgement counts against
\* the waiting segments before it; the third sends them again at once.
Passed(w, first) ==
    {k \in DOMAIN w.segs :
        /\ ~ w.segs[k].acked
        /\ xSequenceLessThan(w.segs[k].seq, first)
        /\ w.segs[k].seq \in {w.xWaitQueue[j] : j \in DOMAIN w.xWaitQueue}}

Counted(w, passed, asked) ==
    [k \in DOMAIN w.segs |->
        IF k \in passed
        THEN [w.segs[k] EXCEPT
                !.ucDupAckCount = Least(@ + 1, DUPLICATE_ACKS_BEFORE_FAST_RETRANSMIT + 1),
                !.ucTransmitCount = IF k \in asked THEN 0 ELSE @]
        ELSE w.segs[k]]

prvTCPWindowFastRetransmit(w, first) ==
    LET passed == Passed(w, first)
        asked == {k \in passed : w.segs[k].ucDupAckCount + 1
                                     = DUPLICATE_ACKS_BEFORE_FAST_RETRANSMIT}
        again == {w.segs[k].seq : k \in asked}
    IN  [w EXCEPT !.segs = Counted(w, passed, asked),
                  !.xWaitQueue = Without(@, again),
                  !.xPriorityQueue = @ \o Within(w.xWaitQueue, again)]

\* ulTCPWindowTxSack and ulTCPWindowTxAck
ulTCPWindowTxSack(w, first, last) ==
    LET checked == prvTCPWindowTxCheckAck(w, first, last)
    IN  [checked EXCEPT !.window = prvTCPWindowFastRetransmit(@, first)]

ulTCPWindowTxAck(w, seq) ==
    IF xSequenceLessThanOrEqual(seq, w.current)
    THEN [window |-> w, confirmed |-> 0]
    ELSE prvTCPWindowTxCheckAck(w, w.current, seq)

-----------------------------------------------------------------------------
(* The IP task: a series of prvTCPPrepareSend, none of whose steps the       *)
(* others see.                                                               *)

Sending == burst.left > 0

SegmentAt(w, seq) == CHOOSE k \in DOMAIN w.segs : w.segs[k].seq = seq
First(w, queue) == w.segs[SegmentAt(w, Head(queue))]

\* prvTCPWindowTxHasSpace.  The two numbers are compared as plain integers.
prvTCPWindowTxHasSpace(w) ==
    LET outstanding == IF w.highest >= w.current THEN w.highest - w.current ELSE 0
        len == First(w, w.xTxQueue).len
    IN  /\ w.xTxQueue # <<>>
        /\ peerWindow - Least(peerWindow, outstanding) >= len
        /\ outstanding = 0 \/ w.limit >= outstanding + len

\* A slip: a position is taken for a distance from the tail.
DataFromTail(s) ==
    LET count == GetCount(txStream, s.pos, s.len)
    IN  BytesAt(ucArray, txStream, s.pos, count)
        \o [k \in 1 .. s.len - count |-> Garbage]

\* The data of a segment, peeked from the stream.
Data(s) ==
    LET offset == uxStreamBufferDistance(txStream.tail, s.pos)
        count == GetCount(txStream, offset, s.len)
    IN  BytesAt(ucArray, txStream, offset, count)
        \o [k \in 1 .. s.len - count |-> Garbage]

\* What ulTCPWindowTxGet does with the segment it has chosen, which is in no
\* queue of w any more.
Chosen(w, seq) ==
    LET k == SegmentAt(w, seq)
        sent == w.segs[k].ucTransmitCount + 1
    IN  [w EXCEPT !.segs[k].ucTransmitCount = Least(sent, Last),
                  !.xWaitQueue = Append(@, seq),
                  !.limit = IF sent = MAX_TRANSMIT_COUNT_USING_LARGE_WINDOW
                            THEN Least(@, 2 * MSS) ELSE @]

\* A keep-alive: it repeats a number the peer has had, so that it must answer.
Question == [seq |-> 0, data |-> <<>>]

\* What may be on its way when p is sent as well.
Carried(p) ==
    LET others == wire \ {p, Question}
        lost == IF Cardinality(others) < MaxWire THEN {{}} ELSE {{q} : q \in others}
    IN  {(wire \ l) \cup {p} : l \in lost}

Transmit(v, seq, old) ==
    /\ keepAlives <= MaxKeepAlives
    /\ \E w \in {v} :
          /\ window' \in {Chosen(w, seq)}
          /\ wire' \in Carried([seq |-> seq,
                                data |-> Data(w.segs[SegmentAt(w, seq)])])
    /\ burst' = IF burst.left = 1 THEN NoBurst
                ELSE [burst EXCEPT !.left = @ - 1, !.old = old]
    /\ UNCHANGED <<txStream, peerWindow, state, keepAlives, released>>
    /\ UNCHANGED <<ownerVars, peerVars>>

\* Segments that a fast retransmission asks for come first,
SendPriority ==
    /\ Sending
    /\ window.xPriorityQueue # <<>>
    /\ Transmit([window EXCEPT !.xPriorityQueue = Tail(@)],
                Head(window.xPriorityQueue), burst.old)

\* then the ones that have waited too long,
SendExpired ==
    LET seq == Head(window.xWaitQueue)
    IN  /\ Sending
        /\ window.xPriorityQueue = <<>>
        /\ burst.old > 0
        /\ Transmit([window EXCEPT !.xWaitQueue = Tail(@),
                        !.segs[SegmentAt(window, seq)].ucDupAckCount = 0],
                    seq, burst.old - 1)

\* What stands before a new segment; then it is one.
MaySendNew == /\ window.xPriorityQueue = <<>>
              /\ burst.old = 0
              /\ window.xTxQueue # <<>>
              /\ prvTCPWindowTxHasSpace(window)

SendNew ==
    LET seq == Head(window.xTxQueue)
        last == Len(window.segs)
    IN  /\ Sending
        /\ MaySendNew
        /\ Transmit([window EXCEPT
                        !.xTxQueue = Tail(@),
                        !.open = @ /\ window.segs[last].seq # seq,
                        !.highest = Plus(seq, First(window, window.xTxQueue).len)],
                    seq, 0)

NothingToSend == window.xPriorityQueue = <<>> /\ burst.old = 0 /\ ~ MaySendNew

\* A slip: what has been sent need not be acknowledged.
xTCPWindowTxSent == window.xTxQueue = <<>>

\* xTCPWindowTxDone
xTCPWindowTxDone == window.segs = <<>>

\* Nothing to send: the FIN follows the last byte ...
SendFin ==
    /\ Sending
    /\ NothingToSend
    /\ shutdown /\ xTCPWindowTxDone
    /\ keepAlives <= MaxKeepAlives
    /\ state' = "FIN_WAIT_1"
    /\ shutdown' = FALSE
    /\ burst' = NoBurst
    /\ UNCHANGED <<txStream, ucArray, window, peerWindow, keepAlives, owner,
                   written, released, wire>>
    /\ UNCHANGED peerVars

\* A slip: only a connection that has nothing to send asks for an answer.
SendKeepAliveWhenDone ==
    /\ Sending
    /\ NothingToSend
    /\ ~ shutdown /\ xTCPWindowTxDone
    /\ burst.timer
    /\ keepAlives <= MaxKeepAlives
    /\ keepAlives' = keepAlives + 1
    /\ wire' = wire \cup {Question}
    /\ burst' = NoBurst
    /\ UNCHANGED <<txStream, window, peerWindow, state, released>>
    /\ UNCHANGED <<ownerVars, peerVars>>

\* ... or, when nothing has been heard for long, a packet that asks the peer
\* for an answer ...
SendKeepAlive ==
    /\ Sending
    /\ NothingToSend
    /\ ~ (shutdown /\ xTCPWindowTxDone)
    /\ burst.timer
    /\ keepAlives <= MaxKeepAlives
    /\ keepAlives' = keepAlives + 1
    /\ wire' = wire \cup {Question}
    /\ burst' = NoBurst
    /\ UNCHANGED <<txStream, window, peerWindow, state, released>>
    /\ UNCHANGED <<ownerVars, peerVars>>

\* ... or nothing.
SendNothing ==
    /\ Sending
    /\ NothingToSend
    /\ ~ (shutdown /\ xTCPWindowTxDone)
    /\ keepAlives <= MaxKeepAlives
    /\ burst' = NoBurst
    /\ UNCHANGED <<txStream, window, peerWindow, state, keepAlives, released, wire>>
    /\ UNCHANGED <<ownerVars, peerVars>>

\* The fourth such packet was not answered either.
GiveUp ==
    /\ Sending
    /\ keepAlives > MaxKeepAlives
    /\ state' = "CLOSE_WAIT"
    /\ burst' = NoBurst
    /\ UNCHANGED <<txStream, window, peerWindow, keepAlives, released,
                   wire>>
    /\ UNCHANGED <<ownerVars, peerVars>>

PrepareSend == \/ SendPriority \/ SendExpired \/ SendNew
               \/ SendFin \/ SendKeepAlive \/ SendNothing \/ GiveUp

\* What brings the IP task here: the data the owner added since is cut into
\* segments, as far as the other connections have left any in the pool, and
\* as many as allowed are sent.
StartSending(w, m, left, old, timer) ==
    /\ old \in 0 .. Len(w.xWaitQueue)
    /\ \E add \in {prvTCPAddTxData(w, m, b) : b \in 0 .. Borrowers} :
          window' = add.window /\ txStream' = add.stream
    /\ burst' = [left |-> left, old |-> old, timer |-> timer]

\* xTCPSocketCheck: the timer of the connection, or an event of the owner.
xTCPSocketCheck(old) ==
    /\ state = "ESTABLISHED" /\ ~ Sending
    /\ StartSending(window, txStream, SEND_REPEATED_COUNT, old, TRUE)
    /\ UNCHANGED <<peerWindow, state, keepAlives, released, wire>>
    /\ UNCHANGED <<ownerVars, peerVars>>

\* xProcessReceivedTCPPacket, prvCheckOptions and prvHandleEstablished, for a
\* packet without data: a selective acknowledgement of the bytes from first on
\* (none if last = first), the acknowledgement of the bytes before ack, and
\* the window it offers.
Acknowledge(ack, first, last) ==
    LET sack == IF first = last THEN [window |-> window, confirmed |-> 0]
                ELSE ulTCPWindowTxSack(window, SeqOf(first), SeqOf(last))
        both == ulTCPWindowTxAck(sack.window, SeqOf(ack))
    IN  [window |-> both.window,
         count |-> GetCount(txStream, 0, sack.confirmed + both.confirmed)]

Receive(ack, win, first, last, old) ==
    /\ state = "ESTABLISHED" /\ ~ Sending
    /\ keepAlives' = 0
    /\ peerWindow' = win
    /\ \E r \in {Acknowledge(ack, first, last)} :
          /\ released' = released + r.count
          /\ StartSending(r.window, TailMoved(txStream, r.count),
                          1 + SEND_REPEATED_COUNT, old, FALSE)
    /\ UNCHANGED <<state, wire>>
    /\ UNCHANGED ownerVars

-----------------------------------------------------------------------------
(* The owner.                                                                *)

\* FreeRTOS_send: as many bytes as there is room for are copied ...
SendCopy ==
    \E n \in 1 .. SendSize :
        LET count == AddCount(txStream, 0, n)
        IN  /\ state = "ESTABLISHED" /\ ~ Sending
            /\ owner.at = "idle" /\ ~ shutdown
            /\ written + n <= StreamLength
            /\ count > 0
            /\ ucArray' = WrittenTo(ucArray, txStream, 0, n,
                                    [k \in 0 .. n - 1 |-> written + k])
            /\ owner' = [at |-> "move", count |-> count]
            /\ UNCHANGED <<txStream, window, peerWindow, state, shutdown,
                           keepAlives, burst, written, released, wire>>
            /\ UNCHANGED peerVars

\* ... and the head is moved over them.
SendMove ==
    /\ owner.at = "move" /\ ~ Sending
    /\ txStream' = uxStreamBufferAdd(txStream, 0, owner.count)
    /\ written' = written + owner.count
    /\ owner' = Idle
    /\ UNCHANGED <<ucArray, window, peerWindow, state, shutdown, keepAlives,
                   burst, released, wire>>
    /\ UNCHANGED peerVars

\* FreeRTOS_shutdown, when the owner has nothing more to send.
Shutdown ==
    /\ state = "ESTABLISHED" /\ ~ Sending
    /\ owner.at = "idle" /\ ~ shutdown
    /\ written = StreamLength
    /\ shutdown' = TRUE
    /\ UNCHANGED <<txStream, ucArray, window, peerWindow, state, keepAlives,
                   burst, owner, written, released, wire>>
    /\ UNCHANGED peerVars

-----------------------------------------------------------------------------
(* The network and the peer.                                                 *)

\* The number of bytes the peer has without a gap.
Contiguous == CHOOSE n \in 0 .. StreamLength :
                 0 .. n - 1 \subseteq held /\ n \notin held

Deliver(p) ==
    /\ p \in wire /\ ~ Sending
    /\ wire' = wire \ {p}
    /\ held' = held \cup {i \in Bytes : \E k \in DOMAIN p.data :
                                           SeqOf(i) = Plus(p.seq, k - 1)}
    /\ owes' = TRUE
    /\ UNCHANGED <<txStream, window, peerWindow, state, keepAlives, burst,
                   released>>
    /\ UNCHANGED ownerVars

Lose ==
    /\ ~ Sending
    /\ \/ /\ owes /\ owes' = FALSE
          /\ UNCHANGED wire
       \/ /\ \E p \in wire : wire' = wire \ {p}
          /\ UNCHANGED owes
    /\ UNCHANGED <<txStream, window, peerWindow, state, keepAlives, burst,
                   released, held>>
    /\ UNCHANGED ownerVars

\* The peer's answer to what it got last.
Answer(win, first, last, old) ==
    /\ owes
    /\ owes' = FALSE
    /\ Receive(Contiguous, win, first, last, old)
    /\ UNCHANGED held

\* An earlier answer, repeated or late.
StaleAnswer(ack, win, old) ==
    /\ ack <= Contiguous
    /\ Receive(ack, win, 0, 0, old)
    /\ UNCHANGED peerVars

\* What a selective acknowledgement can name: bytes held beyond a gap.
Sacks == {<<0, 0>>} \cup
         (IF SelectiveAcks
          THEN {s \in Bytes \X (0 .. StreamLength) :
                  s[1] > Contiguous /\ s[1] < s[2] /\ s[1] .. s[2] - 1 \subseteq held}
          ELSE {})

IPTask == PrepareSend \/ \E old \in 0 .. SegCount : xTCPSocketCheck(old)

Owner == SendCopy \/ SendMove \/ Shutdown

Network ==
    \/ \E p \in wire : Deliver(p)
    \/ Lose
    \/ \E win \in Windows, old \in 0 .. SegCount :
          \/ \E s \in Sacks : Answer(win, s[1], s[2], old)
          \/ \E ack \in 0 .. StreamLength : StaleAnswer(ack, win, old)

Next == IPTask \/ Owner \/ Network

\* A packet that holds byte i, and one that only asks for an answer.
DeliverByte(i) ==
    \E p \in wire : /\ \E k \in DOMAIN p.data : Plus(p.seq, k - 1) = SeqOf(i)
                    /\ Deliver(p)
DeliverQuestion == Deliver(Question)

AnswerFully ==
    \E win \in Windows : /\ \A other \in Windows : other <= win
                         /\ Answer(win, 0, 0, 0)

(* The timers of the connection run out and the IP task finishes what it has *)
(* begun; the owner finishes its call.  Of what is sent for ever something   *)
(* arrives, and of the peer's answers too, some with room for everything.    *)
Fairness ==
    /\ SF_vars(xTCPSocketCheck(Len(window.xWaitQueue)))
    /\ WF_vars(PrepareSend)
    /\ SF_vars(SendKeepAlive)
    /\ WF_vars(SendMove)
    /\ \A i \in Bytes : SF_vars(DeliverByte(i))
    /\ SF_vars(DeliverQuestion)
    /\ SF_vars(AnswerFully)

Spec == Init /\ [][Next]_vars /\ Fairness
-----------------------------------------------------------------------------
(* Properties.                                                               *)

SegmentType == [seq : Seqs, len : 1 .. MSS, pos : Index, acked : BOOLEAN,
                ucTransmitCount : 0 .. Last,
                ucDupAckCount : 0 .. DUPLICATE_ACKS_BEFORE_FAST_RETRANSMIT + 1]

TypeOK ==
    /\ txStream \in Markers
    /\ ucArray \in [Index -> 0 .. StreamLength]
    /\ window \in [segs : Seq(SegmentType), open : BOOLEAN, xTxQueue : Seq(Seqs),
                   xPriorityQueue : Seq(Seqs), xWaitQueue : Seq(Seqs),
                   current : Seqs, highest : Seqs, next : Seqs, limit : Nat]
    /\ Len(window.segs) <= SegCount
    /\ peerWindow \in Windows
    /\ state \in {"ESTABLISHED", "FIN_WAIT_1", "CLOSE_WAIT"}
    /\ shutdown \in BOOLEAN
    /\ keepAlives \in 0 .. MaxKeepAlives + 1
    /\ burst.left \in 0 .. SEND_REPEATED_COUNT + 1
    /\ owner \in [at : {"idle", "move"}, count : 0 .. SendSize]
    /\ written \in 0 .. StreamLength /\ released \in 0 .. written
    /\ held \subseteq Bytes
    /\ owes \in BOOLEAN

Queued == window.xTxQueue \o window.xPriorityQueue \o window.xWaitQueue

\* The segments cover the stream from the first byte not acknowledged to the
\* mid marker without a gap, each where its bytes lie in the array, and each
\* that is not acknowledged waits in exactly one of the three queues: no
\* acknowledgement, in whatever order, loses one or leaves one behind.
SegmentsCoverStream ==
    LET segs == window.segs
        before(k) == Minus(segs[k].seq, window.current)
    IN  /\ window.current = SeqOf(released)
        /\ window.next = Plus(window.current,
                        uxStreamBufferDistance(txStream.tail, txStream.mid))
        /\ \A k \in DOMAIN segs :
              /\ segs[k].seq = IF k = 1 THEN window.current
                               ELSE Plus(segs[k - 1].seq, segs[k - 1].len)
              /\ segs[k].pos = Wrap(txStream.tail + before(k))
        /\ window.next = IF segs = <<>> THEN window.current
                         ELSE Plus(segs[Len(segs)].seq, segs[Len(segs)].len)
        /\ {Queued[k] : k \in DOMAIN Queued} =
              {segs[k].seq : k \in {k \in DOMAIN segs : ~ segs[k].acked}}
        /\ \A j, k \in DOMAIN Queued : j # k => Queued[j] # Queued[k]

\* A packet, sent for the first time or again, carries at each number the byte
\* the owner wrote there: nothing is read that the owner is still writing or
\* that was overwritten after its acknowledgement.
SentAsWritten ==
    \A p \in wire : \A k \in DOMAIN p.data :
        p.data[k] < written /\ SeqOf(p.data[k]) = Plus(p.seq, k - 1)

outcome == CASE state = "ESTABLISHED" -> "open"
             [] state = "FIN_WAIT_1" -> "finished"
             [] state = "CLOSE_WAIT" -> "given up"

Transfer == INSTANCE AcknowledgedTransfer WITH Capacity <- LENGTH - 1

\* The invariant of the transmitting half.
TransmitInv == TypeOK /\ SegmentsCoverStream

\* Bytes are only released that the peer holds, and the FIN the owner asked
\* for goes out after the last of them: neither a late acknowledgement nor a
\* selective one, nor a shared pool that has few segments left, loses a byte.
ImplementsTransfer == Transfer!Spec

\* A new segment keeps within the window that the peer offered last.
WindowRespected ==
    [][window'.highest # window.highest
        => Minus(window'.highest, window.current) <= peerWindow]_vars

\* Everything written is acknowledged in the end, unless the connection is
\* given up: no lost packet, no closed window and no lack of segments stops it.
AllAcknowledged == <>[](released = written \/ state = "CLOSE_WAIT")

=============================================================================
