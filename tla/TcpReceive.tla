----------------------------- MODULE TcpReceive -----------------------------
(* The receiving half of an established TCP connection: the receive window   *)
(* (FreeRTOS_TCP_WIN.c), the handling of a packet and of the peer's FIN by   *)
(* the IP task (FreeRTOS_TCP_IP.c), and the socket's owner, who reads the    *)
(* stream with FreeRTOS_recv and may end the connection with                 *)
(* FreeRTOS_shutdown (FreeRTOS_Sockets.c).                                   *)
(*                                                                           *)
(* The peer sends the bytes 0, 1, ... StreamLength - 1, cut into Packets     *)
(* that the network may lose, repeat and reorder.  The IP task has the       *)
(* higher priority: what it does with a packet is one step, but it may come  *)
(* between any two steps of the owner, who shares the word of flags with it. *)
EXTENDS StreamBuffer, SeqNumbers, FiniteSets, Sequences

CONSTANTS FirstSeq,      \* the sequence number of byte 0
          StreamLength,  \* bytes the peer sends before its FIN
          Packets,       \* [at, len, fin]: the ways the peer cuts its stream
          SegCount,      \* ipconfigTCP_WIN_SEG_COUNT
          BufferLength,  \* xBufferLength of the owner's calls of recv
          LittleSpace,   \* uxLittleSpace
          EnoughSpace    \* uxEnoughSpace

ASSUME ReceiveAssumption ==
    /\ FirstSeq \in Seqs
    /\ StreamLength \in Nat
    /\ 2 * (StreamLength + LENGTH) < SeqSpace
    /\ \A p \in Packets : /\ p.at \in Nat /\ p.len \in Nat /\ p.fin \in BOOLEAN
                          /\ p.at + p.len <= StreamLength
                          /\ p.fin => p.at + p.len = StreamLength
    /\ SegCount \in Nat /\ BufferLength \in Nat \ {0}
    /\ LittleSpace \in Nat /\ EnoughSpace \in Nat

SeqOf(i) == (FirstSeq + i) % SeqSpace

Garbage == StreamLength        \* what a byte holds that was never written

VARIABLES
    rxStream,   \* the markers of the receive stream
    ucArray,    \* its bytes: which byte of the peer's stream each one is
    window,     \* rx: [current, highest, fin], sequence numbers
    xRxSegments,\* segments stored ahead of a missing one, [seq, len]
    options,    \* the SACK in the options, <<first, last + 1>>, or <<>>
    state,      \* ucTCPState
    bits,       \* the flags the IP task and the owner share
    owner,      \* where the owner is: [at, count, bits]
    got         \* the bytes the owner has read

vars == <<rxStream, ucArray, window, xRxSegments, options, state, bits, owner,
          got>>

States == {"ESTABLISHED", "FIN_WAIT_1", "LAST_ACK", "CLOSE_WAIT"}

Bits == [bUserShutdown : BOOLEAN, bLowWater : BOOLEAN, bFinAccepted : BOOLEAN,
         bFinSent : BOOLEAN, bFinRecv : BOOLEAN, bFinAcked : BOOLEAN]

NoBits == [bUserShutdown |-> FALSE, bLowWater |-> FALSE, bFinAccepted |-> FALSE,
           bFinSent |-> FALSE, bFinRecv |-> FALSE, bFinAcked |-> FALSE]

Idle == [at |-> "idle", count |-> 0, bits |-> NoBits]

Init ==
    /\ rxStream = vStreamBufferClear
    /\ ucArray = [i \in Index |-> Garbage]
    /\ window = [current |-> SeqOf(0), highest |-> SeqOf(0), fin |-> SeqOf(0)]
    /\ xRxSegments = {}
    /\ options = <<>>
    /\ state = "ESTABLISHED"
    /\ bits = NoBits
    /\ owner = Idle
    /\ got = <<>>

-----------------------------------------------------------------------------
(* The receive window.                                                       *)

\* xTCPWindowRxFind: the stored segment that begins at seq, if any.
xTCPWindowRxFind(segments, seq) == {s \in segments : s.seq = seq}

\* xTCPWindowRxConfirm: of the stored segments that begin inside the new one,
\* the one that begins first.
xTCPWindowRxConfirm(seq, len) ==
    LET inside == {s \in xRxSegments :
                     /\ xSequenceGreaterThanOrEqual(s.seq, seq)
                     /\ xSequenceLessThan(s.seq, Plus(seq, len))}
    IN  {s \in inside : \A t \in inside : ~ xSequenceLessThan(t.seq, s.seq)}

\* From seq on, step over the stored segments that follow one another: where
\* they end and which of the segments are left.
Following(seq, segments) ==
    LET walk[k \in 0 .. SegCount] ==
          IF k = 0 THEN [end |-> seq, left |-> segments]
          ELSE LET w == walk[k - 1]
                   found == xTCPWindowRxFind(w.left, w.end)
               IN  IF found = {} THEN w
                   ELSE LET s == CHOOSE s \in found : TRUE
                        IN  [end |-> Plus(w.end, s.len), left |-> w.left \ {s}]
    IN  walk[SegCount]

Refused == [offset |-> -1, current |-> window.current, stored |-> xRxSegments,
            more |-> 0, sack |-> <<>>]

\* lTCPWindowRxCheck: the offset at which the data is to be written (negative
\* when it is refused), the next number expected, the segments stored, how
\* many more bytes can be read (ulUserDataLength) and the SACK to send.
lTCPWindowRxCheck(seq, len, space) ==
    LET current == window.current
        confirmed == xTCPWindowRxConfirm(seq, len)
        start == IF confirmed = {} THEN Plus(seq, len)
                 ELSE LET s == CHOOSE s \in confirmed : TRUE
                      IN  Plus(s.seq, s.len)
        run == Following(start, xRxSegments \ confirmed)
        distance == Signed(Plus(seq, len), current)
        sack == <<seq, Following(Plus(seq, len), xRxSegments).end>>
        again == xTCPWindowRxFind(xRxSegments, seq) # {}
        room == Cardinality(xRxSegments) < SegCount
    IN  CASE seq = current /\ len > space -> Refused
          [] seq = current /\ len <= space ->
               [offset |-> 0, current |-> run.end, stored |-> run.left,
                more |-> Minus(run.end, Plus(seq, len)), sack |-> <<>>]
          [] current = Plus(seq, 1) -> Refused
          [] OTHER ->
               IF distance <= 0 \/ distance > space \/ (~ again /\ ~ room)
               THEN Refused
               ELSE IF again THEN [Refused EXCEPT !.sack = sack]
               ELSE [offset |-> Signed(seq, current), current |-> current,
                     stored |-> xRxSegments \cup {[seq |-> seq, len |-> len]},
                     more |-> 0, sack |-> sack]

\* Slips: a byte that has not come in and that nothing stored follows is
\* overlooked; one more than the highest number is waited for.
xTCPWindowRxNothingStored(w, stored) == stored = {}

xTCPWindowRxBeyond(w, stored) ==
    stored = {} /\ xSequenceGreaterThanOrEqual(w.current, Plus(w.highest, 1))

xTCPWindowRxEmpty(w, stored) ==
    stored = {} /\ xSequenceGreaterThanOrEqual(w.current, w.highest)

-----------------------------------------------------------------------------
(* The IP task and a packet.                                                 *)

\* A slip: the window is as wide as the stream, whatever it holds.
CheckedAgainstLength(p) ==
    IF p.len = 0 THEN Refused
    ELSE lTCPWindowRxCheck(SeqOf(p.at), p.len, LENGTH - 1)

\* What the window makes of a packet: without data there is nothing to check.
Checked(p) ==
    IF p.len = 0 THEN Refused
    ELSE lTCPWindowRxCheck(SeqOf(p.at), p.len, uxStreamBufferGetSpace(rxStream))

\* prvStoreRxData and lTCPAddRxdata: the data is written ahead of its turn or
\* at the head, and the head moves on over what was stored before.
prvStoreRxData(p, r) ==
    /\ IF r.offset < 0
       THEN UNCHANGED <<rxStream, ucArray>>
       ELSE /\ rxStream' = uxStreamBufferAdd(
                             uxStreamBufferAdd(rxStream, r.offset, p.len),
                             0, r.more)
            /\ ucArray' = WrittenTo(ucArray, rxStream, r.offset, p.len,
                                    [k \in 0 .. p.len - 1 |-> p.at + k])
    /\ xRxSegments' = r.stored
    /\ options' = r.sack

\* The low-water mark of lTCPAddRxdata: data at the head has left little space.
ReachesLowWater(r) ==
    r.offset = 0 /\ uxStreamBufferFrontSpace(rxStream') <= LittleSpace

\* prvTCPHandleFin: the window, the flags and the state it leaves.
HandleFin(p, acked, w, b) ==
    LET b1 == IF b.bFinSent
              THEN [b EXCEPT !.bFinAcked = b.bFinAcked \/ acked]
              ELSE [b EXCEPT !.bFinSent = TRUE]
    IN  /\ window' = IF p.fin THEN [w EXCEPT !.current = Plus(w.fin, 1)] ELSE w
        /\ bits' = b1
        /\ state' = IF ~ b1.bFinAcked THEN "LAST_ACK"
                    ELSE IF b1.bFinRecv THEN "CLOSE_WAIT"
                    ELSE state

\* prvTCPPrepareSend, as far as it concerns this half: once everything has
\* been sent, the FIN the owner asked for follows.
PrepareSend(b, txDone) ==
    IF state = "ESTABLISHED" /\ b.bUserShutdown /\ txDone
    THEN /\ bits' = [b EXCEPT !.bUserShutdown = FALSE, !.bFinSent = TRUE]
         /\ state' = "FIN_WAIT_1"
    ELSE /\ bits' = b
         /\ state' = state

\* prvHandleEstablished.  A packet that has a SACK to carry sends nothing else.
HandleEstablished(p, txDone, acked, w, b) ==
    LET asks == b.bFinAccepted \/ p.fin
        seqEnd == Plus(SeqOf(p.at), p.len)
        mayClose == /\ asks
                    /\ \/ b.bFinSent
                       \/ /\ xTCPWindowRxEmpty(w, xRxSegments')
                          /\ txDone
                          /\ Signed(seqEnd, w.current) <= 1
    IN  \/ /\ mayClose
           /\ HandleFin(p, acked, w, [b EXCEPT !.bFinAccepted = TRUE])
        \/ /\ ~ mayClose
           /\ window' = w
           /\ \/ /\ options' = <<>>
                 /\ PrepareSend(b, txDone)
              \/ /\ options' # <<>>
                 /\ bits' = b
                 /\ state' = state

Handled(p, txDone, acked, w, b) ==
    \/ /\ state = "ESTABLISHED"
       /\ HandleEstablished(p, txDone, acked, w, b)
    \/ /\ state \in {"LAST_ACK", "FIN_WAIT_1"}
       /\ HandleFin(p, acked, w, b)

\* prvTCPHandleState: a packet of the peer.  txDone: nothing the owner sent is
\* still waiting for its acknowledgement (xTCPWindowTxDone); acked: the packet
\* acknowledges our FIN.
Receive(p, txDone, acked) ==
    LET seqEnd == Plus(SeqOf(p.at), p.len)
        high == IF Signed(seqEnd, window.highest) > 0 THEN seqEnd
                ELSE window.highest
        fin == IF p.fin /\ ~ bits.bFinRecv THEN seqEnd ELSE window.fin
    IN  /\ state # "CLOSE_WAIT"         \* prvTCPSocketIsActive
        /\ acked => bits.bFinSent
        /\ \E r \in {Checked(p)} :
              /\ prvStoreRxData(p, r)
              /\ Handled(p, txDone, acked,
                         [current |-> r.current, highest |-> high, fin |-> fin],
                         [bits EXCEPT !.bFinRecv = bits.bFinRecv \/ p.fin,
                                      !.bLowWater = \/ bits.bLowWater
                                                    \/ ReachesLowWater(r)])
        /\ UNCHANGED <<owner, got>>

\* xTCPSocketCheck, woken by the owner's event: the FIN is sent when there is
\* nothing else to send.
SocketCheck ==
    /\ bits.bUserShutdown
    /\ PrepareSend(bits, TRUE)
    /\ UNCHANGED <<rxStream, ucArray, window, xRxSegments, options, owner, got>>

\* prvTCPStatusAgeCheck: nothing happened for ipconfigTCP_HANG_PROTECTION_TIME.
StatusAgeCheck ==
    /\ state \in {"FIN_WAIT_1", "LAST_ACK"}
    /\ state' = "CLOSE_WAIT"
    /\ UNCHANGED <<rxStream, ucArray, window, xRxSegments, options, bits, owner,
                   got>>

-----------------------------------------------------------------------------
(* The owner.                                                                *)

\* FreeRTOS_recv: uxStreamBufferGet copies the bytes ...
RecvCopy ==
    LET n == GetCount(rxStream, 0, BufferLength)
    IN  /\ owner.at = "idle"
        /\ uxStreamBufferGetSize(rxStream) > 0
        /\ got' = got \o BytesAt(ucArray, rxStream, 0, n)
        /\ owner' = [owner EXCEPT !.at = "take", !.count = n]
        /\ UNCHANGED <<rxStream, ucArray, window, xRxSegments, options, state,
                       bits>>

\* A slip: the tail moves over as many bytes as were asked for.
RecvTakeAsked ==
    /\ owner.at = "take"
    /\ rxStream' = TailMoved(rxStream, BufferLength)
    /\ owner' = [owner EXCEPT !.at = "check", !.count = 0]
    /\ UNCHANGED <<ucArray, window, xRxSegments, options, state, bits, got>>

\* ... and moves the tail.
RecvTake ==
    /\ owner.at = "take"
    /\ rxStream' = TailMoved(rxStream, owner.count)
    /\ owner' = [owner EXCEPT !.at = "check", !.count = 0]
    /\ UNCHANGED <<ucArray, window, xRxSegments, options, state, bits, got>>

\* Is there enough space again to clear the low-water mark?
RecvCheck ==
    /\ owner.at = "check"
    /\ IF bits.bLowWater /\ uxStreamBufferFrontSpace(rxStream) >= EnoughSpace
       THEN owner' = [owner EXCEPT !.at = "clear"]
       ELSE owner' = Idle
    /\ UNCHANGED <<rxStream, ucArray, window, xRxSegments, options, state, bits,
                   got>>

\* FreeRTOS_shutdown of a connected socket
Shutdown ==
    /\ owner.at = "idle"
    /\ state = "ESTABLISHED"
    /\ ~ bits.bUserShutdown
    /\ owner' = [owner EXCEPT !.at = "shut"]
    /\ UNCHANGED <<rxStream, ucArray, window, xRxSegments, options, state, bits,
                   got>>

\* A flag is a bit of a word: to change it the owner loads the word ...
LoadBits ==
    /\ owner.at \in {"clear", "shut"}
    /\ owner' = [owner EXCEPT !.at = IF owner.at = "clear" THEN "cleared"
                                     ELSE "shutting",
                              !.bits = bits]
    /\ UNCHANGED <<rxStream, ucArray, window, xRxSegments, options, state, bits,
                   got>>

\* ... and stores all of it, with the flag changed.
StoreBits ==
    /\ owner.at \in {"cleared", "shutting"}
    /\ bits' = IF owner.at = "cleared"
               THEN [owner.bits EXCEPT !.bLowWater = FALSE]
               ELSE [owner.bits EXCEPT !.bUserShutdown = TRUE]
    /\ owner' = Idle
    /\ UNCHANGED <<rxStream, ucArray, window, xRxSegments, options, state, got>>

IPTask ==
    \/ \E p \in Packets, txDone, acked \in BOOLEAN : Receive(p, txDone, acked)
    \/ SocketCheck
    \/ StatusAgeCheck

Owner == RecvCopy \/ RecvTake \/ RecvCheck \/ Shutdown \/ LoadBits \/ StoreBits

Next == IPTask \/ Owner

(* The peer repeats what has not been acknowledged and the network delivers  *)
(* one of the copies; what the owner sent is acknowledged in the end; the    *)
(* owner goes on reading.                                                    *)
Fairness ==
    /\ \A p \in Packets : WF_vars(Receive(p, TRUE, FALSE))
    /\ WF_vars(RecvCopy \/ RecvTake \/ RecvCheck \/ LoadBits \/ StoreBits)

Spec == Init /\ [][Next]_vars /\ Fairness
-----------------------------------------------------------------------------
(* Properties.                                                               *)

TypeOK ==
    /\ rxStream \in Markers
    /\ ucArray \in [Index -> 0 .. StreamLength]
    /\ window \in [current : Seqs, highest : Seqs, fin : Seqs]
    /\ xRxSegments \subseteq [seq : Seqs, len : 1 .. StreamLength]
    /\ Cardinality(xRxSegments) <= SegCount
    /\ options = <<>> \/ options \in Seqs \X Seqs
    /\ state \in States
    /\ bits \in Bits
    /\ owner \in [at : {"idle", "take", "check", "clear", "cleared", "shut",
                        "shutting"},
                  count : 0 .. BufferLength, bits : Bits]
    /\ got \in Seq(0 .. StreamLength)

\* Bytes the owner is done with, and bytes that have come in without a gap.
Taken == Len(got) - owner.count
Received == Taken + uxStreamBufferGetSize(rxStream)

\* Byte i of the peer's stream has been received, or lies where it will be
\* when the bytes before it have been.
Held(i) == \/ i < Received
           \/ /\ i - Received < uxStreamBufferGetSpace(rxStream)
              /\ ucArray[Wrap(rxStream.head + (i - Received))] = i

\* What the owner has read, and what it can read next, are the bytes of the
\* peer in the order in which the peer sent them, whatever the network did:
\* no byte is missing, doubled, or read before it is there.  So it is for
\* Packets of one segmentation; one that is cut differently when it is sent
\* again may cover stored segments, and FreeRTOS_TCP_WIN.c:828 then takes it to
\* end where the first of them ends.
StreamIntact ==
    /\ \A i \in 1 .. Len(got) : got[i] = i - 1
    /\ \A k \in 0 .. uxStreamBufferGetSize(rxStream) - 1 :
          ucArray[Wrap(rxStream.tail + k)] = Taken + k

\* What the stream promises, whatever is put into it (ByteStream).
Stream == INSTANCE ByteStream WITH pending <- owner.count,
                                   Byte <- 0 .. StreamLength

\* Everything the window and the owner do to the stream is a write at the head
\* or ahead of it, the head moving on within the free space, or the tail moving
\* over exactly the bytes that were copied: no step reaches unread bytes.
ImplementsByteStream == Stream!Spec

\* The number the IP task acknowledges, current, is the number of bytes that
\* came in without a gap: nothing is acknowledged that the owner cannot read.
\* (The FIN counts for one, and the owner's own FIN ends the promise.)
AcknowledgedIsHeld ==
    \/ window.current = SeqOf(Received)
    \/ /\ bits.bFinSent \/ state # "ESTABLISHED"
       /\ window.current = SeqOf(StreamLength + 1)

\* A segment out of order that has been stored lies ahead of current, its bytes
\* are in place in the array, and they stay there until their turn comes; and
\* a selective acknowledgement only names bytes that are held.
StoredInPlace ==
    /\ \A s \in xRxSegments :
          \A k \in 0 .. s.len - 1 : Held(Minus(s.seq, FirstSeq) + k)
    /\ options # <<>> =>
          \A i \in Minus(options[1], FirstSeq) ..
                   Minus(options[2], FirstSeq) - 1 : Held(i)
    /\ state = "ESTABLISHED" =>
          \A s \in xRxSegments : Signed(s.seq, window.current) > 0

\* The invariant of the receiving half: what is acknowledged, at once or
\* selectively, is held, and lies where it will be read.
ReceiveInv == TypeOK /\ AcknowledgedIsHeld /\ StoredInPlace

\* In the state ESTABLISHED the peer's FIN is accepted only when every byte
\* before it has come in, however early the FIN itself came.
FinAfterData == bits.bFinAccepted => Received = StreamLength

\* If the owner goes on reading it reads the whole stream, unless it ends the
\* connection itself, and the peer's FIN is accepted in the end: no segment out
\* of order, no lack of segments, no full buffer and no early FIN brings the
\* connection to a halt.
Completes ==
    /\ <>(Len(got) = StreamLength) \/ <>(state = "FIN_WAIT_1")
    /\ <>(state # "ESTABLISHED")

=============================================================================
