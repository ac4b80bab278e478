----------------------------- MODULE ByteStream -----------------------------
(* What a receive stream promises the two tasks that share it without a lock:*)
(* the IP task puts bytes in, in turn or ahead of it, while the owner is     *)
(* between copying bytes out and moving the tail past them.  Which bytes     *)
(* come, where and how many, is left open: any packet of any length.         *)
EXTENDS StreamBuffer

CONSTANT Byte

VARIABLES rxStream,     \* the markers
          ucArray,      \* the bytes
          pending       \* bytes the owner has copied and not yet taken

streamVars == <<rxStream, ucArray, pending>>

Init ==
    /\ rxStream = vStreamBufferClear
    /\ ucArray \in [Index -> Byte]
    /\ pending = 0

\* lTCPAddRxdata: n bytes at an offset from the head, and then the head moves
\* on by `more' bytes, as far as there is space.
Put(offset, n, more) ==
    /\ rxStream' = uxStreamBufferAdd(uxStreamBufferAdd(rxStream, offset, n),
                                     0, more)
    /\ ucArray' \in [Index -> Byte]
    /\ \A i \in Index :
          \/ ucArray'[i] = ucArray[i]
          \/ uxStreamBufferDistance(Wrap(rxStream.head + offset), i)
                 < AddCount(rxStream, offset, n)
    /\ UNCHANGED pending

\* uxStreamBufferGet, in two steps
Copy(n) ==
    /\ pending = 0
    /\ pending' = GetCount(rxStream, 0, n)
    /\ UNCHANGED <<rxStream, ucArray>>

Take ==
    /\ rxStream' = TailMoved(rxStream, pending)
    /\ pending' = 0
    /\ UNCHANGED ucArray

Next ==
    \/ \E offset, n, more \in 0 .. LENGTH : Put(offset, n, more)
    \/ \E n \in 0 .. LENGTH : Copy(n)
    \/ Take

Spec == Init /\ [][Next]_streamVars

-----------------------------------------------------------------------------
MarkersInOrder ==
    uxStreamBufferGetSize(rxStream) <=
        uxStreamBufferDistance(rxStream.tail, rxStream.front)

\* What the owner has copied is still there when it moves the tail.
PendingUnread == pending \in 0 .. uxStreamBufferGetSize(rxStream)

StreamInvariant ==
    /\ rxStream \in Markers
    /\ MarkersInOrder
    /\ PendingUnread

Unread(i) == uxStreamBufferDistance(rxStream.tail, i)
                 < uxStreamBufferGetSize(rxStream)

\* No step changes a byte that has not been read yet.
UnreadKept == \A i \in Index : Unread(i) => ucArray'[i] = ucArray[i]

UnreadIsKept == [][UnreadKept]_streamVars
=============================================================================
