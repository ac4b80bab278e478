---------------------------- MODULE StreamBuffer ----------------------------
(* The circular byte buffer between a socket's owner and the IP task         *)
(* (FreeRTOS_Stream_Buffer.h and .c).  Four markers go round an array of     *)
(* LENGTH bytes: tail is the next byte to read, head the next to write, mid  *)
(* is the transmitting half's, and front walks over the free space, where    *)
(* data that came out of order is written ahead of its turn.                 *)
(*                                                                           *)
(* The functions are given as operators on the markers m and on the bytes    *)
(* of the array, so that a module can apply several of them in one step.     *)
EXTENDS Naturals

CONSTANT LENGTH         \* bytes reserved; LENGTH - 1 of them can be used

ASSUME LengthAssumption == LENGTH \in Nat /\ LENGTH >= 2

Index == 0 .. LENGTH - 1
Markers == [tail : Index, mid : Index, head : Index, front : Index]

vStreamBufferClear == [tail |-> 0, mid |-> 0, head |-> 0, front |-> 0]

\* A marker that has gone past the end of the array comes round once.
Wrap(i) == IF i >= LENGTH THEN i - LENGTH ELSE i

uxStreamBufferSpace(lower, upper) == Wrap(LENGTH + upper - lower - 1)
uxStreamBufferDistance(lower, upper) == Wrap(LENGTH + upper - lower)

uxStreamBufferGetSpace(m) == uxStreamBufferSpace(m.head, m.tail)
uxStreamBufferFrontSpace(m) == uxStreamBufferSpace(m.front, m.tail)
uxStreamBufferGetSize(m) == uxStreamBufferDistance(m.tail, m.head)
uxStreamBufferMidSpace(m) == uxStreamBufferDistance(m.mid, m.head)

Least(a, b) == IF a <= b THEN a ELSE b

\* How much of a request fits in what there is beyond the offset.
Fits(avail, offset, n) ==
    Least(IF avail > offset THEN avail - offset ELSE 0, n)

\* left comes no later than right on the way from the tail.
xStreamBufferLessThenEqual(m, left, right) ==
    IF (left < m.tail) # (right < m.tail)
    THEN right < m.tail
    ELSE left <= right

-----------------------------------------------------------------------------
(* uxStreamBufferAdd: the number of bytes accepted, the markers afterwards   *)
(* and the array with bytes (a sequence) written where they go.  With an     *)
(* offset the head stays and the front is moved to where the write begins;   *)
(* without bytes the head is moved over data that is already there.          *)
AddCount(m, offset, n) == Fits(uxStreamBufferGetSpace(m), offset, n)

uxStreamBufferAdd(m, offset, n) ==
    LET count == AddCount(m, offset, n)
        at == Wrap(m.head + offset)
        next == IF offset = 0 THEN Wrap(at + count) ELSE at
        moved == IF offset = 0 THEN [m EXCEPT !.head = next] ELSE m
    IN  IF count = 0 THEN m
        ELSE IF xStreamBufferLessThenEqual(m, m.front, next)
             THEN [moved EXCEPT !.front = next]
             ELSE moved

\* A slip: data out of order goes where the last such data ended.
WrittenAtFront(array, m, offset, n, byte) ==
    [i \in Index |->
        LET k == uxStreamBufferDistance(m.front, i)
        IN  IF k < AddCount(m, offset, n) THEN byte[k] ELSE array[i]]

WrittenTo(array, m, offset, n, byte) ==
    LET at == Wrap(m.head + offset)
    IN  [i \in Index |->
            LET k == uxStreamBufferDistance(at, i)
            IN  IF k < AddCount(m, offset, n) THEN byte[k] ELSE array[i]]

-----------------------------------------------------------------------------
(* uxStreamBufferGet: the number of bytes obtained, the bytes, and the       *)
(* markers after a call that does not peek.                                  *)
\* A slip: what was written ahead of its turn is read as well.
GetCountToFront(m, offset, max) ==
    Fits(uxStreamBufferDistance(m.tail, m.front), offset, max)

GetCount(m, offset, max) == Fits(uxStreamBufferGetSize(m), offset, max)

BytesAt(array, m, offset, n) ==
    [k \in 1 .. n |-> array[Wrap(Wrap(m.tail + offset) + k - 1)]]

TailMoved(m, n) == [m EXCEPT !.tail = Wrap(m.tail + n)]

\* The bytes between mid and head are the ones not yet cut into segments.
vStreamBufferMoveMid(m, n) ==
    [m EXCEPT !.mid = Wrap(m.mid + Least(n, uxStreamBufferMidSpace(m)))]

=============================================================================
