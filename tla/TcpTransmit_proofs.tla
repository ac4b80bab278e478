-------------------------- MODULE TcpTransmit_proofs -------------------------
(* Proofs about the sending half of a connection, for every stream, every    *)
(* buffer, every pool of segments and every peer that acknowledges what it   *)
(* holds.                                                                    *)
EXTENDS TcpTransmit, FiniteSetTheorems, SequenceTheorems,
        WellFoundedInduction, TLAPS

-----------------------------------------------------------------------------
(* The invariant.                                                            *)

WindowType ==
    [segs : Seq(SegmentType), open : BOOLEAN, xTxQueue : Seq(Seqs),
     xPriorityQueue : Seq(Seqs), xWaitQueue : Seq(Seqs),
     current : Seqs, highest : Seqs, next : Seqs, limit : Nat]

\* The byte at which a segment begins, and the one that follows it.
At(s) == Minus(s.seq, FirstSeq)
Behind(s) == At(s) + s.len

\* The segments follow one another from byte to byte.
Chained(segs, from, to) ==
    /\ from \in 0 .. to /\ to \in 0 .. StreamLength
    /\ segs = <<>> => to = from
    /\ \A k \in 1 .. Len(segs) :
          /\ At(segs[k]) \in from .. to /\ segs[k].seq = SeqOf(At(segs[k]))
          /\ At(segs[k]) = IF k = 1 THEN from ELSE Behind(segs[k - 1])
          /\ k = Len(segs) => Behind(segs[k]) = to

\* Their bytes lie where they say, byte base being at the tail, and the peer
\* has those it acknowledged.
Placed(segs, tail, base) ==
    \A k \in 1 .. Len(segs) : segs[k].pos = Wrap(tail + (At(segs[k]) - base))

AckedAreHeld(segs, has) ==
    \A k \in 1 .. Len(segs) :
       segs[k].acked => \A i \in At(segs[k]) .. Behind(segs[k]) - 1 : i \in has

\* The segments of w that have been sent, and the byte that follows them.
SentCount(w) == Len(w.segs) - Len(w.xTxQueue)
SentUpTo(w, mid) ==
    IF w.xTxQueue = <<>> THEN mid ELSE At(w.segs[SentCount(w) + 1])

Once(queue) == \A j, k \in 1 .. Len(queue) : queue[j] = queue[k] => j = k
Members(queue) == {queue[k] : k \in 1 .. Len(queue)}
Waiting(w) == Members(w.xPriorityQueue) \cup Members(w.xWaitQueue)

\* The last segments have not been sent and stand in the transmit queue in
\* their order; each of the others that is not acknowledged waits for that,
\* or to be sent at once.
Queues(w) ==
    /\ Len(w.xTxQueue) <= Len(w.segs)
    /\ \A k \in 1 .. Len(w.xTxQueue) :
          /\ w.xTxQueue[k] = w.segs[SentCount(w) + k].seq
          /\ ~ w.segs[SentCount(w) + k].acked
    /\ Once(w.xPriorityQueue) /\ Once(w.xWaitQueue)
    /\ Members(w.xPriorityQueue) \cap Members(w.xWaitQueue) = {}
    /\ Waiting(w) = {w.segs[k].seq : k \in {k \in 1 .. SentCount(w) :
                                               ~ w.segs[k].acked}}
    /\ w.open => /\ w.xTxQueue # <<>>
                 /\ w.segs[Len(w.segs)].len < MSS

\* A window whose left side stands at byte left and whose segments end at mid.
Good(w, left, mid, tail, base, has) ==
    /\ w \in WindowType
    /\ Len(w.segs) <= SegCount
    /\ w.current = SeqOf(left) /\ w.next = SeqOf(mid)
    /\ Chained(w.segs, left, mid)
    /\ Placed(w.segs, tail, base)
    /\ AckedAreHeld(w.segs, has)
    /\ Queues(w)

\* The bytes that have been cut into segments.
Mid == released + uxStreamBufferDistance(txStream.tail, txStream.mid)

StreamInv ==
    /\ uxStreamBufferDistance(txStream.tail, txStream.mid)
           <= uxStreamBufferGetSize(txStream)
    /\ written = released + uxStreamBufferGetSize(txStream)
    /\ \A k \in 0 .. uxStreamBufferGetSize(txStream) - 1 :
          ucArray[Wrap(txStream.tail + k)] = released + k

\* Between its two steps the owner has put its bytes behind the head.
OwnerInv ==
    owner.at = "move" =>
       /\ owner.count <= uxStreamBufferGetSpace(txStream)
       /\ written + owner.count <= StreamLength
       /\ ~ shutdown /\ state # "FIN_WAIT_1"
       /\ \A k \in 0 .. owner.count - 1 :
             ucArray[Wrap(txStream.head + k)] = written + k

\* A packet carries bytes that follow one another and end before upto.
Carries(p, upto) ==
    \/ p = Question
    \/ \E a \in 0 .. StreamLength, n \in 0 .. MSS :
          /\ a + n <= upto
          /\ p = [seq |-> SeqOf(a), data |-> [k \in 1 .. n |-> a + k - 1]]

NetworkInv ==
    /\ \A p \in wire : Carries(p, SentUpTo(window, Mid))
    /\ \A i \in held : i < SentUpTo(window, Mid)
    /\ \A i \in 0 .. released - 1 : i \in held

BurstInv ==
    /\ burst = [left |-> burst.left, old |-> burst.old, timer |-> burst.timer]
    /\ burst.old \in 0 .. Len(window.xWaitQueue)
    /\ Sending => /\ state = "ESTABLISHED"
                  /\ Borrowers < SegCount /\ window.segs = <<>>
                        => Mid = written

IInv ==
    /\ TypeOK
    /\ StreamInv
    /\ OwnerInv
    /\ Good(window, released, Mid, txStream.tail, released, held)
    /\ NetworkInv
    /\ BurstInv
-----------------------------------------------------------------------------
(* Sequence numbers: while the stream and the buffer are less than half of   *)
(* the numbers, what is computed with them is what holds of the bytes.       *)

LEMMA Sizes ==
    /\ SeqSpace \in Nat /\ FirstSeq \in 0 .. SeqSpace - 1
    /\ StreamLength \in Nat /\ LENGTH \in Nat /\ LENGTH >= 2
    /\ 2 * (StreamLength + 2) < SeqSpace
  BY SeqSpaceAssumption, LengthAssumption, TransmitAssumption, SMT DEF Seqs

LEMMA PoolSizes ==
    /\ MSS \in Nat /\ MSS > 0 /\ SegCount \in Nat /\ SegCount > 0
    /\ Borrowers \in 0 .. SegCount
  BY TransmitAssumption, SMT

LEMMA Modulo ==
    ASSUME NEW n \in Nat, n > 0, NEW x \in Int
    PROVE  /\ x % n \in 0 .. n - 1
           /\ x >= 0 /\ x < n => x % n = x
           /\ x >= n /\ x < 2 * n => x % n = x - n
           /\ x < 0 /\ x >= 0 - n => x % n = x + n
  BY SMT

LEMMA SeqOfIs ==
    ASSUME NEW i \in 0 .. StreamLength + 1
    PROVE  /\ SeqOf(i) \in Seqs
           /\ SeqOf(i) = IF FirstSeq + i < SeqSpace THEN FirstSeq + i
                         ELSE FirstSeq + i - SeqSpace
  <1>1. /\ FirstSeq + i \in Int /\ FirstSeq + i >= 0
        /\ FirstSeq + i < 2 * SeqSpace /\ SeqSpace > 0
    BY Sizes, SMT
  <1> QED  BY <1>1, Sizes, Modulo, SMT DEF SeqOf, Plus, Seqs

LEMMA SameNumber ==
    ASSUME NEW i \in 0 .. StreamLength + 1, NEW j \in 0 .. StreamLength + 1
    PROVE  SeqOf(i) = SeqOf(j) <=> i = j
  BY Sizes, SeqOfIs, SMT

LEMMA PlusIs ==
    ASSUME NEW i \in 0 .. StreamLength + 1, NEW n \in Nat,
           i + n <= StreamLength + 1
    PROVE  Plus(SeqOf(i), n) = SeqOf(i + n)
  <1>1. i + n \in 0 .. StreamLength + 1
    BY Sizes, SMT
  <1>2. /\ SeqOf(i) + n \in Int /\ SeqOf(i) + n >= 0 /\ SeqSpace > 0
        /\ SeqOf(i) + n < 2 * SeqSpace
    BY Sizes, SeqOfIs, SMT DEF Seqs
  <1>3. Plus(SeqOf(i), n) = IF SeqOf(i) + n < SeqSpace THEN SeqOf(i) + n
                            ELSE SeqOf(i) + n - SeqSpace
    BY <1>2, Sizes, SeqOfIs, Modulo, SMT DEF Plus, Seqs
  <1> QED  BY <1>1, <1>3, Sizes, SeqOfIs, SMT

LEMMA MinusIs ==
    ASSUME NEW i \in 0 .. StreamLength + 1, NEW j \in 0 .. StreamLength + 1
    PROVE  Minus(SeqOf(i), SeqOf(j)) = IF i >= j THEN i - j
                                       ELSE i - j + SeqSpace
  <1>1. /\ SeqOf(i) - SeqOf(j) \in Int /\ SeqOf(i) - SeqOf(j) >= 0 - SeqSpace
        /\ SeqOf(i) - SeqOf(j) < SeqSpace /\ SeqSpace > 0
    BY Sizes, SeqOfIs, SMT DEF Seqs
  <1>2. Minus(SeqOf(i), SeqOf(j)) = IF SeqOf(i) >= SeqOf(j)
                                    THEN SeqOf(i) - SeqOf(j)
                                    ELSE SeqOf(i) - SeqOf(j) + SeqSpace
    BY <1>1, Sizes, SeqOfIs, Modulo, SMT DEF Minus, Seqs
  <1> QED  BY <1>2, Sizes, SeqOfIs, SMT

LEMMA SignedIs ==
    ASSUME NEW i \in 0 .. StreamLength + 1, NEW j \in 0 .. StreamLength + 1
    PROVE  Signed(SeqOf(i), SeqOf(j)) = i - j
  BY Sizes, MinusIs, SMT DEF Signed

LEMMA FirstByte ==
    ASSUME NEW i \in 0 .. StreamLength + 1
    PROVE  Minus(SeqOf(i), FirstSeq) = i
  <1>1. 0 \in 0 .. StreamLength + 1 /\ SeqOf(0) = FirstSeq
    BY Sizes, SeqOfIs, SMT
  <1> QED  BY <1>1, MinusIs, Sizes, SMT

\* The comparisons of two numbers are those of the bytes.
LEMMA Compared ==
    ASSUME NEW i \in 0 .. StreamLength, NEW j \in 0 .. StreamLength
    PROVE  /\ xSequenceLessThan(SeqOf(i), SeqOf(j)) <=> i < j
           /\ xSequenceGreaterThan(SeqOf(i), SeqOf(j)) <=> i > j
           /\ xSequenceLessThanOrEqual(SeqOf(i), SeqOf(j)) <=> i <= j
  <1>1. /\ i + 1 \in 0 .. StreamLength + 1 /\ i \in 0 .. StreamLength + 1
        /\ j + 1 \in 0 .. StreamLength + 1 /\ j \in 0 .. StreamLength + 1
    BY Sizes, SMT
  <1>2. Plus(SeqOf(i), 1) = SeqOf(i + 1) /\ Plus(SeqOf(j), 1) = SeqOf(j + 1)
    BY <1>1, PlusIs, Sizes, SMT
  <1>3. Minus(SeqOf(j), SeqOf(i + 1)) = IF j >= i + 1 THEN j - (i + 1)
                                        ELSE j - (i + 1) + SeqSpace
    BY <1>1, MinusIs
  <1>4. Minus(SeqOf(i), SeqOf(j + 1)) = IF i >= j + 1 THEN i - (j + 1)
                                        ELSE i - (j + 1) + SeqSpace
    BY <1>1, MinusIs
  <1>5. Minus(SeqOf(j), SeqOf(i)) = IF j >= i THEN j - i ELSE j - i + SeqSpace
    BY <1>1, MinusIs
  <1> QED  BY <1>2, <1>3, <1>4, <1>5, Sizes, SMT
           DEF xSequenceLessThan, xSequenceGreaterThan, xSequenceLessThanOrEqual

LEMMA PlusInSeqs ==
    ASSUME NEW a \in Seqs, NEW n \in Nat
    PROVE  Plus(a, n) \in Seqs
  <1>1. a + n \in Int /\ SeqSpace > 0
    BY Sizes, SMT DEF Seqs
  <1> QED  BY <1>1, Sizes, Modulo DEF Plus, Seqs

-----------------------------------------------------------------------------
(* What is left of a queue.                                                  *)

\* A set of numbers has a least one.
LEMMA LeastNumber ==
    ASSUME NEW T \in SUBSET Nat, T # {}
    PROVE  \E n \in T : \A k \in T : n <= k
  <1>1. IsWellFoundedOn(OpToRel(<, Nat), Nat)
    BY NatLessThanWellFounded
  <1>2. PICK n \in T : \A k \in T : ~ (<<k, n>> \in OpToRel(<, Nat))
    BY <1>1, WFMin
  <1>3. \A k \in T : <<k, n>> \in OpToRel(<, Nat) <=> k < n
    BY DEF OpToRel
  <1>4. \A k \in T : ~ (k < n) /\ k \in Nat /\ n \in Nat
    BY <1>2, <1>3
  <1> QED  BY <1>4, SMT

\* f[k] is what is kept of the first k elements.
Keeps(f, list, keep, n) ==
    \A k \in 0 .. n : f[k] = IF k = 0 THEN <<>>
                             ELSE IF k \in keep THEN Append(f[k - 1], list[k])
                             ELSE f[k - 1]

LEMMA KeepsExists ==
    ASSUME NEW S, NEW list \in Seq(S), NEW keep, NEW n \in 0 .. Len(list)
    PROVE  \E f \in [0 .. n -> Seq(S)] : Keeps(f, list, keep, n)
  <1> USE DEF Keeps
  <1> DEFINE Parts(m) == {f \in [0 .. m -> Seq(S)] : Keeps(f, list, keep, m)}
             T == {m \in 0 .. n : Parts(m) = {}}
  <1>1. SUFFICES ASSUME T # {} PROVE FALSE
    <2>1. Len(list) \in Nat
      OBVIOUS
    <2>2. n \in 0 .. n
      BY <2>1, SMT
    <2> QED  BY <2>2
  <1>2. T \in SUBSET Nat /\ n \in Nat
    <2>1. Len(list) \in Nat
      OBVIOUS
    <2> QED  BY <2>1, SMT
  <1>3. PICK m \in T : \A k \in T : m <= k
    BY <1>1, <1>2, LeastNumber
  <1>4. m \in 0 .. n /\ m \in Nat /\ Parts(m) = {}
    BY <1>2
  <1>5. CASE m = 0
    <2>1. [k \in 0 .. 0 |-> <<>>] \in Parts(0)
      <3>1. [k \in 0 .. 0 |-> <<>>] \in [0 .. 0 -> Seq(S)]
        OBVIOUS
      <3>2. \A k \in 0 .. 0 : k = 0
        BY SMT
      <3> QED  BY <3>1, <3>2
    <2> QED  BY <1>4, <1>5, <2>1
  <1>6. CASE m # 0
    <2>1. m - 1 \in 0 .. n /\ ~ (m <= m - 1)
      BY <1>2, <1>4, <1>6, SMT
    <2>2. Parts(m - 1) # {}
      BY <1>3, <2>1
    <2>3. PICK g : g \in Parts(m - 1)
      BY <2>2
    <2> DEFINE last == IF m \in keep THEN Append(g[m - 1], list[m]) ELSE g[m - 1]
               f == [k \in 0 .. m |-> IF k = m THEN last ELSE g[k]]
    <2>4. /\ \A k \in 0 .. m - 1 : k \in 0 .. m /\ k # m /\ g[k] \in Seq(S)
          /\ m - 1 \in 0 .. m - 1
      BY <1>4, <1>6, <2>3, SMT
    <2>5. last \in Seq(S)
      <3>1. m \in 1 .. Len(list)
        BY <1>2, <1>4, <1>6, SMT
      <3>2. list[m] \in S
        BY <3>1, ElementOfSeq
      <3>3. g[m - 1] \in Seq(S)
        BY <2>4
      <3> QED  BY <3>2, <3>3
    <2>6. f \in [0 .. m -> Seq(S)]
      <3>1. \A k \in 0 .. m : k # m => k \in 0 .. m - 1
        BY <1>4, SMT
      <3> HIDE DEF last
      <3> QED  BY <2>4, <2>5, <3>1
    <2>7. ASSUME NEW k \in 0 .. m
          PROVE  f[k] = IF k = 0 THEN <<>>
                        ELSE IF k \in keep THEN Append(f[k - 1], list[k])
                        ELSE f[k - 1]
      <3>1. CASE k = m
        BY <1>6, <2>4, <3>1
      <3>2. CASE k # m
        <4>1. /\ k \in 0 .. m - 1
              /\ k # 0 => k - 1 \in 0 .. m /\ k - 1 # m
          BY <1>4, <3>2, SMT
        <4>2. g[k] = IF k = 0 THEN <<>>
                     ELSE IF k \in keep THEN Append(g[k - 1], list[k])
                     ELSE g[k - 1]
          BY <2>3, <4>1
        <4>3. k # 0 => f[k - 1] = g[k - 1]
          BY <4>1
        <4> QED  BY <3>2, <4>2, <4>3
      <3> QED  BY <3>1, <3>2
    <2>8. f \in Parts(m)
      BY <2>6, <2>7
    <2> QED  BY <1>4, <2>8
  <1> QED  BY <1>5, <1>6

LEMMA KeptFunction ==
    ASSUME NEW S, NEW list \in Seq(S), NEW keep
    PROVE  \E f \in [0 .. Len(list) -> Seq(S)] :
              /\ Kept(list, keep) = f[Len(list)]
              /\ Keeps(f, list, keep, Len(list))
  <1> DEFINE n == Len(list)
             IsKept(f) == f = [k \in 0 .. n |->
                                 IF k = 0 THEN <<>>
                                 ELSE IF k \in keep THEN Append(f[k - 1], list[k])
                                 ELSE f[k - 1]]
             kept == CHOOSE f : IsKept(f)
  <1>1. n \in Nat /\ n \in 0 .. n /\ 0 \in 0 .. n
    <2>1. n \in Nat
      OBVIOUS
    <2> QED  BY <2>1, SMT
  <1>2. Kept(list, keep) = kept[n]
    BY DEF Kept
  <1> HIDE DEF n
  <1>3. PICK f \in [0 .. n -> Seq(S)] : Keeps(f, list, keep, n)
    BY <1>1, KeepsExists DEF n
  <1>4. IsKept(f)
    <2>1. f = [k \in 0 .. n |-> f[k]]
      OBVIOUS
    <2> QED  BY <1>3, <2>1, Zenon DEF Keeps
  <1>5. IsKept(kept)
    BY <1>4
  <1> HIDE DEF kept
  <1> DEFINE T == {k \in 0 .. n : kept[k] # f[k]}
  <1>6. T = {}
    <2> SUFFICES ASSUME T # {} PROVE FALSE
      OBVIOUS
    <2>1. T \in SUBSET Nat
      BY <1>1, SMT
    <2>2. PICK m \in T : \A k \in T : m <= k
      BY <2>1, LeastNumber
    <2>3. m \in 0 .. n /\ kept[m] # f[m]
      OBVIOUS
    <2>4. m # 0 => m - 1 \in 0 .. n /\ ~ (m <= m - 1)
      BY <1>1, <2>3, SMT
    <2>5. m # 0 => kept[m - 1] = f[m - 1]
      BY <2>2, <2>4
    <2>6. kept[m] = IF m = 0 THEN <<>>
                    ELSE IF m \in keep THEN Append(kept[m - 1], list[m])
                    ELSE kept[m - 1]
      BY <1>5, <2>3
    <2>7. f[m] = IF m = 0 THEN <<>>
                 ELSE IF m \in keep THEN Append(f[m - 1], list[m])
                 ELSE f[m - 1]
      BY <1>3, <2>3 DEF Keeps
    <2> QED  BY <2>3, <2>5, <2>6, <2>7
  <1>7. kept[n] = f[n]
    BY <1>1, <1>6
  <1> QED  BY <1>2, <1>3, <1>7 DEF n

\* The kept elements are the ones at the places in keep, none twice that was
\* not twice before.
KeptOf(kept, list, keep, k) ==
    /\ \A i \in 1 .. Len(kept) : \E j \in 1 .. k : j \in keep /\ kept[i] = list[j]
    /\ \A j \in 1 .. k : j \in keep => \E i \in 1 .. Len(kept) : kept[i] = list[j]
    /\ Once(list) => Once(kept)

LEMMA KeptGrows ==
    ASSUME NEW S, NEW list \in Seq(S), NEW keep, NEW k \in 1 .. Len(list),
           NEW s \in Seq(S), KeptOf(s, list, keep, k - 1)
    PROVE  KeptOf(IF k \in keep THEN Append(s, list[k]) ELSE s, list, keep, k)
  <1>1. k \in Nat /\ k >= 1 /\ Len(list) \in Nat /\ list[k] \in S /\ Len(s) \in Nat
        /\ k <= Len(list)
    BY ElementOfSeq
  <1>2. \A j \in 1 .. k : j = k \/ j \in 1 .. k - 1
    BY <1>1, SMT
  <1>3. \A j \in 1 .. k - 1 : j \in 1 .. k /\ j # k /\ j \in 1 .. Len(list)
    BY <1>1, SMT
  <1>4. CASE k \notin keep
    BY <1>2, <1>3, <1>4 DEF KeptOf
  <1>5. CASE k \in keep
    <2> DEFINE t == Append(s, list[k])
    <2>1. /\ Len(t) = Len(s) + 1
          /\ \A i \in 1 .. Len(s) : t[i] = s[i]
          /\ t[Len(s) + 1] = list[k]
      BY <1>1
    <2> HIDE DEF t
    <2>2. \A i \in 1 .. Len(t) : i = Len(s) + 1 \/ i \in 1 .. Len(s)
      BY <1>1, <2>1, SMT
    <2>3. /\ \A i \in 1 .. Len(s) : i \in 1 .. Len(t)
          /\ Len(s) + 1 \in 1 .. Len(t)
      BY <1>1, <2>1, SMT
    <2>4. ASSUME NEW i \in 1 .. Len(t)
          PROVE  \E j \in 1 .. k : j \in keep /\ t[i] = list[j]
      <3>1. CASE i = Len(s) + 1
        <4>1. k \in 1 .. k
          BY <1>1, SMT
        <4> QED  BY <1>5, <2>1, <3>1, <4>1
      <3>2. CASE i # Len(s) + 1
        <4>1. i \in 1 .. Len(s) /\ t[i] = s[i]
          BY <2>1, <2>2, <3>2
        <4>2. PICK j \in 1 .. k - 1 : j \in keep /\ s[i] = list[j]
          BY <4>1 DEF KeptOf
        <4> QED  BY <1>3, <4>1, <4>2
      <3> QED  BY <3>1, <3>2
    <2>5. \A j \in 1 .. k : j \in keep => \E i \in 1 .. Len(t) : t[i] = list[j]
      BY <1>2, <2>1, <2>3 DEF KeptOf
    <2>6. Once(list) => Once(t)
      <3> SUFFICES ASSUME Once(list), NEW i \in 1 .. Len(t), NEW j \in 1 .. Len(t),
                          t[i] = t[j]
                   PROVE  i = j
        BY DEF Once
      <3>1. \A x \in 1 .. Len(s) : s[x] # list[k]
        BY <1>3 DEF KeptOf, Once
      <3> QED  BY <2>1, <2>2, <3>1 DEF KeptOf, Once
    <2> QED  BY <1>5, <2>4, <2>5, <2>6 DEF KeptOf, t
  <1> QED  BY <1>4, <1>5

LEMMA KeptIs ==
    ASSUME NEW S, NEW list \in Seq(S), NEW keep
    PROVE  /\ Kept(list, keep) \in Seq(S)
           /\ KeptOf(Kept(list, keep), list, keep, Len(list))
  <1> DEFINE n == Len(list)
  <1>1. n \in Nat /\ n \in 0 .. n
    <2>1. n \in Nat
      OBVIOUS
    <2> QED  BY <2>1, SMT
  <1>2. PICK f \in [0 .. n -> Seq(S)] :
           Kept(list, keep) = f[n] /\ Keeps(f, list, keep, n)
    BY KeptFunction
  <1> DEFINE T == {k \in 0 .. n : ~ KeptOf(f[k], list, keep, k)}
  <1> HIDE DEF n
  <1>3. T = {}
    <2> SUFFICES ASSUME T # {} PROVE FALSE
      OBVIOUS
    <2>1. T \in SUBSET Nat
      BY <1>1, SMT
    <2>2. PICK m \in T : \A k \in T : m <= k
      BY <2>1, LeastNumber
    <2>3. m \in 0 .. n /\ ~ KeptOf(f[m], list, keep, m)
      OBVIOUS
    <2>4. CASE m = 0
      <3>1. f[m] = <<>>
        BY <1>2, <2>3, <2>4 DEF Keeps
      <3>2. KeptOf(<<>>, list, keep, 0)
        <4>1. Len(<<>>) = 0 /\ \A i \in 1 .. 0 : FALSE
          BY SMT
        <4> QED  BY <4>1 DEF KeptOf, Once
      <3> QED  BY <2>3, <2>4, <3>1, <3>2
    <2>5. CASE m # 0
      <3>1. m - 1 \in 0 .. n /\ ~ (m <= m - 1) /\ m \in 1 .. n
        BY <1>1, <2>3, <2>5, SMT
      <3>2. KeptOf(f[m - 1], list, keep, m - 1) /\ f[m - 1] \in Seq(S)
        BY <2>2, <3>1
      <3>3. f[m] = IF m \in keep THEN Append(f[m - 1], list[m]) ELSE f[m - 1]
        BY <1>2, <2>3, <2>5 DEF Keeps
      <3> QED  BY <2>3, <3>1, <3>2, <3>3, KeptGrows DEF n
    <2> QED  BY <2>4, <2>5
  <1>4. KeptOf(f[n], list, keep, n)
    BY <1>1, <1>3
  <1> QED  BY <1>1, <1>2, <1>4 DEF n

\* What is kept when only the first m elements go.
LEMMA KeptRest ==
    ASSUME NEW S, NEW list \in Seq(S), NEW keep, NEW m \in 0 .. Len(list),
           \A j \in 1 .. Len(list) : j \in keep <=> j > m
    PROVE  /\ Kept(list, keep) \in Seq(S)
           /\ Len(Kept(list, keep)) = Len(list) - m
           /\ \A i \in 1 .. Len(list) - m : Kept(list, keep)[i] = list[m + i]
  <1> DEFINE n == Len(list)
             Rest(s, k) == IF k <= m THEN s = <<>>
                           ELSE /\ Len(s) = k - m
                                /\ \A i \in 1 .. k - m : s[i] = list[m + i]
  <1>1. n \in Nat /\ m \in Nat /\ n \in 0 .. n /\ m <= n
    <2>1. n \in Nat
      OBVIOUS
    <2> QED  BY <2>1, SMT
  <1>2. PICK f \in [0 .. n -> Seq(S)] :
           Kept(list, keep) = f[n] /\ Keeps(f, list, keep, n)
    BY KeptFunction
  <1> DEFINE T == {k \in 0 .. n : ~ Rest(f[k], k)}
  <1>3. T = {}
    <2> HIDE DEF n
    <2> SUFFICES ASSUME T # {} PROVE FALSE
      OBVIOUS
    <2>1. T \in SUBSET Nat
      BY <1>1, SMT
    <2>2. PICK j \in T : \A k \in T : j <= k
      BY <2>1, LeastNumber
    <2>3. j \in 0 .. n /\ ~ Rest(f[j], j)
      OBVIOUS
    <2>4. CASE j = 0
      <3>1. f[j] = <<>>
        BY <1>2, <2>3, <2>4 DEF Keeps
      <3> QED  BY <1>1, <2>3, <2>4, <3>1, SMT
    <2>5. CASE j # 0
      <3>1. j - 1 \in 0 .. n /\ ~ (j <= j - 1) /\ j \in 1 .. n /\ j \in Nat
        BY <1>1, <2>3, <2>5, SMT
      <3>2. Rest(f[j - 1], j - 1) /\ f[j - 1] \in Seq(S)
        BY <2>2, <3>1
      <3>3. f[j] = IF j \in keep THEN Append(f[j - 1], list[j]) ELSE f[j - 1]
        BY <1>2, <2>3, <2>5 DEF Keeps
      <3>4. list[j] \in S
        BY <3>1, ElementOfSeq DEF n
      <3>5. CASE j <= m
        <4>1. j \notin keep
          BY <1>1, <3>1, <3>5, SMT DEF n
        <4>2. j - 1 <= m
          BY <1>1, <3>1, <3>5, SMT
        <4> QED  BY <2>3, <3>2, <3>3, <3>5, <4>1, <4>2
      <3>6. CASE j > m
        <4>1. j \in keep
          BY <1>1, <3>1, <3>6, SMT DEF n
        <4> DEFINE s == f[j - 1]
                   t == Append(s, list[j])
        <4>2. /\ Len(s) = j - 1 - m
              /\ \A i \in 1 .. j - 1 - m : s[i] = list[m + i]
          <5>1. CASE j - 1 <= m
            <6>1. s = <<>> /\ j - 1 - m = 0
              BY <1>1, <3>1, <3>2, <3>6, <5>1, SMT
            <6>2. Len(s) = 0
              BY <6>1
            <6> QED  BY <6>1, <6>2, SMT
          <5>2. CASE ~ (j - 1 <= m)
            BY <3>2, <5>2
          <5> QED  BY <5>1, <5>2
        <4>3. /\ Len(t) = Len(s) + 1
              /\ \A i \in 1 .. Len(s) : t[i] = s[i]
              /\ t[Len(s) + 1] = list[j]
          BY <3>2, <3>4
        <4>4. f[j] = t
          BY <3>3, <4>1
        <4> HIDE DEF t, s
        <4>5. Len(t) = j - m
          BY <1>1, <3>1, <4>2, <4>3, SMT
        <4>6. ASSUME NEW i \in 1 .. j - m PROVE t[i] = list[m + i]
          <5>1. CASE i = j - m
            <6>1. i = Len(s) + 1 /\ m + i = j
              BY <1>1, <3>1, <4>2, <5>1, SMT
            <6> QED  BY <4>3, <6>1
          <5>2. CASE i # j - m
            <6>1. Len(s) = j - 1 - m /\ i \in Int /\ i >= 1 /\ i <= j - m
              BY <1>1, <3>1, <4>2, SMT
            <6>2. i <= j - 1 - m
              BY <1>1, <3>1, <5>2, <6>1, SMT
            <6>3. i \in 1 .. j - 1 - m /\ i \in 1 .. Len(s)
              BY <1>1, <3>1, <6>1, <6>2, SMT
            <6> QED  BY <4>2, <4>3, <6>3
          <5> QED  BY <5>1, <5>2
        <4>7. Rest(f[j], j)
          <5>1. ~ (j <= m)
            BY <1>1, <3>1, <3>6, SMT
          <5> QED  BY <4>4, <4>5, <4>6, <5>1
        <4> QED  BY <2>3, <4>7
      <3> QED  BY <1>1, <3>1, <3>5, <3>6, SMT
    <2> QED  BY <2>4, <2>5
  <1>4. Rest(f[n], n) /\ f[n] \in Seq(S)
    <2> HIDE DEF n, Rest
    <2> QED  BY <1>1, <1>3
  <1>5. CASE n <= m
    <2>1. n - m = 0
      BY <1>1, <1>5, SMT
    <2>2. Len(f[n]) = 0
      BY <1>4, <1>5
    <2>3. \A i \in 1 .. 0 : FALSE
      BY SMT
    <2> QED  BY <1>2, <1>4, <2>1, <2>2, <2>3
  <1>6. CASE ~ (n <= m)
    BY <1>2, <1>4, <1>6
  <1> QED  BY <1>5, <1>6

-----------------------------------------------------------------------------
(* Segments that follow one another.                                         *)

LEMMA SegmentIs ==
    ASSUME NEW segs \in Seq(SegmentType), NEW k \in 1 .. Len(segs)
    PROVE  /\ segs[k] \in SegmentType /\ segs[k].seq \in Seqs
           /\ segs[k].len \in Nat /\ segs[k].len >= 1 /\ segs[k].len <= MSS
           /\ segs[k].pos \in Index /\ segs[k].acked \in BOOLEAN
           /\ Len(segs) \in Nat
  <1>1. segs[k] \in SegmentType
    BY ElementOfSeq
  <1>2. segs[k].len \in 1 .. MSS
    BY <1>1 DEF SegmentType
  <1>3. segs[k].len \in Nat /\ segs[k].len >= 1 /\ segs[k].len <= MSS
    BY <1>2, PoolSizes, SMT
  <1> QED  BY <1>1, <1>3 DEF SegmentType

LEMMA ChainIs ==
    ASSUME NEW segs \in Seq(SegmentType), NEW from, NEW to,
           Chained(segs, from, to), NEW k \in 1 .. Len(segs)
    PROVE  /\ from \in Nat /\ to \in Nat /\ from <= to /\ to <= StreamLength
           /\ At(segs[k]) \in Nat /\ At(segs[k]) \in 0 .. StreamLength
           /\ segs[k].seq = SeqOf(At(segs[k]))
           /\ from <= At(segs[k])
           /\ Behind(segs[k]) = At(segs[k]) + segs[k].len
           /\ Behind(segs[k]) \in Nat /\ Behind(segs[k]) \in 0 .. StreamLength
           /\ At(segs[k]) < Behind(segs[k]) /\ Behind(segs[k]) <= to
  <1>1. from \in Nat /\ to \in Nat /\ from <= to /\ to <= StreamLength
    BY Sizes, SMT DEF Chained
  <1>2. /\ At(segs[k]) \in from .. to /\ segs[k].seq = SeqOf(At(segs[k]))
        /\ k = Len(segs) => Behind(segs[k]) = to
    BY DEF Chained
  <1>3. segs[k].len \in Nat /\ segs[k].len >= 1
    BY SegmentIs
  <1>4. Behind(segs[k]) = At(segs[k]) + segs[k].len
    BY DEF Behind
  <1>5. Behind(segs[k]) <= to
    <2>1. CASE k = Len(segs)
      BY <1>1, <1>2, <2>1, SMT
    <2>2. CASE k # Len(segs)
      <3>1. k + 1 \in 1 .. Len(segs) /\ k + 1 # 1 /\ (k + 1) - 1 = k
        BY <2>2, SegmentIs, SMT
      <3>2. At(segs[k + 1]) \in from .. to /\ At(segs[k + 1]) = Behind(segs[k])
        BY <3>1 DEF Chained
      <3> QED  BY <1>1, <3>2, SMT
    <2> QED  BY <2>1, <2>2
  <1> QED  BY <1>1, <1>2, <1>3, <1>4, <1>5, Sizes, SMT

\* A later segment begins behind an earlier one.
LEMMA ChainOrder ==
    ASSUME NEW segs \in Seq(SegmentType), NEW from, NEW to,
           Chained(segs, from, to),
           NEW j \in 1 .. Len(segs), NEW k \in 1 .. Len(segs), j < k
    PROVE  Behind(segs[j]) <= At(segs[k])
  <1> DEFINE T == {i \in 1 .. Len(segs) : j < i /\ ~ (Behind(segs[j]) <= At(segs[i]))}
  <1>1. SUFFICES ASSUME T # {} PROVE FALSE
    OBVIOUS
  <1>2. T \in SUBSET Nat
    BY SegmentIs, SMT
  <1>3. PICK i \in T : \A x \in T : i <= x
    BY <1>1, <1>2, LeastNumber
  <1>4. /\ i \in 1 .. Len(segs) /\ i \in Nat /\ j < i
        /\ ~ (Behind(segs[j]) <= At(segs[i]))
    BY <1>2
  <1>5. i # 1 /\ i - 1 \in 1 .. Len(segs) /\ ~ (i <= i - 1) /\ (i - 1 = j \/ j < i - 1)
    BY <1>4, SegmentIs, SMT
  <1>6. At(segs[i]) = Behind(segs[i - 1])
    BY <1>4, <1>5 DEF Chained
  <1>7. Behind(segs[i - 1]) \in Nat /\ At(segs[i - 1]) \in Nat
        /\ Behind(segs[j]) \in Nat
        /\ At(segs[i - 1]) < Behind(segs[i - 1])
    BY <1>5, ChainIs
  <1>8. CASE i - 1 = j
    BY <1>4, <1>6, <1>7, <1>8, SMT
  <1>9. CASE j < i - 1
    <2>1. Behind(segs[j]) <= At(segs[i - 1])
      BY <1>3, <1>5, <1>9
    <2> QED  BY <1>4, <1>6, <1>7, <2>1, SMT
  <1> QED  BY <1>5, <1>8, <1>9

LEMMA ChainApart ==
    ASSUME NEW segs \in Seq(SegmentType), NEW from, NEW to,
           Chained(segs, from, to),
           NEW j \in 1 .. Len(segs), NEW k \in 1 .. Len(segs)
    PROVE  /\ segs[j].seq = segs[k].seq => j = k
           /\ At(segs[j]) = At(segs[k]) => j = k
           /\ j < k <=> At(segs[j]) < At(segs[k])
           /\ j <= k <=> At(segs[j]) <= At(segs[k])
  <1>1. j \in Nat /\ k \in Nat
    BY SegmentIs, SMT
  <1>2. /\ At(segs[j]) \in Nat /\ At(segs[k]) \in Nat
        /\ Behind(segs[j]) \in Nat /\ Behind(segs[k]) \in Nat
        /\ At(segs[j]) < Behind(segs[j]) /\ At(segs[k]) < Behind(segs[k])
    BY ChainIs
  <1>3. /\ j < k => Behind(segs[j]) <= At(segs[k])
        /\ k < j => Behind(segs[k]) <= At(segs[j])
    BY ChainOrder
  <1>4. segs[j].seq = segs[k].seq => At(segs[j]) = At(segs[k])
    BY DEF At
  <1> QED  BY <1>1, <1>2, <1>3, <1>4, SMT

\* Every byte before the end of the m-th segment lies in one of the first m.
LEMMA ChainCovers ==
    ASSUME NEW segs \in Seq(SegmentType), NEW from, NEW to,
           Chained(segs, from, to), NEW m \in 1 .. Len(segs),
           NEW x \in from .. Behind(segs[m]) - 1
    PROVE  \E k \in 1 .. m : x \in At(segs[k]) .. Behind(segs[k]) - 1
  <1> DEFINE T == {i \in 1 .. m : x < Behind(segs[i])}
  <1>1. /\ m \in Nat /\ m >= 1 /\ from \in Nat /\ x \in Int /\ from <= x
        /\ m <= Len(segs) /\ Len(segs) \in Nat
        /\ Behind(segs[m]) \in Nat
    <2>1. Behind(segs[m]) \in Nat /\ from \in Nat
      BY ChainIs
    <2> QED  BY <2>1, SegmentIs, SMT
  <1>2. T \in SUBSET Nat /\ m \in T
    BY <1>1, SMT
  <1>3. PICK i \in T : \A k \in T : i <= k
    BY <1>2, LeastNumber
  <1>4. i \in 1 .. m /\ i \in Nat /\ x < Behind(segs[i]) /\ i \in 1 .. Len(segs)
    BY <1>1, SMT
  <1>5. Behind(segs[i]) \in Nat /\ At(segs[i]) \in Nat
    BY <1>4, ChainIs
  <1>6. At(segs[i]) <= x
    <2>1. CASE i = 1
      <3>1. At(segs[i]) = from
        BY <1>4, <2>1 DEF Chained
      <3> QED  BY <1>1, <3>1
    <2>2. CASE i # 1
      <3>1. i - 1 \in 1 .. m /\ ~ (i <= i - 1) /\ i - 1 \in 1 .. Len(segs)
        BY <1>1, <1>4, <2>2, SMT
      <3>2. ~ (x < Behind(segs[i - 1])) /\ Behind(segs[i - 1]) \in Nat
        BY <1>3, <3>1, ChainIs
      <3>3. At(segs[i]) = Behind(segs[i - 1])
        BY <1>4, <2>2 DEF Chained
      <3> QED  BY <1>1, <3>2, <3>3, SMT
    <2> QED  BY <2>1, <2>2
  <1>7. x \in At(segs[i]) .. Behind(segs[i]) - 1
    BY <1>1, <1>4, <1>5, <1>6, SMT
  <1> QED  BY <1>4, <1>7

\* Without the first m segments the others still follow one another.
LEMMA ChainRest ==
    ASSUME NEW segs \in Seq(SegmentType), NEW from, NEW to,
           Chained(segs, from, to), NEW m \in 1 .. Len(segs),
           NEW rest \in Seq(SegmentType), Len(rest) = Len(segs) - m,
           \A i \in 1 .. Len(segs) - m : rest[i] = segs[m + i]
    PROVE  Chained(rest, Behind(segs[m]), to)
  <1>1. /\ m \in Nat /\ m >= 1 /\ m <= Len(segs) /\ Len(segs) \in Nat
        /\ Behind(segs[m]) \in 0 .. to /\ to \in 0 .. StreamLength
    <2>1. /\ Behind(segs[m]) \in Nat /\ to \in Nat /\ Behind(segs[m]) <= to
          /\ to <= StreamLength
      BY ChainIs
    <2> QED  BY <2>1, Sizes, SegmentIs, SMT
  <1>2. rest = <<>> => to = Behind(segs[m])
    <2> SUFFICES ASSUME rest = <<>> PROVE to = Behind(segs[m])
      OBVIOUS
    <2>1. Len(rest) = 0
      OBVIOUS
    <2>2. m = Len(segs)
      BY <1>1, <2>1, SMT
    <2> QED  BY <2>2 DEF Chained
  <1>3. ASSUME NEW k \in 1 .. Len(rest)
        PROVE  /\ At(rest[k]) \in Behind(segs[m]) .. to
               /\ rest[k].seq = SeqOf(At(rest[k]))
               /\ At(rest[k]) = IF k = 1 THEN Behind(segs[m])
                                ELSE Behind(rest[k - 1])
               /\ k = Len(rest) => Behind(rest[k]) = to
    <2>1. /\ k \in 1 .. Len(segs) - m /\ m + k \in 1 .. Len(segs) /\ m < m + k
          /\ m + k # 1 /\ (m + k) - 1 = m + (k - 1)
          /\ k = 1 => m + (k - 1) = m
          /\ k # 1 => k - 1 \in 1 .. Len(segs) - m
          /\ k = Len(rest) => m + k = Len(segs)
      BY <1>1, SMT
    <2>2. rest[k] = segs[m + k]
      BY <2>1
    <2>3. At(segs[m + k]) = Behind(segs[m + (k - 1)])
      BY <2>1 DEF Chained
    <2>4. Behind(segs[m]) <= At(segs[m + k])
      BY <2>1, ChainOrder
    <2>5. /\ At(segs[m + k]) \in from .. to
          /\ segs[m + k].seq = SeqOf(At(segs[m + k]))
          /\ m + k = Len(segs) => Behind(segs[m + k]) = to
      BY <2>1 DEF Chained
    <2>6. At(rest[k]) \in Behind(segs[m]) .. to
      BY <1>1, <2>2, <2>4, <2>5, SMT
    <2>7. k # 1 => rest[k - 1] = segs[m + (k - 1)]
      BY <2>1
    <2> QED  BY <2>1, <2>2, <2>3, <2>5, <2>6, <2>7
  <1> QED  BY <1>1, <1>2, <1>3 DEF Chained

-----------------------------------------------------------------------------
(* What is in a queue, and whether it is there once.                         *)

LEMMA WithoutIs ==
    ASSUME NEW S, NEW q \in Seq(S), NEW seqs
    PROVE  /\ Without(q, seqs) \in Seq(S)
           /\ Members(Without(q, seqs)) = Members(q) \ seqs
           /\ Once(q) => Once(Without(q, seqs))
  <1> DEFINE keep == {k \in DOMAIN q : q[k] \notin seqs}
             r == Kept(q, keep)
  <1>1. DOMAIN q = 1 .. Len(q)
    OBVIOUS
  <1>2. r \in Seq(S) /\ KeptOf(r, q, keep, Len(q))
    BY KeptIs
  <1>3. Without(q, seqs) = r
    BY DEF Without
  <1> HIDE DEF r
  <1>4. Members(r) = Members(q) \ seqs
    <2>1. ASSUME NEW x \in Members(r) PROVE x \in Members(q) \ seqs
      <3>1. PICK i \in 1 .. Len(r) : x = r[i]
        BY DEF Members
      <3>2. PICK j \in 1 .. Len(q) : j \in keep /\ r[i] = q[j]
        BY <1>2 DEF KeptOf
      <3> QED  BY <3>1, <3>2 DEF Members
    <2>2. ASSUME NEW x \in Members(q) \ seqs PROVE x \in Members(r)
      <3>1. PICK j \in 1 .. Len(q) : x = q[j]
        BY DEF Members
      <3>2. j \in keep
        BY <1>1, <3>1
      <3>3. PICK i \in 1 .. Len(r) : r[i] = q[j]
        BY <1>2, <3>2 DEF KeptOf
      <3> QED  BY <3>1, <3>3 DEF Members
    <2> QED  BY <2>1, <2>2
  <1> QED  BY <1>2, <1>3, <1>4 DEF KeptOf

LEMMA WithinIs ==
    ASSUME NEW S, NEW q \in Seq(S), NEW seqs
    PROVE  /\ Within(q, seqs) \in Seq(S)
           /\ Members(Within(q, seqs)) = Members(q) \cap seqs
           /\ Once(q) => Once(Within(q, seqs))
  <1> DEFINE keep == {k \in DOMAIN q : q[k] \in seqs}
             r == Kept(q, keep)
  <1>1. DOMAIN q = 1 .. Len(q)
    OBVIOUS
  <1>2. r \in Seq(S) /\ KeptOf(r, q, keep, Len(q))
    BY KeptIs
  <1>3. Within(q, seqs) = r
    BY DEF Within
  <1> HIDE DEF r
  <1>4. Members(r) = Members(q) \cap seqs
    <2>1. ASSUME NEW x \in Members(r) PROVE x \in Members(q) \cap seqs
      <3>1. PICK i \in 1 .. Len(r) : x = r[i]
        BY DEF Members
      <3>2. PICK j \in 1 .. Len(q) : j \in keep /\ r[i] = q[j]
        BY <1>2 DEF KeptOf
      <3> QED  BY <3>1, <3>2 DEF Members
    <2>2. ASSUME NEW x \in Members(q) \cap seqs PROVE x \in Members(r)
      <3>1. PICK j \in 1 .. Len(q) : x = q[j]
        BY DEF Members
      <3>2. j \in keep
        BY <1>1, <3>1
      <3>3. PICK i \in 1 .. Len(r) : r[i] = q[j]
        BY <1>2, <3>2 DEF KeptOf
      <3> QED  BY <3>1, <3>3 DEF Members
    <2> QED  BY <2>1, <2>2
  <1> QED  BY <1>2, <1>3, <1>4 DEF KeptOf

LEMMA WithoutNone ==
    ASSUME NEW S, NEW q \in Seq(S), NEW seqs, Members(q) \cap seqs = {}
    PROVE  Without(q, seqs) = q
  <1> DEFINE keep == {k \in DOMAIN q : q[k] \notin seqs}
             r == Kept(q, keep)
  <1>1. Len(q) \in Nat /\ DOMAIN q = 1 .. Len(q)
    OBVIOUS
  <1>2. ASSUME NEW j \in 1 .. Len(q) PROVE j \in keep <=> j > 0
    <2>1. q[j] \in Members(q) /\ j > 0
      <3>1. j > 0
        BY <1>1, SMT
      <3> QED  BY <3>1 DEF Members
    <2> QED  BY <1>1, <2>1
  <1>3. 0 \in 0 .. Len(q) /\ Len(q) - 0 = Len(q)
        /\ \A i \in 1 .. Len(q) : 0 + i = i
    BY <1>1, SMT
  <1> HIDE DEF keep
  <1>4. /\ r \in Seq(S) /\ Len(r) = Len(q)
        /\ \A i \in 1 .. Len(q) : r[i] = q[i]
    BY <1>2, <1>3, KeptRest
  <1>5. r = q
    <2> HIDE DEF r
    <2> QED  BY <1>4, SeqEqual
  <1> QED  BY <1>5 DEF Without, keep

LEMMA HeadAndTail ==
    ASSUME NEW S, NEW q \in Seq(S), q # <<>>
    PROVE  /\ Head(q) \in Members(q) /\ Head(q) \in S /\ Head(q) = q[1]
           /\ Tail(q) \in Seq(S) /\ Len(Tail(q)) = Len(q) - 1
           /\ \A i \in 1 .. Len(Tail(q)) : Tail(q)[i] = q[i + 1]
           /\ Members(q) = {Head(q)} \cup Members(Tail(q))
           /\ Once(q) => Once(Tail(q)) /\ Head(q) \notin Members(Tail(q))
  <1> DEFINE t == Tail(q)
  <1>1. /\ Head(q) \in S /\ t \in Seq(S) /\ Len(t) = Len(q) - 1
        /\ \A i \in 1 .. Len(t) : t[i] = q[i + 1]
    BY HeadTailProperties
  <1>2. Head(q) = q[1] /\ Len(q) \in Nat /\ Len(q) # 0
    BY EmptySeq
  <1>3. /\ 1 \in 1 .. Len(q)
        /\ \A i \in 1 .. Len(t) : i + 1 \in 1 .. Len(q) /\ i + 1 # 1
        /\ \A i, j \in 1 .. Len(t) : i + 1 = j + 1 => i = j
        /\ \A i \in 1 .. Len(q) : i # 1 => i - 1 \in 1 .. Len(t) /\ (i - 1) + 1 = i
    BY <1>1, <1>2, SMT
  <1> HIDE DEF t
  <1>4. Members(q) = {q[1]} \cup Members(t)
    <2>1. ASSUME NEW i \in 1 .. Len(q) PROVE q[i] \in {q[1]} \cup Members(t)
      <3>1. CASE i # 1
        <4>1. i - 1 \in 1 .. Len(t) /\ q[i] = t[i - 1]
          BY <1>1, <1>3, <3>1
        <4> QED  BY <4>1 DEF Members
      <3> QED  BY <3>1
    <2>2. ASSUME NEW i \in 1 .. Len(t) PROVE t[i] \in Members(q)
      BY <1>1, <1>3 DEF Members
    <2>3. q[1] \in Members(q)
      BY <1>3 DEF Members
    <2> QED  BY <2>1, <2>2, <2>3 DEF Members
  <1>5. Once(q) => Once(t) /\ q[1] \notin Members(t)
    <2> SUFFICES ASSUME Once(q) PROVE Once(t) /\ q[1] \notin Members(t)
      OBVIOUS
    <2>1. ASSUME NEW i \in 1 .. Len(t), NEW j \in 1 .. Len(t), t[i] = t[j]
          PROVE  i = j
      BY <1>1, <1>3, <2>1 DEF Once
    <2>2. ASSUME NEW i \in 1 .. Len(t), q[1] = t[i] PROVE FALSE
      BY <1>1, <1>3, <2>2 DEF Once
    <2> QED  BY <2>1, <2>2 DEF Once, Members
  <1> QED  BY <1>1, <1>2, <1>4, <1>5 DEF t

LEMMA ConcatIs ==
    ASSUME NEW S, NEW q \in Seq(S), NEW r \in Seq(S)
    PROVE  /\ q \o r \in Seq(S)
           /\ Members(q \o r) = Members(q) \cup Members(r)
           /\ Once(q) /\ Once(r) /\ Members(q) \cap Members(r) = {}
                => Once(q \o r)
  <1> DEFINE c == q \o r
  <1>1. /\ c \in Seq(S) /\ Len(c) = Len(q) + Len(r)
        /\ \A i \in 1 .. Len(q) + Len(r) :
              c[i] = IF i <= Len(q) THEN q[i] ELSE r[i - Len(q)]
        /\ Len(q) \in Nat /\ Len(r) \in Nat
    BY ConcatProperties
  <1> HIDE DEF c
  <1>2. /\ \A i \in 1 .. Len(q) : i \in 1 .. Len(c) /\ i <= Len(q)
                                  /\ i \in 1 .. Len(q) + Len(r)
        /\ \A i \in 1 .. Len(r) : /\ Len(q) + i \in 1 .. Len(q) + Len(r)
                                  /\ Len(q) + i \in 1 .. Len(c)
                                  /\ ~ (Len(q) + i <= Len(q))
                                  /\ (Len(q) + i) - Len(q) = i
        /\ \A i \in 1 .. Len(c) : i <= Len(q) => i \in 1 .. Len(q)
        /\ \A i \in 1 .. Len(c) : ~ (i <= Len(q)) => i - Len(q) \in 1 .. Len(r)
        /\ \A i, j \in 1 .. Len(c) : i - Len(q) = j - Len(q) => i = j
    BY <1>1, SMT
  <1>3. Members(c) = Members(q) \cup Members(r)
    <2>1. ASSUME NEW i \in 1 .. Len(c) PROVE c[i] \in Members(q) \cup Members(r)
      BY <1>1, <1>2 DEF Members
    <2>2. ASSUME NEW i \in 1 .. Len(q) PROVE q[i] \in Members(c)
      <3>1. c[i] = q[i]
        BY <1>1, <1>2
      <3> QED  BY <1>2, <3>1 DEF Members
    <2>3. ASSUME NEW i \in 1 .. Len(r) PROVE r[i] \in Members(c)
      <3>1. c[Len(q) + i] = r[i]
        BY <1>1, <1>2
      <3> QED  BY <1>2, <3>1 DEF Members
    <2> QED  BY <2>1, <2>2, <2>3 DEF Members
  <1>4. ASSUME Once(q), Once(r), Members(q) \cap Members(r) = {}
        PROVE  Once(c)
    <2> SUFFICES ASSUME NEW i \in 1 .. Len(c), NEW j \in 1 .. Len(c), c[i] = c[j]
                 PROVE  i = j
      BY DEF Once
    <2>1. /\ c[i] = IF i <= Len(q) THEN q[i] ELSE r[i - Len(q)]
          /\ c[j] = IF j <= Len(q) THEN q[j] ELSE r[j - Len(q)]
      BY <1>1
    <2>2. CASE i <= Len(q) /\ j <= Len(q)
      BY <1>2, <1>4, <2>1, <2>2 DEF Once
    <2>3. CASE ~ (i <= Len(q)) /\ ~ (j <= Len(q))
      <3>1. i - Len(q) \in 1 .. Len(r) /\ j - Len(q) \in 1 .. Len(r)
        BY <1>2, <2>3
      <3>2. i - Len(q) = j - Len(q)
        <4>1. r[i - Len(q)] = r[j - Len(q)]
          BY <2>1, <2>3
        <4> QED  BY <1>4, <3>1, <4>1, Zenon DEF Once
      <3> QED  BY <1>2, <3>2
    <2>4. CASE (i <= Len(q)) # (j <= Len(q))
      <3>1. /\ i <= Len(q) => q[i] \in Members(q)
            /\ ~ (i <= Len(q)) => r[i - Len(q)] \in Members(r)
            /\ j <= Len(q) => q[j] \in Members(q)
            /\ ~ (j <= Len(q)) => r[j - Len(q)] \in Members(r)
        BY <1>2 DEF Members
      <3>2. CASE i <= Len(q) /\ ~ (j <= Len(q))
        BY <1>4, <2>1, <3>1, <3>2
      <3>3. CASE ~ (i <= Len(q)) /\ j <= Len(q)
        BY <1>4, <2>1, <3>1, <3>3
      <3> QED  BY <2>4, <3>2, <3>3
    <2> QED  BY <2>2, <2>3, <2>4
  <1> QED  BY <1>1, <1>3, <1>4 DEF c

LEMMA AppendIs ==
    ASSUME NEW S, NEW q \in Seq(S), NEW x \in S
    PROVE  /\ Append(q, x) \in Seq(S)
           /\ Len(Append(q, x)) = Len(q) + 1
           /\ Members(Append(q, x)) = Members(q) \cup {x}
           /\ Once(q) /\ x \notin Members(q) => Once(Append(q, x))
  <1>1. <<x>> \in Seq(S) /\ Len(<<x>>) = 1 /\ <<x>>[1] = x
    OBVIOUS
  <1>2. \A i \in 1 .. 1 : i = 1
    BY SMT
  <1>3. Members(<<x>>) = {x} /\ Once(<<x>>)
    <2>1. 1 \in 1 .. 1
      BY SMT
    <2> QED  BY <1>1, <1>2, <2>1, Zenon DEF Members, Once
  <1>4. Append(q, x) = q \o <<x>>
    BY AppendIsConcat, Zenon
  <1>5. Len(Append(q, x)) = Len(q) + 1
    BY AppendProperties
  <1>6. x \notin Members(q) => Members(q) \cap {x} = {}
    OBVIOUS
  <1> DEFINE r == <<x>>
  <1>7. r \in Seq(S) /\ Members(r) = {x} /\ Once(r)
    BY <1>1, <1>3
  <1>8. Append(q, x) = q \o r
    BY <1>4
  <1> HIDE DEF r
  <1>9. /\ q \o r \in Seq(S)
        /\ Members(q \o r) = Members(q) \cup Members(r)
        /\ Once(q) /\ Once(r) /\ Members(q) \cap Members(r) = {}
             => Once(q \o r)
    BY <1>7, ConcatIs
  <1> QED  BY <1>5, <1>6, <1>7, <1>8, <1>9

-----------------------------------------------------------------------------
(* Acknowledgements.                                                         *)

LEMMA WindowIs ==
    ASSUME NEW w \in WindowType
    PROVE  /\ w.segs \in Seq(SegmentType) /\ w.open \in BOOLEAN
           /\ w.xTxQueue \in Seq(Seqs) /\ w.xPriorityQueue \in Seq(Seqs)
           /\ w.xWaitQueue \in Seq(Seqs)
           /\ w.current \in Seqs /\ w.highest \in Seqs /\ w.next \in Seqs
           /\ w.limit \in Nat
           /\ Len(w.segs) \in Nat /\ Len(w.xTxQueue) \in Nat
           /\ Len(w.xWaitQueue) \in Nat
           /\ DOMAIN w.segs = 1 .. Len(w.segs)
  BY DEF WindowType

\* Which segments end within the acknowledged bytes, which end at last.
Takes(s, last) == At(s) < last /\ (s.acked \/ Behind(s) <= last)

TakenBetween(segs, a, b) ==
    {k \in 1 .. Len(segs) :
       \E i \in 1 .. k : /\ At(segs[i]) = a
                         /\ \A j \in i .. k : Takes(segs[j], b)}

LEMMA TakenIs ==
    ASSUME NEW w \in WindowType, NEW from, NEW to, Chained(w.segs, from, to),
           NEW a \in 0 .. StreamLength, NEW b \in 0 .. StreamLength
    PROVE  Taken(w, SeqOf(a), SeqOf(b)) = TakenBetween(w.segs, a, b)
  <1> DEFINE segs == w.segs
             T(s) == /\ xSequenceLessThan(s.seq, SeqOf(b))
                     /\ s.acked
                        \/ ~ xSequenceGreaterThan(Plus(s.seq, s.len), SeqOf(b))
  <1>1. segs \in Seq(SegmentType) /\ DOMAIN segs = 1 .. Len(segs)
        /\ Len(segs) \in Nat
    BY WindowIs
  <1>2. ASSUME NEW k \in 1 .. Len(segs)
        PROVE  (T(segs[k]) <=> Takes(segs[k], b))
               /\ (segs[k].seq = SeqOf(a) <=> At(segs[k]) = a)
    <2>1. /\ At(segs[k]) \in 0 .. StreamLength
          /\ Behind(segs[k]) \in 0 .. StreamLength
          /\ segs[k].seq = SeqOf(At(segs[k]))
          /\ Behind(segs[k]) = At(segs[k]) + segs[k].len
          /\ segs[k].len \in Nat
      BY <1>1, ChainIs, SegmentIs
    <2>2. Plus(segs[k].seq, segs[k].len) = SeqOf(Behind(segs[k]))
      <3>1. /\ At(segs[k]) \in 0 .. StreamLength + 1
            /\ At(segs[k]) + segs[k].len <= StreamLength + 1
        BY <2>1, Sizes, SMT
      <3> QED  BY <2>1, <3>1, PlusIs
    <2>3. xSequenceLessThan(segs[k].seq, SeqOf(b)) <=> At(segs[k]) < b
      BY <2>1, Compared
    <2>4. xSequenceGreaterThan(Plus(segs[k].seq, segs[k].len), SeqOf(b))
            <=> Behind(segs[k]) > b
      BY <2>1, <2>2, Compared
    <2>5. Behind(segs[k]) > b <=> ~ (Behind(segs[k]) <= b)
      BY <2>1, SMT
    <2>6. segs[k].seq = SeqOf(a) <=> At(segs[k]) = a
      <3>1. At(segs[k]) \in 0 .. StreamLength + 1 /\ a \in 0 .. StreamLength + 1
        BY <2>1, Sizes, SMT
      <3> QED  BY <2>1, <3>1, SameNumber
    <2> QED  BY <2>3, <2>4, <2>5, <2>6 DEF Takes
  <1>3. \A k \in 1 .. Len(segs) : \A i \in 1 .. k : \A j \in i .. k :
           j \in 1 .. Len(segs) /\ i \in 1 .. Len(segs)
    BY <1>1, SMT
  <1>4. \A k \in 1 .. Len(segs) : \A i \in 1 .. k : i \in 1 .. Len(segs)
    BY <1>1, SMT
  <1>5. Taken(w, SeqOf(a), SeqOf(b)) =
          {k \in 1 .. Len(segs) :
             \E i \in 1 .. k : /\ segs[i].seq = SeqOf(a)
                               /\ \A j \in i .. k : T(segs[j])}
    BY <1>1 DEF Taken
  <1> HIDE DEF T, segs
  <1>6. \A k \in 1 .. Len(segs) : \A i \in 1 .. k :
           (segs[i].seq = SeqOf(a) /\ \A j \in i .. k : T(segs[j]))
             <=> (At(segs[i]) = a /\ \A j \in i .. k : Takes(segs[j], b))
    BY <1>2, <1>3, <1>4
  <1>7. {k \in 1 .. Len(segs) :
           \E i \in 1 .. k : /\ segs[i].seq = SeqOf(a)
                             /\ \A j \in i .. k : T(segs[j])}
        = {k \in 1 .. Len(segs) :
             \E i \in 1 .. k : /\ At(segs[i]) = a
                               /\ \A j \in i .. k : Takes(segs[j], b)}
    BY <1>6
  <1> QED  BY <1>5, <1>7 DEF segs, TakenBetween

\* What an acknowledgement takes the peer has.
LEMMA TakenAreHeld ==
    ASSUME NEW w \in WindowType, NEW from, NEW to, Chained(w.segs, from, to),
           NEW has, AckedAreHeld(w.segs, has),
           NEW a \in 0 .. StreamLength, NEW b \in 0 .. StreamLength,
           \A i \in a .. b - 1 : i \in has,
           NEW k \in Taken(w, SeqOf(a), SeqOf(b))
    PROVE  /\ k \in 1 .. Len(w.segs) /\ At(w.segs[k]) < b
           /\ \A i \in At(w.segs[k]) .. Behind(w.segs[k]) - 1 : i \in has
  <1> DEFINE segs == w.segs
  <1>1. segs \in Seq(SegmentType) /\ Len(segs) \in Nat
    BY WindowIs
  <1>2. k \in 1 .. Len(segs) /\ \E i \in 1 .. k : /\ At(segs[i]) = a
                                  /\ \A j \in i .. k : Takes(segs[j], b)
    <2>1. k \in TakenBetween(w.segs, a, b)
      BY TakenIs
    <2> QED  BY <2>1 DEF TakenBetween
  <1>3. PICK i \in 1 .. k : At(segs[i]) = a /\ \A j \in i .. k : Takes(segs[j], b)
    BY <1>2
  <1>4. i \in 1 .. Len(segs) /\ i <= k /\ k \in i .. k
    BY <1>1, <1>2, SMT
  <1>5. Takes(segs[k], b)
    BY <1>3, <1>4
  <1>6. a <= At(segs[k]) /\ At(segs[k]) \in Nat /\ Behind(segs[k]) \in Nat
    BY <1>1, <1>2, <1>3, <1>4, ChainApart, ChainIs
  <1>7. ASSUME NEW x \in At(segs[k]) .. Behind(segs[k]) - 1 PROVE x \in has
    <2>1. CASE segs[k].acked
      BY <1>2, <2>1 DEF AckedAreHeld
    <2>2. CASE ~ segs[k].acked
      <3>1. Behind(segs[k]) <= b
        BY <1>5, <2>2 DEF Takes
      <3>2. x \in a .. b - 1
        BY <1>6, <3>1, SMT
      <3> QED  BY <3>2
    <2> QED  BY <2>1, <2>2
  <1> QED  BY <1>2, <1>5, <1>7 DEF Takes

\* An acknowledgement from the left side on takes segments at the left side.
LEMMA TakenAtLeft ==
    ASSUME NEW w \in WindowType, NEW from, NEW to, Chained(w.segs, from, to),
           from \in 0 .. StreamLength, NEW b \in 0 .. StreamLength
    PROVE  \E m \in 0 .. Len(w.segs) :
              Taken(w, SeqOf(from), SeqOf(b)) = 1 .. m
  <1> DEFINE n == Len(w.segs)
             taken == Taken(w, SeqOf(from), SeqOf(b))
             T == {k \in 1 .. n + 1 : k \notin taken}
  <1>1. w.segs \in Seq(SegmentType) /\ n \in Nat
    BY WindowIs
  <1>2. taken = {k \in 1 .. n : \E i \in 1 .. k :
                    /\ At(w.segs[i]) = from
                    /\ \A j \in i .. k : Takes(w.segs[j], b)}
    <2>1. taken = TakenBetween(w.segs, from, b)
      BY TakenIs
    <2> QED  BY <2>1 DEF TakenBetween
  <1>3. ASSUME NEW k \in taken, NEW j \in 1 .. k PROVE j \in taken
    <2>1. PICK i \in 1 .. k : At(w.segs[i]) = from
                              /\ \A x \in i .. k : Takes(w.segs[x], b)
      BY <1>2
    <2>2. k \in 1 .. n
      BY <1>2
    <2>3. 1 \in 1 .. n /\ i \in 1 .. n
      BY <1>1, <2>2, SMT
    <2>4. At(w.segs[1]) = from
      BY <2>3 DEF Chained
    <2>5. i = 1
      BY <1>1, <2>1, <2>3, <2>4, ChainApart
    <2>6. 1 \in 1 .. j /\ j \in 1 .. n /\ \A x \in 1 .. j : x \in 1 .. k
      BY <1>1, <2>2, SMT
    <2>7. \A x \in 1 .. j : Takes(w.segs[x], b)
      BY <2>1, <2>5, <2>6
    <2> QED  BY <1>2, <2>4, <2>6, <2>7
  <1>4. \A k \in taken : k \in 1 .. n
    BY <1>2
  <1> HIDE DEF taken, n
  <1>5. n + 1 \in T /\ T \in SUBSET Nat
    BY <1>1, <1>4, SMT
  <1>6. PICK q \in T : \A k \in T : q <= k
    BY <1>5, LeastNumber
  <1>7. q \in 1 .. n + 1 /\ q \notin taken
    OBVIOUS
  <1> DEFINE m == q - 1
  <1>8. m \in 0 .. n
    BY <1>1, <1>7, SMT
  <1>9. ASSUME NEW k \in 1 .. m PROVE k \in taken
    <2>1. k \in 1 .. n + 1 /\ ~ (q <= k)
      BY <1>1, <1>7, SMT
    <2> QED  BY <1>6, <2>1
  <1>10. ASSUME NEW k \in taken PROVE k \in 1 .. m
    <2>1. k \in 1 .. n
      BY <1>4
    <2>2. q \in 1 .. k => q \in taken
      BY <1>3
    <2> QED  BY <1>1, <1>7, <2>1, <2>2, SMT
  <1> HIDE DEF m
  <1>11. taken = 1 .. m
    BY <1>9, <1>10
  <1> QED  BY <1>8, <1>11 DEF taken, n

\* The segments that have been sent are those before the byte up to which
\* everything has been sent.
LEMMA SentIs ==
    ASSUME NEW w, NEW left, NEW mid, NEW tail, NEW base, NEW has,
           Good(w, left, mid, tail, base, has)
    PROVE  /\ SentCount(w) \in 0 .. Len(w.segs)
           /\ SentUpTo(w, mid) \in left .. mid /\ SentUpTo(w, mid) \in Nat
           /\ \A k \in 1 .. Len(w.segs) :
                 /\ k <= SentCount(w) <=> At(w.segs[k]) < SentUpTo(w, mid)
                 /\ k <= SentCount(w) <=> Behind(w.segs[k]) <= SentUpTo(w, mid)
  <1> DEFINE segs == w.segs
             upto == SentUpTo(w, mid)
             c == SentCount(w)
  <1>1. /\ w \in WindowType /\ Chained(segs, left, mid)
        /\ Len(w.xTxQueue) <= Len(segs)
    BY DEF Good, Queues
  <1>2. /\ segs \in Seq(SegmentType) /\ Len(segs) \in Nat
        /\ Len(w.xTxQueue) \in Nat /\ w.xTxQueue \in Seq(Seqs)
    BY <1>1, WindowIs
  <1> DEFINE n == Len(segs)
             q == Len(w.xTxQueue)
  <1>7. n \in Nat /\ q \in Nat /\ q <= n /\ c = n - q
    BY <1>1, <1>2 DEF SentCount
  <1>3. c \in 0 .. Len(segs)
    <2> HIDE DEF n, q, c
    <2>1. c \in 0 .. n
      BY <1>7, SMT
    <2> QED  BY <2>1 DEF n
  <1>4. left \in Nat /\ mid \in Nat /\ left <= mid
    BY <1>1, Sizes, SMT DEF Chained
  <1>5. CASE w.xTxQueue = <<>>
    <2>1. upto = mid /\ c = Len(segs)
      <3>1. Len(w.xTxQueue) = 0
        BY <1>5
      <3> QED  BY <1>2, <1>5, <3>1, SMT DEF SentUpTo, SentCount
    <2>2. ASSUME NEW k \in 1 .. Len(segs)
          PROVE  k <= c /\ At(segs[k]) < upto /\ Behind(segs[k]) <= upto
      <3>1. /\ At(segs[k]) \in Nat /\ Behind(segs[k]) \in Nat
            /\ At(segs[k]) < Behind(segs[k]) /\ Behind(segs[k]) <= mid
        BY <1>1, <1>2, ChainIs
      <3> QED  BY <1>2, <1>4, <2>1, <3>1, SMT
    <2>3. upto \in left .. mid /\ upto \in Nat
      BY <1>4, <2>1, SMT
    <2> QED  BY <1>3, <2>2, <2>3
  <1>6. CASE w.xTxQueue # <<>>
    <2>1. c + 1 \in 1 .. Len(segs) /\ upto = At(segs[c + 1])
      <3>1. q # 0
        BY <1>2, <1>6, EmptySeq
      <3>2. upto = At(segs[c + 1])
        BY <1>6 DEF SentUpTo
      <3>3. c + 1 \in 1 .. n
        <4> HIDE DEF n, q, c
        <4> QED  BY <1>7, <3>1, SMT
      <3> QED  BY <3>2, <3>3
    <2>2. upto \in Nat /\ left <= upto /\ upto <= mid
      <3>1. /\ upto \in Nat /\ left <= upto /\ upto < Behind(segs[c + 1])
            /\ Behind(segs[c + 1]) \in Nat /\ Behind(segs[c + 1]) <= mid
        BY <1>1, <1>2, <2>1, ChainIs
      <3> QED  BY <1>4, <3>1, SMT
    <2>3. ASSUME NEW k \in 1 .. Len(segs)
          PROVE  /\ k <= c <=> At(segs[k]) < upto
                 /\ k <= c <=> Behind(segs[k]) <= upto
      <3>1. k < c + 1 <=> At(segs[k]) < At(segs[c + 1])
        BY <1>1, <1>2, <2>1, ChainApart
      <3>2. k < c + 1 => Behind(segs[k]) <= At(segs[c + 1])
        BY <1>1, <1>2, <2>1, ChainOrder
      <3>3. At(segs[k]) \in Nat /\ Behind(segs[k]) \in Nat /\ At(segs[k]) < Behind(segs[k])
        BY <1>1, <1>2, ChainIs
      <3>4. k < c + 1 <=> k <= c
        BY <1>2, <1>3, SMT
      <3> HIDE DEF c, upto
      <3> QED  BY <2>1, <2>2, <3>1, <3>2, <3>3, <3>4, SMT
    <2>4. upto \in left .. mid
      BY <1>4, <2>2, SMT
    <2> QED  BY <1>3, <2>2, <2>3, <2>4
  <1> QED  BY <1>5, <1>6

\* The queues of u are those of w without the numbers seqs; what is in no
\* transmit queue may have changed its place.
Dropped(u, w, seqs) ==
    /\ u.xTxQueue = w.xTxQueue /\ u.open = w.open
    /\ Once(u.xPriorityQueue) /\ Once(u.xWaitQueue)
    /\ Members(u.xPriorityQueue) \cap Members(u.xWaitQueue) = {}
    /\ Waiting(u) = Waiting(w) \ seqs

\* When the first m segments go, and those in gone need not wait any more, the
\* queues still hold what they must.
LEMMA QueuesAfter ==
    ASSUME NEW w \in WindowType, NEW u \in WindowType, NEW from, NEW to,
           Chained(w.segs, from, to), Queues(w),
           NEW m \in 0 .. SentCount(w), NEW gone \in SUBSET (1 .. SentCount(w)),
           1 .. m \subseteq gone,
           Len(u.segs) = Len(w.segs) - m,
           \A i \in 1 .. Len(w.segs) - m :
              /\ u.segs[i].seq = w.segs[m + i].seq
              /\ u.segs[i].len = w.segs[m + i].len
              /\ u.segs[i].acked <=> w.segs[m + i].acked \/ m + i \in gone,
           Dropped(u, w, {w.segs[k].seq : k \in gone})
    PROVE  /\ Queues(u)
           /\ SentCount(u) = SentCount(w) - m
           /\ SentUpTo(u, to) = SentUpTo(w, to)
  <1> DEFINE n == Len(w.segs)
             q == Len(w.xTxQueue)
             c == SentCount(w)
             seqs == {w.segs[k].seq : k \in gone}
  <1>1. /\ n \in Nat /\ q \in Nat /\ q <= n /\ c = n - q
        /\ w.segs \in Seq(SegmentType) /\ w.xTxQueue \in Seq(Seqs)
    BY WindowIs DEF Queues, SentCount
  <1>2. /\ u.xTxQueue = w.xTxQueue /\ u.open = w.open
        /\ Once(u.xPriorityQueue) /\ Once(u.xWaitQueue)
        /\ Members(u.xPriorityQueue) \cap Members(u.xWaitQueue) = {}
        /\ Waiting(u) = Waiting(w) \ seqs
    BY DEF Dropped
  <1>3. ASSUME NEW i \in 1 .. n - m
        PROVE  /\ u.segs[i].seq = w.segs[m + i].seq
               /\ u.segs[i].len = w.segs[m + i].len
               /\ u.segs[i].acked <=> w.segs[m + i].acked \/ m + i \in gone
    OBVIOUS
  <1>4. Len(u.segs) = n - m
    OBVIOUS
  <1>5. SentCount(u) = (n - m) - q
    BY <1>2, <1>4 DEF SentCount
  <1>6. \A k \in gone : k \in 1 .. c
    OBVIOUS
  <1>7. 1 .. m \subseteq gone
    OBVIOUS
  <1>8. m \in 0 .. c
    OBVIOUS
  <1>9. /\ \A k \in 1 .. q : w.xTxQueue[k] = w.segs[c + k].seq
                             /\ ~ w.segs[c + k].acked
        /\ Waiting(w) = {w.segs[k].seq : k \in {k \in 1 .. c : ~ w.segs[k].acked}}
        /\ w.open => w.xTxQueue # <<>> /\ w.segs[n].len < MSS
    BY DEF Queues
  <1>10. \A j, k \in 1 .. n : w.segs[j].seq = w.segs[k].seq => j = k
    BY <1>1, ChainApart
  <1>11. w.xTxQueue # <<>> => q # 0
    BY <1>1, EmptySeq
  <1>12. SentUpTo(w, to) = IF w.xTxQueue = <<>> THEN to ELSE At(w.segs[c + 1])
    BY DEF SentUpTo
  <1>13. SentUpTo(u, to) = IF w.xTxQueue = <<>> THEN to
                           ELSE At(u.segs[((n - m) - q) + 1])
    BY <1>2, <1>5 DEF SentUpTo
  <1> HIDE DEF n, q, c
  <1>14. SentCount(u) = c - m /\ c - m \in Nat /\ c \in Nat
    BY <1>1, <1>5, <1>8, SMT
  <1>15. ASSUME NEW k \in 1 .. q
         PROVE  w.xTxQueue[k] = u.segs[SentCount(u) + k].seq
                /\ ~ u.segs[SentCount(u) + k].acked
    <2>1. (c - m) + k \in 1 .. n - m /\ m + ((c - m) + k) = c + k
          /\ c + k \notin 1 .. c
      BY <1>1, <1>8, SMT
    <2>2. c + k \notin gone
      BY <1>6, <2>1
    <2>3. /\ u.segs[(c - m) + k].seq = w.segs[c + k].seq
          /\ u.segs[(c - m) + k].acked <=> w.segs[c + k].acked \/ c + k \in gone
      BY <1>3, <2>1
    <2> QED  BY <1>9, <1>14, <2>2, <2>3
  <1>16. Waiting(u) = {u.segs[k].seq : k \in {k \in 1 .. c - m : ~ u.segs[k].acked}}
    <2>1. ASSUME NEW k \in 1 .. c - m, ~ u.segs[k].acked
          PROVE  u.segs[k].seq \in Waiting(w) \ seqs
      <3>1. k \in 1 .. n - m /\ m + k \in 1 .. c /\ m + k \in 1 .. n
        BY <1>1, <1>8, SMT
      <3>2. /\ u.segs[k].seq = w.segs[m + k].seq
            /\ ~ w.segs[m + k].acked /\ m + k \notin gone
        BY <1>3, <2>1, <3>1
      <3>3. w.segs[m + k].seq \in Waiting(w)
        BY <1>9, <3>1, <3>2
      <3>4. \A x \in 1 .. c : x \in 1 .. n
        BY <1>1, <1>8, SMT
      <3>5. w.segs[m + k].seq \notin seqs
        BY <1>6, <1>10, <3>1, <3>2, <3>4
      <3> QED  BY <3>2, <3>3, <3>5
    <2>2. ASSUME NEW x \in Waiting(w) \ seqs
          PROVE  \E k \in 1 .. c - m : ~ u.segs[k].acked /\ u.segs[k].seq = x
      <3>1. PICK k \in 1 .. c : ~ w.segs[k].acked /\ w.segs[k].seq = x
        BY <1>9
      <3>2. k \notin gone
        BY <3>1
      <3>3. k \notin 1 .. m
        BY <1>7, <3>2
      <3>4. k - m \in 1 .. c - m /\ m + (k - m) = k /\ k - m \in 1 .. n - m
        BY <1>1, <1>8, <3>3, SMT
      <3>5. /\ u.segs[k - m].seq = w.segs[k].seq
            /\ u.segs[k - m].acked <=> w.segs[k].acked \/ k \in gone
        BY <1>3, <3>4
      <3> QED  BY <3>1, <3>2, <3>4, <3>5
    <2> QED  BY <1>2, <2>1, <2>2
  <1>17. w.xTxQueue # <<>> => n - m \in 1 .. n - m /\ m + (n - m) = n
                              /\ (c - m) + 1 \in 1 .. n - m
                              /\ m + ((c - m) + 1) = c + 1
                              /\ ((n - m) - q) + 1 = (c - m) + 1
    BY <1>1, <1>8, <1>11, SMT
  <1>18. u.open => u.xTxQueue # <<>> /\ u.segs[Len(u.segs)].len < MSS
    <2> SUFFICES ASSUME u.open
                 PROVE  u.xTxQueue # <<>> /\ u.segs[Len(u.segs)].len < MSS
      OBVIOUS
    <2>1. w.xTxQueue # <<>> /\ w.segs[n].len < MSS
      BY <1>2, <1>9
    <2>2. u.segs[n - m].len = w.segs[n].len
      BY <1>3, <1>17, <2>1
    <2> QED  BY <1>2, <1>4, <2>1, <2>2
  <1>19. SentUpTo(u, to) = SentUpTo(w, to)
    <2>1. CASE w.xTxQueue = <<>>
      BY <1>12, <1>13, <2>1
    <2>2. CASE w.xTxQueue # <<>>
      <3>1. u.segs[(c - m) + 1].seq = w.segs[c + 1].seq
        BY <1>3, <1>17, <2>2
      <3>2. At(u.segs[(c - m) + 1]) = At(w.segs[c + 1])
        BY <3>1 DEF At
      <3> QED  BY <1>12, <1>13, <1>17, <2>2, <3>2
    <2> QED  BY <2>1, <2>2
  <1>20. Len(u.xTxQueue) = q /\ q <= Len(u.segs)
    <2>1. q <= n - m
      BY <1>1, <1>8, SMT
    <2> QED  BY <1>2, <1>4, <2>1 DEF q
  <1> QED  BY <1>2, <1>14, <1>15, <1>16, <1>18, <1>19, <1>20 DEF Queues, c

\* Taking numbers from the queues that are not in the transmit queue.
LEMMA WithoutDrops ==
    ASSUME NEW w \in WindowType, NEW from, NEW to,
           Chained(w.segs, from, to), Queues(w),
           NEW gone \in SUBSET (1 .. SentCount(w)), NEW u, NEW seqs,
           seqs = {w.segs[k].seq : k \in gone},
           u.xTxQueue = Without(w.xTxQueue, seqs), u.open = w.open,
           u.xPriorityQueue = Without(w.xPriorityQueue, seqs),
           u.xWaitQueue = Without(w.xWaitQueue, seqs)
    PROVE  Dropped(u, w, seqs)
  <1> DEFINE c == SentCount(w)
             q == Len(w.xTxQueue)
             n == Len(w.segs)
  <1>1. /\ w.xTxQueue \in Seq(Seqs) /\ w.xPriorityQueue \in Seq(Seqs)
        /\ w.xWaitQueue \in Seq(Seqs) /\ w.segs \in Seq(SegmentType)
        /\ n \in Nat /\ q \in Nat /\ q <= n /\ c = n - q
    BY WindowIs DEF Queues, SentCount
  <1>2. Members(w.xTxQueue) \cap seqs = {}
    <2> SUFFICES ASSUME NEW k \in 1 .. q, NEW j \in gone,
                        w.xTxQueue[k] = w.segs[j].seq
                 PROVE  FALSE
      BY DEF Members
    <2>1. w.xTxQueue[k] = w.segs[c + k].seq
      BY DEF Queues
    <2>2. j \in 1 .. c
      OBVIOUS
    <2>3. c + k \in 1 .. n /\ j \in 1 .. n /\ j # c + k
      <3> HIDE DEF c, q, n
      <3> QED  BY <1>1, <2>2, SMT
    <2> QED  BY <1>1, <2>1, <2>3, ChainApart
  <1>3. u.xTxQueue = w.xTxQueue
    BY <1>1, <1>2, WithoutNone
  <1>4. /\ Members(u.xPriorityQueue) = Members(w.xPriorityQueue) \ seqs
        /\ Once(w.xPriorityQueue) => Once(u.xPriorityQueue)
    BY <1>1, WithoutIs
  <1>5. /\ Members(u.xWaitQueue) = Members(w.xWaitQueue) \ seqs
        /\ Once(w.xWaitQueue) => Once(u.xWaitQueue)
    BY <1>1, WithoutIs
  <1>6. /\ Once(w.xPriorityQueue) /\ Once(w.xWaitQueue)
        /\ Members(w.xPriorityQueue) \cap Members(w.xWaitQueue) = {}
    BY DEF Queues
  <1>7. /\ Members(u.xPriorityQueue) \cap Members(u.xWaitQueue) = {}
        /\ Waiting(u) = Waiting(w) \ seqs
    BY <1>4, <1>5, <1>6 DEF Waiting
  <1> QED  BY <1>3, <1>4, <1>5, <1>6, <1>7 DEF Dropped

LEMMA FunctionIsSeq ==
    ASSUME NEW S, NEW n \in Nat, NEW f \in [1 .. n -> S]
    PROVE  f \in Seq(S) /\ Len(f) = n
  <1>1. [i \in 1 .. n |-> f[i]] \in Seq(S) /\ Len([i \in 1 .. n |-> f[i]]) = n
    OBVIOUS
  <1>2. f = [i \in 1 .. n |-> f[i]]
    OBVIOUS
  <1> QED  BY <1>1, <1>2

UnqueuedFields(u, w, seqs) ==
    /\ u \in WindowType
    /\ u.segs = w.segs /\ u.open = w.open /\ u.current = w.current
    /\ u.highest = w.highest /\ u.next = w.next /\ u.limit = w.limit
    /\ u.xTxQueue = Without(w.xTxQueue, seqs)
    /\ u.xWaitQueue = Without(w.xWaitQueue, seqs)
    /\ u.xPriorityQueue = Without(w.xPriorityQueue, seqs)

LEMMA UnqueuedIs ==
    ASSUME NEW w \in WindowType, NEW taken
    PROVE  UnqueuedFields(Unqueued(w, taken), w, {w.segs[k].seq : k \in taken})
  <1> DEFINE seqs == {w.segs[k].seq : k \in taken}
             u == Unqueued(w, taken)
  <1>1. u = [w EXCEPT !.xTxQueue = Without(@, seqs),
                      !.xWaitQueue = Without(@, seqs),
                      !.xPriorityQueue = Without(@, seqs)]
    BY DEF Unqueued
  <1> HIDE DEF u, seqs
  <1>2. Without(w.xTxQueue, seqs) \in Seq(Seqs)
    BY WindowIs, WithoutIs
  <1>3. Without(w.xWaitQueue, seqs) \in Seq(Seqs)
    BY WindowIs, WithoutIs
  <1>4. Without(w.xPriorityQueue, seqs) \in Seq(Seqs)
    BY WindowIs, WithoutIs
  <1>5. UnqueuedFields(u, w, seqs)
    BY <1>1, <1>2, <1>3, <1>4 DEF UnqueuedFields, WindowType
  <1> QED  BY <1>5 DEF u, seqs

\* A window after the left side has moved from left to new.
Moved(r, w, left, new, mid, tail, base, has) ==
    /\ new \in left .. mid /\ r.confirmed = new - left
    /\ Good(r.window, new, mid, tail, base, has)
    /\ SentUpTo(r.window, mid) = SentUpTo(w, mid)
    /\ \A i \in 0 .. new - 1 : i \in has

\* An acknowledgement from the left side on: the segments it takes are freed.
LEMMA CheckedLeft ==
    ASSUME NEW w, NEW left, NEW mid, NEW tail, NEW base, NEW has,
           Good(w, left, mid, tail, base, has),
           \A i \in 0 .. left - 1 : i \in has,
           NEW b \in 0 .. StreamLength, b <= SentUpTo(w, mid),
           \A i \in left .. b - 1 : i \in has
    PROVE  \E new \in left .. mid :
              Moved(prvTCPWindowTxCheckAck(w, SeqOf(left), SeqOf(b)), w,
                    left, new, mid, tail, base, has)
  <1> DEFINE n == Len(w.segs)
             c == SentCount(w)
             taken == Taken(w, SeqOf(left), SeqOf(b))
             seqs == {w.segs[k].seq : k \in taken}
             r == prvTCPWindowTxCheckAck(w, SeqOf(left), SeqOf(b))
             u == r.window
             rest == Freed(w, taken)
             count == IF taken # {} THEN Minus(EndOf(w, taken), SeqOf(left)) ELSE 0
  <1>1. /\ w \in WindowType /\ Len(w.segs) <= SegCount
        /\ w.current = SeqOf(left) /\ w.next = SeqOf(mid)
        /\ Chained(w.segs, left, mid) /\ Placed(w.segs, tail, base)
        /\ AckedAreHeld(w.segs, has) /\ Queues(w)
    BY DEF Good
  <1>2. /\ left \in Nat /\ mid \in Nat /\ left <= mid /\ mid <= StreamLength
        /\ left \in 0 .. StreamLength /\ left \in 0 .. StreamLength + 1
    BY <1>1, Sizes, SMT DEF Chained
  <1>3. /\ w.segs \in Seq(SegmentType) /\ n \in Nat /\ DOMAIN w.segs = 1 .. n
        /\ w.xTxQueue \in Seq(Seqs) /\ w.xPriorityQueue \in Seq(Seqs)
        /\ w.xWaitQueue \in Seq(Seqs)
    BY <1>1, WindowIs
  <1>4. PICK m \in 0 .. n : taken = 1 .. m
    <2>1. w \in WindowType /\ Chained(w.segs, left, mid)
          /\ left \in 0 .. StreamLength /\ b \in 0 .. StreamLength
      BY <1>1, <1>2
    <2> HIDE DEF taken, n
    <2>2. \E m \in 0 .. Len(w.segs) :
             Taken(w, SeqOf(left), SeqOf(b)) = 1 .. m
      BY <2>1, TakenAtLeft
    <2> QED  BY <2>2 DEF taken, n
  <1>5. /\ r.confirmed = count
        /\ u = [Unqueued(w, taken) EXCEPT !.segs = rest,
                                          !.current = Plus(@, count)]
    BY <1>1 DEF prvTCPWindowTxCheckAck
  <1>6. c \in 0 .. n
    BY SentIs
  <1>7. m \in 0 .. c
    <2>1. CASE m = 0
      BY <1>6, <2>1, SMT
    <2>2. CASE m # 0
      <3>1. m \in 1 .. m /\ m \in 1 .. n
        BY <1>3, <2>2, SMT
      <3>2. At(w.segs[m]) < b
        BY <1>1, <1>2, <1>4, <3>1, TakenAreHeld
      <3>3. At(w.segs[m]) \in Nat /\ SentUpTo(w, mid) \in Nat
        BY <1>1, <1>3, <3>1, ChainIs, SentIs
      <3>4. At(w.segs[m]) < SentUpTo(w, mid)
        BY <3>2, <3>3, SMT
      <3>5. m <= c
        BY <3>1, <3>4, SentIs
      <3> QED  BY <1>6, <3>5, SMT
    <2> QED  BY <2>1, <2>2
  <1>8. /\ \A k \in 1 .. m : k \in 1 .. c
        /\ m \in Nat
    BY <1>6, <1>7, SMT
  <1>9. /\ rest \in Seq(SegmentType) /\ Len(rest) = n - m
        /\ \A i \in 1 .. n - m : rest[i] = w.segs[m + i]
    <2> DEFINE keep == DOMAIN w.segs \ taken
    <2>1. ASSUME NEW j \in 1 .. n PROVE j \in keep <=> j > m
      <3>1. j \in 1 .. m <=> ~ (j > m)
        BY <1>3, <1>8, SMT
      <3> QED  BY <1>3, <1>4, <3>1
    <2> HIDE DEF keep, n
    <2>2. /\ Kept(w.segs, keep) \in Seq(SegmentType)
          /\ Len(Kept(w.segs, keep)) = Len(w.segs) - m
          /\ \A i \in 1 .. Len(w.segs) - m : Kept(w.segs, keep)[i] = w.segs[m + i]
      <3>1. \A j \in 1 .. Len(w.segs) : j \in keep <=> j > m
        BY <2>1 DEF n
      <3>2. m \in 0 .. Len(w.segs) /\ w.segs \in Seq(SegmentType)
        BY <1>3 DEF n
      <3> QED  BY <3>1, <3>2, KeptRest, Zenon
    <2> QED  BY <2>2 DEF n, keep, Freed
  <1> DEFINE new == IF m = 0 THEN left ELSE Behind(w.segs[m])
  <1>10. /\ new \in left .. mid /\ new \in Nat
         /\ count = new - left
         /\ Plus(w.current, count) = SeqOf(new)
    <2>1. CASE m = 0
      <3>1. taken = {}
        BY <1>4, <2>1, SMT
      <3>2. count = 0 /\ new = left
        BY <2>1, <3>1
      <3>3. Plus(SeqOf(left), 0) = SeqOf(left + 0) /\ left + 0 = left
            /\ left - left = 0
        BY <1>2, PlusIs, SMT
      <3> HIDE DEF count, new
      <3> QED  BY <1>1, <1>2, <3>2, <3>3, SMT
    <2>2. CASE m # 0
      <3>1. m \in 1 .. n /\ m \in 1 .. m /\ m + 1 \notin 1 .. m
            /\ \A k \in 1 .. m : k + 1 \notin 1 .. m => k = m
        BY <1>3, <2>2, SMT
      <3>2. EndOf(w, taken) = Plus(w.segs[m].seq, w.segs[m].len) /\ taken # {}
        BY <1>4, <3>1 DEF EndOf
      <3>3. /\ w.segs[m].seq = SeqOf(At(w.segs[m]))
            /\ Behind(w.segs[m]) = At(w.segs[m]) + w.segs[m].len
            /\ At(w.segs[m]) \in Nat /\ At(w.segs[m]) \in 0 .. StreamLength
            /\ Behind(w.segs[m]) \in Nat /\ Behind(w.segs[m]) <= mid
            /\ left <= At(w.segs[m]) /\ At(w.segs[m]) < Behind(w.segs[m])
            /\ w.segs[m].len \in Nat
        BY <1>1, <1>3, <3>1, ChainIs, SegmentIs
      <3>4. Plus(w.segs[m].seq, w.segs[m].len) = SeqOf(new)
        <4>1. /\ At(w.segs[m]) \in 0 .. StreamLength + 1
              /\ At(w.segs[m]) + w.segs[m].len <= StreamLength + 1
          BY <1>2, <3>3, Sizes, SMT
        <4> QED  BY <2>2, <3>3, <4>1, PlusIs
      <3>5. new \in 0 .. StreamLength + 1 /\ new >= left /\ new <= mid /\ new \in Nat
        BY <1>2, <2>2, <3>3, Sizes, SMT
      <3>6. count = new - left
        <4>1. count = Minus(SeqOf(new), SeqOf(left))
          BY <3>2, <3>4
        <4> HIDE DEF count, new
        <4> QED  BY <1>2, <3>5, <4>1, MinusIs
      <3>7. Plus(SeqOf(left), new - left) = SeqOf(new)
        <4> HIDE DEF new
        <4>1. new - left \in Nat /\ left + (new - left) = new
              /\ left + (new - left) <= StreamLength + 1
          BY <1>2, <3>5, SMT
        <4> QED  BY <1>2, <4>1, PlusIs
      <3> HIDE DEF count, new
      <3>8. new \in left .. mid
        BY <1>2, <3>5, SMT
      <3> QED  BY <1>1, <3>5, <3>6, <3>7, <3>8
    <2> QED  BY <2>1, <2>2
  <1>11. new \in 0 .. StreamLength + 1
    <2> HIDE DEF new
    <2> QED  BY <1>2, <1>10, Sizes, SMT
  <1>12. /\ u \in WindowType
         /\ u.segs = rest /\ u.current = SeqOf(new) /\ u.next = w.next
         /\ u.xTxQueue = Without(w.xTxQueue, seqs) /\ u.open = w.open
         /\ u.xPriorityQueue = Without(w.xPriorityQueue, seqs)
         /\ u.xWaitQueue = Without(w.xWaitQueue, seqs)
    <2>1. Plus(w.current, count) \in Seqs
      <3> HIDE DEF count, new
      <3> QED  BY <1>10, <1>11, SeqOfIs
    <2> HIDE DEF u, r, seqs, count, rest, new, taken
    <2>2. UnqueuedFields(Unqueued(w, taken), w, seqs)
      BY <1>1, UnqueuedIs DEF seqs
    <2> QED  BY <1>1, <1>5, <1>9, <1>10, <2>1, <2>2 DEF UnqueuedFields, WindowType
  <1> HIDE DEF u, r, rest, count, new
  <1>14. Queues(u) /\ SentUpTo(u, mid) = SentUpTo(w, mid)
    <2>1. taken \in SUBSET (1 .. c)
      BY <1>4, <1>8
    <2> HIDE DEF c, taken
    <2>2. Dropped(u, w, seqs)
      <3>1. seqs = {w.segs[k].seq : k \in taken}
        OBVIOUS
      <3> HIDE DEF seqs
      <3> QED  BY <1>1, <1>12, <2>1, <3>1, WithoutDrops DEF c
    <2>3. Len(u.segs) = n - m
      BY <1>9, <1>12
    <2>4. ASSUME NEW i \in 1 .. n - m
          PROVE  /\ u.segs[i].seq = w.segs[m + i].seq
                 /\ u.segs[i].len = w.segs[m + i].len
                 /\ u.segs[i].acked <=> w.segs[m + i].acked \/ m + i \in taken
      <3>1. m + i \notin 1 .. m
        BY <1>3, <1>8, SMT
      <3> QED  BY <1>4, <1>9, <1>12, <3>1
    <2>5. 1 .. m \subseteq taken /\ m \in 0 .. SentCount(w)
      BY <1>4, <1>7 DEF c
    <2> QED  BY <1>1, <1>12, <2>1, <2>2, <2>3, <2>4, <2>5, QueuesAfter DEF c
  <1>15. Chained(u.segs, new, mid)
    <2>1. CASE m = 0
      <3>1. Len(rest) = n /\ \A i \in 1 .. n : rest[i] = w.segs[i]
        <4>1. n - m = n /\ \A i \in 1 .. n : m + i = i
          BY <1>3, <2>1, SMT
        <4> QED  BY <1>9, <4>1
      <3>2. rest = w.segs
        BY <1>3, <1>9, <3>1, SeqEqual
      <3> QED  BY <1>1, <1>12, <2>1, <3>2 DEF new
    <2>2. CASE m # 0
      <3>1. m \in 1 .. Len(w.segs)
        BY <1>3, <2>2, SMT
      <3>2. Chained(rest, Behind(w.segs[m]), mid)
        BY <1>1, <1>3, <1>9, <3>1, ChainRest
      <3> QED  BY <1>12, <2>2, <3>2 DEF new
    <2> QED  BY <2>1, <2>2
  <1>16. /\ Placed(u.segs, tail, base) /\ AckedAreHeld(u.segs, has)
         /\ Len(u.segs) <= SegCount
    <2>1. \A i \in 1 .. Len(rest) : i \in 1 .. n - m /\ m + i \in 1 .. Len(w.segs)
      BY <1>3, <1>8, <1>9, SMT
    <2>2. Placed(rest, tail, base)
      BY <1>1, <1>9, <2>1 DEF Placed
    <2>3. AckedAreHeld(rest, has)
      BY <1>1, <1>9, <2>1 DEF AckedAreHeld
    <2>4. Len(rest) <= SegCount
      BY <1>1, <1>3, <1>8, <1>9, PoolSizes, SMT
    <2> QED  BY <1>12, <2>2, <2>3, <2>4
  <1>17. ASSUME NEW x \in 0 .. new - 1 PROVE x \in has
    <2>1. CASE x < left
      <3>1. x \in 0 .. left - 1
        BY <1>2, <1>10, <2>1, SMT
      <3> QED  BY <3>1
    <2>2. CASE ~ (x < left)
      <3>1. m # 0
        BY <1>2, <2>2, SMT DEF new
      <3>2. new = Behind(w.segs[m]) /\ m \in 1 .. Len(w.segs)
        BY <1>3, <3>1, SMT DEF new
      <3>3. x \in left .. Behind(w.segs[m]) - 1
        BY <1>2, <1>10, <2>2, <3>2, SMT
      <3>4. PICK k \in 1 .. m : x \in At(w.segs[k]) .. Behind(w.segs[k]) - 1
        BY <1>1, <1>3, <3>2, <3>3, ChainCovers
      <3>5. k \in taken
        BY <1>4
      <3>6. \A i \in At(w.segs[k]) .. Behind(w.segs[k]) - 1 : i \in has
        BY <1>1, <1>2, <3>5, TakenAreHeld
      <3> QED  BY <3>4, <3>6
    <2> QED  BY <2>1, <2>2
  <1>18. Good(u, new, mid, tail, base, has)
    BY <1>1, <1>12, <1>14, <1>15, <1>16 DEF Good
  <1>19. Moved(r, w, left, new, mid, tail, base, has)
    BY <1>5, <1>10, <1>14, <1>17, <1>18 DEF Moved, u
  <1> QED  BY <1>10, <1>19 DEF r

\* The segments after a change that leaves alone where they stand.
AllSame(after, before) ==
    /\ Len(after) = Len(before)
    /\ \A k \in 1 .. Len(before) :
          /\ after[k].seq = before[k].seq /\ after[k].len = before[k].len
          /\ after[k].pos = before[k].pos

LEMMA SameChain ==
    ASSUME NEW after \in Seq(SegmentType), NEW before \in Seq(SegmentType),
           AllSame(after, before), NEW from, NEW to, NEW tail, NEW base,
           Chained(before, from, to), Placed(before, tail, base)
    PROVE  Chained(after, from, to) /\ Placed(after, tail, base)
  <1>1. Len(after) = Len(before) /\ Len(before) \in Nat
    BY DEF AllSame
  <1>2. ASSUME NEW k \in 1 .. Len(before)
        PROVE  At(after[k]) = At(before[k]) /\ Behind(after[k]) = Behind(before[k])
               /\ after[k].seq = before[k].seq /\ after[k].pos = before[k].pos
    BY DEF AllSame, At, Behind
  <1>3. after = <<>> => before = <<>>
    BY <1>1, EmptySeq
  <1>4. \A k \in 1 .. Len(before) : k # 1 => k - 1 \in 1 .. Len(before)
    BY <1>1, SMT
  <1>5. Placed(after, tail, base)
    BY <1>1, <1>2 DEF Placed
  <1>6. ASSUME NEW k \in 1 .. Len(after)
        PROVE  /\ At(after[k]) \in from .. to /\ after[k].seq = SeqOf(At(after[k]))
               /\ At(after[k]) = IF k = 1 THEN from ELSE Behind(after[k - 1])
               /\ k = Len(after) => Behind(after[k]) = to
    <2>1. k \in 1 .. Len(before) /\ (k # 1 => k - 1 \in 1 .. Len(before))
      BY <1>1, <1>4
    <2>2. /\ At(before[k]) \in from .. to /\ before[k].seq = SeqOf(At(before[k]))
          /\ At(before[k]) = IF k = 1 THEN from ELSE Behind(before[k - 1])
          /\ k = Len(before) => Behind(before[k]) = to
      BY <2>1 DEF Chained
    <2> QED  BY <1>1, <1>2, <2>1, <2>2
  <1>7. from \in 0 .. to /\ to \in 0 .. StreamLength /\ (after = <<>> => to = from)
    BY <1>3 DEF Chained
  <1> QED  BY <1>5, <1>6, <1>7 DEF Chained

LEMMA MarkedIs ==
    ASSUME NEW w \in WindowType, NEW taken
    PROVE  /\ Marked(w, taken) \in Seq(SegmentType)
           /\ AllSame(Marked(w, taken), w.segs)
           /\ \A k \in 1 .. Len(w.segs) :
                 Marked(w, taken)[k].acked <=> w.segs[k].acked \/ k \in taken
  <1> DEFINE m == Marked(w, taken)
             n == Len(w.segs)
  <1>1. w.segs \in Seq(SegmentType) /\ n \in Nat /\ DOMAIN w.segs = 1 .. n
    BY WindowIs
  <1>2. m = [k \in 1 .. n |-> [w.segs[k] EXCEPT !.acked = @ \/ k \in taken]]
    BY <1>1 DEF Marked
  <1> HIDE DEF m
  <1>3. ASSUME NEW k \in 1 .. n
        PROVE  /\ m[k] \in SegmentType
               /\ m[k].seq = w.segs[k].seq /\ m[k].len = w.segs[k].len
               /\ m[k].pos = w.segs[k].pos
               /\ m[k].acked <=> w.segs[k].acked \/ k \in taken
    <2>1. w.segs[k] \in SegmentType
      BY <1>1, SegmentIs
    <2>2. m[k] = [w.segs[k] EXCEPT !.acked = @ \/ k \in taken]
      BY <1>2
    <2>3. (w.segs[k].acked \/ k \in taken) \in BOOLEAN
      OBVIOUS
    <2> QED  BY <2>1, <2>2, <2>3 DEF SegmentType
  <1>4. m \in [1 .. n -> SegmentType]
    <2>1. m = [k \in 1 .. n |-> m[k]]
      BY <1>2
    <2> QED  BY <1>3, <2>1
  <1>5. m \in Seq(SegmentType) /\ Len(m) = n
    BY <1>1, <1>4, FunctionIsSeq
  <1> QED  BY <1>3, <1>5 DEF AllSame, m

\* An acknowledgement of bytes farther on: the segments it takes are marked.
LEMMA CheckedAhead ==
    ASSUME NEW w, NEW left, NEW mid, NEW tail, NEW base, NEW has,
           Good(w, left, mid, tail, base, has),
           \A i \in 0 .. left - 1 : i \in has,
           NEW a \in 0 .. StreamLength, a # left,
           NEW b \in 0 .. StreamLength, b <= SentUpTo(w, mid),
           \A i \in a .. b - 1 : i \in has
    PROVE  Moved(prvTCPWindowTxCheckAck(w, SeqOf(a), SeqOf(b)), w,
                 left, left, mid, tail, base, has)
  <1> DEFINE n == Len(w.segs)
             c == SentCount(w)
             taken == Taken(w, SeqOf(a), SeqOf(b))
             seqs == {w.segs[k].seq : k \in taken}
             r == prvTCPWindowTxCheckAck(w, SeqOf(a), SeqOf(b))
             u == r.window
             marked == Marked(w, taken)
  <1>1. /\ w \in WindowType /\ Len(w.segs) <= SegCount
        /\ w.current = SeqOf(left) /\ w.next = SeqOf(mid)
        /\ Chained(w.segs, left, mid) /\ Placed(w.segs, tail, base)
        /\ AckedAreHeld(w.segs, has) /\ Queues(w)
    BY DEF Good
  <1>2. /\ left \in Nat /\ mid \in Nat /\ left <= mid /\ mid <= StreamLength
        /\ left \in 0 .. StreamLength + 1 /\ a \in 0 .. StreamLength + 1
        /\ left - left = 0 /\ left \in left .. mid
    BY <1>1, Sizes, SMT DEF Chained
  <1>3. /\ w.segs \in Seq(SegmentType) /\ n \in Nat /\ DOMAIN w.segs = 1 .. n
    BY <1>1, WindowIs
  <1>4. SeqOf(a) # w.current
    BY <1>1, <1>2, SameNumber
  <1>5. /\ r.confirmed = 0
        /\ u = [Unqueued(w, taken) EXCEPT !.segs = marked, !.current = Plus(@, 0)]
    BY <1>4 DEF prvTCPWindowTxCheckAck
  <1>6. Plus(w.current, 0) = w.current
    <2>1. Plus(SeqOf(left), 0) = SeqOf(left + 0) /\ left + 0 = left
      BY <1>2, PlusIs, SMT
    <2> QED  BY <1>1, <2>1
  <1>7. /\ marked \in Seq(SegmentType) /\ AllSame(marked, w.segs)
        /\ \A k \in 1 .. n : marked[k].acked <=> w.segs[k].acked \/ k \in taken
    BY <1>1, MarkedIs
  <1>8. /\ u \in WindowType
        /\ u.segs = marked /\ u.current = SeqOf(left) /\ u.next = w.next
        /\ u.xTxQueue = Without(w.xTxQueue, seqs) /\ u.open = w.open
        /\ u.xPriorityQueue = Without(w.xPriorityQueue, seqs)
        /\ u.xWaitQueue = Without(w.xWaitQueue, seqs)
    <2>1. UnqueuedFields(Unqueued(w, taken), w, seqs)
      BY <1>1, UnqueuedIs
    <2> HIDE DEF u, r, seqs, marked, taken
    <2> QED  BY <1>1, <1>5, <1>6, <1>7, <2>1 DEF UnqueuedFields, WindowType
  <1> HIDE DEF u, r, marked
  <1>9. c \in 0 .. n
    BY SentIs
  <1>10. taken \in SUBSET (1 .. c)
    <2> SUFFICES ASSUME NEW k \in taken PROVE k \in 1 .. c
      OBVIOUS
    <2>1. k \in 1 .. n /\ At(w.segs[k]) < b
      BY <1>1, TakenAreHeld
    <2>2. At(w.segs[k]) \in Nat /\ SentUpTo(w, mid) \in Nat
      BY <1>1, <1>3, <2>1, ChainIs, SentIs
    <2>3. At(w.segs[k]) < SentUpTo(w, mid)
      BY <2>1, <2>2, SMT
    <2>4. k <= c
      BY <2>1, <2>3, SentIs
    <2> HIDE DEF taken
    <2> QED  BY <1>9, <2>1, <2>4, SMT
  <1>11. Queues(u) /\ SentUpTo(u, mid) = SentUpTo(w, mid)
    <2> HIDE DEF c, taken
    <2>1. Dropped(u, w, seqs)
      <3>1. seqs = {w.segs[k].seq : k \in taken}
        OBVIOUS
      <3> HIDE DEF seqs
      <3> QED  BY <1>1, <1>8, <1>10, <3>1, WithoutDrops DEF c
    <2> DEFINE none == 0
    <2>2. /\ n - none = n /\ none \in 0 .. c
          /\ \A i \in 1 .. n : none + i = i
          /\ \A i \in 1 .. none : FALSE
      BY <1>3, <1>9, SMT
    <2> HIDE DEF none
    <2>3. Len(u.segs) = n - none
      BY <1>7, <1>8, <2>2 DEF AllSame
    <2>4. ASSUME NEW i \in 1 .. n - none
          PROVE  /\ u.segs[i].seq = w.segs[none + i].seq
                 /\ u.segs[i].len = w.segs[none + i].len
                 /\ u.segs[i].acked <=> w.segs[none + i].acked \/ none + i \in taken
      BY <1>7, <1>8, <2>2 DEF AllSame
    <2>5. 1 .. none \subseteq taken
      BY <2>2
    <2>6. none \in 0 .. SentCount(w) /\ taken \in SUBSET (1 .. SentCount(w))
      BY <1>10, <2>2 DEF c
    <2> QED  BY <1>1, <1>8, <2>1, <2>3, <2>4, <2>5, <2>6, QueuesAfter
  <1>12. Chained(u.segs, left, mid) /\ Placed(u.segs, tail, base)
    BY <1>1, <1>3, <1>7, <1>8, SameChain
  <1>13. AckedAreHeld(u.segs, has)
    <2> SUFFICES ASSUME NEW k \in 1 .. n, marked[k].acked,
                        NEW i \in At(marked[k]) .. Behind(marked[k]) - 1
                 PROVE  i \in has
      BY <1>7, <1>8 DEF AckedAreHeld, AllSame
    <2>1. At(marked[k]) = At(w.segs[k]) /\ Behind(marked[k]) = Behind(w.segs[k])
      BY <1>7 DEF AllSame, At, Behind
    <2>2. CASE w.segs[k].acked
      <3>1. i \in At(w.segs[k]) .. Behind(w.segs[k]) - 1
        BY <2>1
      <3> HIDE DEF n, taken
      <3> QED  BY <1>1, <2>2, <3>1 DEF AckedAreHeld, n
    <2>3. CASE k \in taken
      <3>1. \A x \in At(w.segs[k]) .. Behind(w.segs[k]) - 1 : x \in has
        BY <1>1, <2>3, TakenAreHeld
      <3> QED  BY <2>1, <3>1
    <2> QED  BY <1>7, <2>2, <2>3
  <1>14. Len(u.segs) <= SegCount
    BY <1>1, <1>7, <1>8 DEF AllSame
  <1>15. Good(u, left, mid, tail, base, has)
    BY <1>1, <1>8, <1>11, <1>12, <1>13, <1>14 DEF Good
  <1>16. Moved(r, w, left, left, mid, tail, base, has)
    BY <1>2, <1>5, <1>11, <1>15 DEF Moved, u
  <1> QED  BY <1>16 DEF r

LEMMA CountedIs ==
    ASSUME NEW w \in WindowType, NEW passed, NEW asked
    PROVE  /\ Counted(w, passed, asked) \in Seq(SegmentType)
           /\ AllSame(Counted(w, passed, asked), w.segs)
           /\ \A k \in 1 .. Len(w.segs) :
                 Counted(w, passed, asked)[k].acked <=> w.segs[k].acked
  <1> DEFINE m == Counted(w, passed, asked)
             n == Len(w.segs)
             D == DUPLICATE_ACKS_BEFORE_FAST_RETRANSMIT
  <1>1. w.segs \in Seq(SegmentType) /\ n \in Nat /\ DOMAIN w.segs = 1 .. n
    BY WindowIs
  <1>2. ASSUME NEW k \in 1 .. n
        PROVE  m[k] = IF k \in passed
                      THEN [w.segs[k] EXCEPT
                              !.ucDupAckCount = Least(@ + 1, D + 1),
                              !.ucTransmitCount = IF k \in asked THEN 0 ELSE @]
                      ELSE w.segs[k]
    BY <1>1 DEF Counted
  <1>3. m = [k \in 1 .. n |-> m[k]]
    BY <1>1 DEF Counted
  <1> HIDE DEF m
  <1>4. ASSUME NEW k \in 1 .. n
        PROVE  /\ m[k] \in SegmentType
               /\ m[k].seq = w.segs[k].seq /\ m[k].len = w.segs[k].len
               /\ m[k].pos = w.segs[k].pos
               /\ m[k].acked <=> w.segs[k].acked
    <2>1. w.segs[k] \in SegmentType
      BY <1>1, SegmentIs
    <2>2. CASE k \notin passed
      BY <1>2, <2>1, <2>2
    <2>3. CASE k \in passed
      <3> DEFINE d == Least(w.segs[k].ucDupAckCount + 1, D + 1)
                 t == IF k \in asked THEN 0 ELSE w.segs[k].ucTransmitCount
      <3>1. w.segs[k].ucDupAckCount \in 0 .. D + 1 /\ D \in Nat
            /\ w.segs[k].ucTransmitCount \in 0 .. Last /\ Last \in Nat
        BY <2>1, TransmitAssumption, SMT DEF SegmentType, Last
      <3>2. d \in 0 .. D + 1
        BY <3>1, SMT DEF Least
      <3>3. t \in 0 .. Last
        BY <3>1, SMT
      <3>4. m[k] = [w.segs[k] EXCEPT !.ucDupAckCount = d, !.ucTransmitCount = t]
        BY <1>2, <2>3
      <3> HIDE DEF d, t
      <3> QED  BY <2>1, <3>2, <3>3, <3>4 DEF SegmentType
    <2> QED  BY <2>2, <2>3
  <1>5. m \in [1 .. n -> SegmentType]
    BY <1>3, <1>4
  <1>6. m \in Seq(SegmentType) /\ Len(m) = n
    BY <1>1, <1>5, FunctionIsSeq
  <1> QED  BY <1>4, <1>6 DEF AllSame, m

\* When segments change where they wait but not where they stand, everything
\* is in its place still.
LEMMA Rearranged ==
    ASSUME NEW w, NEW left, NEW mid, NEW tail, NEW base, NEW has,
           Good(w, left, mid, tail, base, has),
           NEW u \in WindowType, u.current = w.current, u.next = w.next,
           AllSame(u.segs, w.segs),
           \A k \in 1 .. Len(w.segs) : u.segs[k].acked <=> w.segs[k].acked,
           Dropped(u, w, {})
    PROVE  Good(u, left, mid, tail, base, has)
           /\ SentUpTo(u, mid) = SentUpTo(w, mid)
  <1> DEFINE n == Len(w.segs)
             none == 0
             nobody == {}
  <1>1. /\ w \in WindowType /\ Len(w.segs) <= SegCount
        /\ w.current = SeqOf(left) /\ w.next = SeqOf(mid)
        /\ Chained(w.segs, left, mid) /\ Placed(w.segs, tail, base)
        /\ AckedAreHeld(w.segs, has) /\ Queues(w)
    BY DEF Good
  <1>2. /\ w.segs \in Seq(SegmentType) /\ n \in Nat /\ u.segs \in Seq(SegmentType)
    BY <1>1, WindowIs
  <1>3. SentCount(w) \in 0 .. n
    BY SentIs
  <1>4. /\ n - none = n /\ none \in 0 .. SentCount(w)
        /\ \A i \in 1 .. n : none + i = i
        /\ \A i \in 1 .. none : FALSE
    BY <1>2, <1>3, SMT
  <1>5. nobody \in SUBSET (1 .. SentCount(w))
    OBVIOUS
  <1>6. Dropped(u, w, {w.segs[k].seq : k \in nobody})
    <2>1. {w.segs[k].seq : k \in nobody} = {}
      OBVIOUS
    <2> QED  BY <2>1
  <1>7. \A k : k \notin nobody
    OBVIOUS
  <1> HIDE DEF none, nobody
  <1>8. Len(u.segs) = Len(w.segs) - none
    BY <1>4 DEF AllSame
  <1>9. ASSUME NEW i \in 1 .. Len(w.segs) - none
        PROVE  /\ u.segs[i].seq = w.segs[none + i].seq
               /\ u.segs[i].len = w.segs[none + i].len
               /\ u.segs[i].acked <=> w.segs[none + i].acked \/ none + i \in nobody
    BY <1>4, <1>7 DEF AllSame
  <1>10. 1 .. none \subseteq nobody /\ none \in 0 .. SentCount(w)
    BY <1>4
  <1>11. Queues(u) /\ SentUpTo(u, mid) = SentUpTo(w, mid)
    BY <1>1, <1>5, <1>6, <1>8, <1>9, <1>10, QueuesAfter
  <1>12. Chained(u.segs, left, mid) /\ Placed(u.segs, tail, base)
    BY <1>1, <1>2, SameChain
  <1>13. AckedAreHeld(u.segs, has) /\ Len(u.segs) <= SegCount
    <2>1. ASSUME NEW k \in 1 .. n
          PROVE  At(u.segs[k]) = At(w.segs[k]) /\ Behind(u.segs[k]) = Behind(w.segs[k])
      BY DEF AllSame, At, Behind
    <2>2. Len(u.segs) = n
      BY DEF AllSame
    <2> QED  BY <1>1, <2>1, <2>2 DEF AckedAreHeld
  <1> QED  BY <1>1, <1>11, <1>12, <1>13 DEF Good

LEMMA FastIs ==
    ASSUME NEW w, NEW left, NEW mid, NEW tail, NEW base, NEW has,
           Good(w, left, mid, tail, base, has), NEW first
    PROVE  /\ Good(prvTCPWindowFastRetransmit(w, first), left, mid, tail, base, has)
           /\ SentUpTo(prvTCPWindowFastRetransmit(w, first), mid) = SentUpTo(w, mid)
  <1> DEFINE passed == Passed(w, first)
             asked == {k \in passed : w.segs[k].ucDupAckCount + 1
                                        = DUPLICATE_ACKS_BEFORE_FAST_RETRANSMIT}
             again == {w.segs[k].seq : k \in asked}
             u == prvTCPWindowFastRetransmit(w, first)
             counted == Counted(w, passed, asked)
             wait == Without(w.xWaitQueue, again)
             within == Within(w.xWaitQueue, again)
             priority == w.xPriorityQueue \o within
  <1>1. w \in WindowType /\ Queues(w)
    BY DEF Good
  <1>2. u = [w EXCEPT !.segs = counted, !.xWaitQueue = wait,
                      !.xPriorityQueue = priority]
    BY DEF prvTCPWindowFastRetransmit
  <1>3. /\ counted \in Seq(SegmentType) /\ AllSame(counted, w.segs)
        /\ \A k \in 1 .. Len(w.segs) : counted[k].acked <=> w.segs[k].acked
    BY <1>1, CountedIs
  <1> HIDE DEF u, counted, again
  <1>4. w.xWaitQueue \in Seq(Seqs) /\ w.xPriorityQueue \in Seq(Seqs)
    BY <1>1, WindowIs
  <1>5. /\ wait \in Seq(Seqs) /\ Members(wait) = Members(w.xWaitQueue) \ again
        /\ Once(w.xWaitQueue) => Once(wait)
    BY <1>4, WithoutIs
  <1>6. /\ within \in Seq(Seqs)
        /\ Members(within) = Members(w.xWaitQueue) \cap again
        /\ Once(w.xWaitQueue) => Once(within)
    BY <1>4, WithinIs
  <1> HIDE DEF wait, within
  <1>7. /\ Once(w.xPriorityQueue) /\ Once(w.xWaitQueue)
        /\ Members(w.xPriorityQueue) \cap Members(w.xWaitQueue) = {}
    BY <1>1 DEF Queues
  <1>8. /\ priority \in Seq(Seqs)
        /\ Members(priority) = Members(w.xPriorityQueue) \cup Members(within)
        /\ Once(priority)
    <2>1. Members(w.xPriorityQueue) \cap Members(within) = {}
      BY <1>6, <1>7
    <2> QED  BY <1>4, <1>6, <1>7, <2>1, ConcatIs
  <1> HIDE DEF priority
  <1>9. /\ u \in WindowType /\ u.segs = counted /\ u.current = w.current
        /\ u.next = w.next /\ u.xTxQueue = w.xTxQueue /\ u.open = w.open
        /\ u.xWaitQueue = wait /\ u.xPriorityQueue = priority
    BY <1>1, <1>2, <1>3, <1>5, <1>8 DEF WindowType
  <1>10. Dropped(u, w, {})
    <2>1. Members(priority) \cap Members(wait) = {}
      BY <1>5, <1>6, <1>7, <1>8
    <2>2. Members(priority) \cup Members(wait)
             = (Members(w.xPriorityQueue) \cup Members(w.xWaitQueue)) \ {}
      BY <1>5, <1>6, <1>8
    <2> QED  BY <1>5, <1>7, <1>8, <1>9, <2>1, <2>2 DEF Dropped, Waiting
  <1>11. Good(u, left, mid, tail, base, has)
         /\ SentUpTo(u, mid) = SentUpTo(w, mid)
    BY <1>3, <1>9, <1>10, Rearranged
  <1> QED  BY <1>11 DEF u

-----------------------------------------------------------------------------
(* Cutting the stream into segments.                                         *)

\* So many pieces of m bytes make n bytes, the last of which may be shorter.
LEMMA PieceCount ==
    ASSUME NEW n \in Nat, NEW m \in Nat, m > 0
    PROVE  LET q == (n + m - 1) \div m
           IN  /\ q \in Nat
               /\ q = 0 <=> n = 0
               /\ n <= q * m
               /\ q > 0 => (q - 1) * m < n
  <1> DEFINE q == (n + m - 1) \div m
  <1>1. /\ q \in Int
        /\ m * q <= n + m - 1 /\ n + m - 1 < m * q + m
    BY SMT
  <1> HIDE DEF q
  <1>2. q * m = m * q /\ (q - 1) * m = m * q - m
    BY <1>1, SMT
  <1>3. q >= 0
    <2>1. CASE q < 0
      <3>1. m * q <= 0 - m
        <4>1. q + 1 <= 0
          BY <1>1, <2>1, SMT
        <4>2. m * (q + 1) <= 0
          BY <1>1, <4>1, SMT
        <4>3. m * (q + 1) = m * q + m
          BY <1>1, SMT
        <4> QED  BY <1>1, <4>2, <4>3, SMT
      <3> QED  BY <1>1, <3>1, SMT
    <2> QED  BY <1>1, <2>1, SMT
  <1>4. q = 0 <=> n = 0
    <2>1. CASE q = 0
      BY <1>1, <2>1, SMT
    <2>2. CASE q > 0
      <3>1. m * q >= m
        <4>1. q >= 1
          BY <1>1, <2>2, SMT
        <4>2. m * (q - 1) >= 0
          BY <1>1, <4>1, SMT
        <4>3. m * (q - 1) = m * q - m
          BY <1>1, SMT
        <4> QED  BY <1>1, <4>2, <4>3, SMT
      <3> QED  BY <1>1, <2>2, <3>1, SMT
    <2> QED  BY <1>1, <1>3, <2>1, <2>2, SMT
  <1>5. n <= q * m /\ (q > 0 => (q - 1) * m < n)
    BY <1>1, <1>2, SMT
  <1>6. q \in Nat
    BY <1>1, <1>3, SMT
  <1> QED  BY <1>4, <1>5, <1>6 DEF q

LEMMA Multiples ==
    ASSUME NEW m \in Nat, NEW j \in Int, NEW k \in Int, j <= k
    PROVE  /\ j * m \in Int /\ k * m \in Int /\ j * m <= k * m
           /\ (j - 1) * m = j * m - m
           /\ j >= 0 => j * m \in Nat
  <1>1. (k - j) * m >= 0
    <2>1. k - j \in Nat
      BY SMT
    <2> QED  BY <2>1, SMT
  <1>2. (k - j) * m = k * m - j * m
    BY SMT
  <1>3. j * m \in Int /\ k * m \in Int /\ (j - 1) * m = j * m - m
    BY SMT
  <1>4. j >= 0 => j * m >= 0
    BY SMT
  <1> QED  BY <1>1, <1>2, <1>3, <1>4, SMT

\* Segments that follow the last one make the chain longer.
LEMMA ChainConcat ==
    ASSUME NEW s \in Seq(SegmentType), NEW t \in Seq(SegmentType),
           NEW from, NEW at, NEW to, Chained(s, from, at), Chained(t, at, to)
    PROVE  Chained(s \o t, from, to)
  <1> DEFINE c == s \o t
             n == Len(s)
  <1>1. /\ c \in Seq(SegmentType) /\ Len(c) = Len(s) + Len(t)
        /\ \A i \in 1 .. Len(s) + Len(t) :
              c[i] = IF i <= Len(s) THEN s[i] ELSE t[i - Len(s)]
        /\ n \in Nat /\ Len(t) \in Nat
    BY ConcatProperties
  <1>2. /\ from \in Nat /\ at \in Nat /\ to \in Nat /\ from <= at /\ at <= to
        /\ to <= StreamLength /\ from \in 0 .. to /\ to \in 0 .. StreamLength
    BY Sizes, SMT DEF Chained
  <1>3. /\ s = <<>> => at = from
        /\ t = <<>> => to = at
    BY DEF Chained
  <1> HIDE DEF c
  <1>4. c = <<>> => to = from
    <2> SUFFICES ASSUME c = <<>> PROVE to = from
      OBVIOUS
    <2>1. Len(c) = 0
      OBVIOUS
    <2>2. n = 0 /\ Len(t) = 0
      <3> HIDE DEF n
      <3> QED  BY <1>1, <2>1, SMT DEF n
    <2>3. s = <<>> /\ t = <<>>
      BY <2>2, EmptySeq
    <2> QED  BY <1>3, <2>3
  <1>5. ASSUME NEW k \in 1 .. Len(c)
        PROVE  /\ At(c[k]) \in from .. to /\ c[k].seq = SeqOf(At(c[k]))
               /\ At(c[k]) = IF k = 1 THEN from ELSE Behind(c[k - 1])
               /\ k = Len(c) => Behind(c[k]) = to
    <2>1. k \in 1 .. Len(s) + Len(t) /\ k \in Nat
      BY <1>1, SMT
    <2>2. CASE k <= n
      <3>1. k \in 1 .. Len(s) /\ c[k] = s[k]
        BY <1>1, <2>1, <2>2, SMT
      <3>2. /\ At(s[k]) \in from .. at /\ s[k].seq = SeqOf(At(s[k]))
            /\ At(s[k]) = IF k = 1 THEN from ELSE Behind(s[k - 1])
            /\ k = Len(s) => Behind(s[k]) = at
        BY <3>1 DEF Chained
      <3>3. k # 1 => c[k - 1] = s[k - 1]
        <4> SUFFICES ASSUME k # 1 PROVE c[k - 1] = s[k - 1]
          OBVIOUS
        <4>1. k - 1 \in 1 .. Len(s) + Len(t) /\ k - 1 <= Len(s)
          BY <1>1, <2>1, <2>2, SMT
        <4> QED  BY <1>1, <4>1
      <3>4. k = Len(c) => Behind(c[k]) = to
        <4> SUFFICES ASSUME k = Len(c) PROVE Behind(c[k]) = to
          OBVIOUS
        <4>1. k = Len(s) /\ Len(t) = 0
          BY <1>1, <2>1, <2>2, SMT
        <4>2. t = <<>>
          BY <4>1, EmptySeq
        <4> QED  BY <1>3, <3>1, <3>2, <4>1, <4>2
      <3>5. At(c[k]) \in from .. to
        BY <1>2, <3>1, <3>2, SMT
      <3> QED  BY <3>1, <3>2, <3>3, <3>4, <3>5
    <2>3. CASE ~ (k <= n)
      <3> DEFINE j == k - Len(s)
      <3>1. c[k] = t[j]
        BY <1>1, <2>1, <2>3
      <3>2. /\ j \in 1 .. Len(t)
            /\ k = Len(c) <=> j = Len(t)
        BY <1>1, <2>1, <2>3, SMT
      <3>3. /\ At(t[j]) \in at .. to /\ t[j].seq = SeqOf(At(t[j]))
            /\ At(t[j]) = IF j = 1 THEN at ELSE Behind(t[j - 1])
            /\ j = Len(t) => Behind(t[j]) = to
        <4>1. j \in 1 .. Len(t)
          BY <1>1, <2>1, <2>3, SMT
        <4> HIDE DEF j
        <4> QED  BY <4>1 DEF Chained
      <3>4. At(c[k]) \in from .. to
        <4>1. At(t[j]) \in from .. to
          <5> HIDE DEF j
          <5> QED  BY <1>2, <3>3, SMT
        <4> QED  BY <3>1, <4>1
      <3>5. At(c[k]) = IF k = 1 THEN from ELSE Behind(c[k - 1])
        <4>1. CASE j # 1
          <5>1. k # 1 /\ k - 1 \in 1 .. Len(s) + Len(t) /\ ~ (k - 1 <= Len(s))
                /\ (k - 1) - Len(s) = j - 1
            BY <1>1, <2>1, <2>3, <4>1, SMT
          <5>2. c[k - 1] = t[j - 1]
            BY <1>1, <5>1
          <5> QED  BY <3>1, <3>3, <4>1, <5>1, <5>2
        <4>2. CASE j = 1 /\ k = 1
          <5>1. Len(s) = 0
            BY <1>1, <4>2, SMT
          <5>2. at = from
            BY <1>3, <5>1, EmptySeq
          <5> QED  BY <3>1, <3>3, <4>2, <5>2
        <4>3. CASE j = 1 /\ k # 1
          <5>1. k - 1 = Len(s) /\ k - 1 \in 1 .. Len(s) + Len(t) /\ k - 1 <= Len(s)
                /\ Len(s) \in 1 .. Len(s)
            BY <1>1, <2>1, <4>3, SMT
          <5>2. c[k - 1] = s[Len(s)]
            BY <1>1, <5>1
          <5>3. Behind(s[Len(s)]) = at
            BY <5>1 DEF Chained
          <5> QED  BY <3>1, <3>3, <4>3, <5>2, <5>3
        <4> QED  BY <4>1, <4>2, <4>3
      <3> HIDE DEF j
      <3> QED  BY <3>1, <3>2, <3>3, <3>4, <3>5
    <2> QED  BY <2>2, <2>3
  <1>6. Chained(c, from, to)
    BY <1>2, <1>4, <1>5 DEF Chained
  <1> QED  BY <1>6 DEF c

\* The last segment grows by bytes that follow it.
LEMMA ChainGrows ==
    ASSUME NEW s \in Seq(SegmentType), NEW t \in Seq(SegmentType),
           NEW from, NEW at, NEW n \in Nat, Chained(s, from, at), s # <<>>,
           at + n <= StreamLength,
           Len(t) = Len(s),
           \A k \in 1 .. Len(s) :
              /\ t[k].seq = s[k].seq
              /\ t[k].len = IF k = Len(s) THEN s[k].len + n ELSE s[k].len
    PROVE  Chained(t, from, at + n)
  <1>1. /\ from \in Nat /\ at \in Nat /\ from <= at /\ Len(s) \in Nat
        /\ from \in 0 .. at + n /\ at + n \in 0 .. StreamLength
    BY Sizes, SMT DEF Chained
  <1>2. Len(s) # 0
    BY EmptySeq
  <1>3. t # <<>>
    BY <1>2
  <1>4. ASSUME NEW k \in 1 .. Len(s)
        PROVE  /\ At(t[k]) = At(s[k])
               /\ k # Len(s) => Behind(t[k]) = Behind(s[k])
    BY DEF At, Behind
  <1>5. ASSUME NEW k \in 1 .. Len(t)
        PROVE  /\ At(t[k]) \in from .. at + n /\ t[k].seq = SeqOf(At(t[k]))
               /\ At(t[k]) = IF k = 1 THEN from ELSE Behind(t[k - 1])
               /\ k = Len(t) => Behind(t[k]) = at + n
    <2>1. k \in 1 .. Len(s) /\ (k # 1 => k - 1 \in 1 .. Len(s) /\ k - 1 # Len(s))
      BY <1>1, SMT
    <2>2. /\ At(s[k]) \in from .. at /\ s[k].seq = SeqOf(At(s[k]))
          /\ At(s[k]) = IF k = 1 THEN from ELSE Behind(s[k - 1])
          /\ k = Len(s) => Behind(s[k]) = at
      BY <2>1 DEF Chained
    <2>3. At(t[k]) \in from .. at + n
      BY <1>1, <1>4, <2>1, <2>2, SMT
    <2>4. k = Len(s) => Behind(t[k]) = at + n
      <3> SUFFICES ASSUME k = Len(s) PROVE Behind(t[k]) = at + n
        OBVIOUS
      <3>1. t[k].len = s[k].len + n /\ At(t[k]) = At(s[k])
        BY <1>4, <2>1
      <3>2. At(s[k]) + s[k].len = at
        BY <2>2 DEF Behind
      <3>3. At(s[k]) \in Nat /\ s[k].len \in Nat
        BY <2>1, ChainIs, SegmentIs
      <3>4. At(s[k]) + (s[k].len + n) = at + n
        BY <3>2, <3>3, SMT
      <3> QED  BY <3>1, <3>4 DEF Behind
    <2> QED  BY <1>4, <2>1, <2>2, <2>3, <2>4
  <1> QED  BY <1>1, <1>3, <1>5 DEF Chained

\* New segments cover the bytes from x on, as many as there are segments for.
LEMMA CutIs ==
    ASSUME NEW x \in 0 .. StreamLength, NEW n \in Nat, x + n <= StreamLength,
           NEW tail \in Index, NEW d \in Nat, d + n <= LENGTH - 1,
           NEW new \in Nat, new <= (n + MSS - 1) \div MSS
    PROVE  LET added == Cut(SeqOf(x), Wrap(tail + d), n, new)
           IN  /\ added \in Seq(SegmentType) /\ Len(added) = new
               /\ Chained(added, x, x + Least(n, new * MSS))
               /\ \A k \in 1 .. new :
                     /\ ~ added[k].acked
                     /\ added[k].pos = Wrap(tail + (d + (At(added[k]) - x)))
  <1> DEFINE added == Cut(SeqOf(x), Wrap(tail + d), n, new)
             q == (n + MSS - 1) \div MSS
             done == Least(n, new * MSS)
  <1>1. MSS \in Nat /\ MSS > 0
    BY PoolSizes
  <1>2. /\ q \in Nat
        /\ q = 0 <=> n = 0
        /\ n <= q * MSS
        /\ q > 0 => (q - 1) * MSS < n
    BY <1>1, PieceCount
  <1> HIDE DEF q
  <1>3. new <= q
    BY DEF q
  <1>4. ASSUME NEW k \in 1 .. new
        PROVE  /\ (k - 1) * MSS \in Nat /\ (k - 1) * MSS < n
               /\ k * MSS = (k - 1) * MSS + MSS
               /\ k # new => k * MSS < n
               /\ k = new => k * MSS = new * MSS
    <2>1. /\ k \in Int /\ q \in Int /\ k - 1 \in Int /\ q - 1 \in Int
          /\ k - 1 <= q - 1 /\ q > 0 /\ 0 <= k - 1
          /\ k # new => k <= q - 1
      BY <1>2, <1>3, SMT
    <2>2. /\ (k - 1) * MSS \in Nat /\ (k - 1) * MSS <= (q - 1) * MSS
          /\ (q - 1) * MSS \in Int
      BY <1>1, <2>1, Multiples
    <2>3. k # new => k * MSS <= (q - 1) * MSS
      BY <1>1, <2>1, Multiples
    <2>4. k * MSS \in Int /\ (k - 1) * MSS = k * MSS - MSS
      <3>1. k <= k
        BY <2>1, SMT
      <3> QED  BY <1>1, <2>1, <3>1, Multiples
    <2> DEFINE a == (k - 1) * MSS
               b == k * MSS
               z == (q - 1) * MSS
    <2>5. z < n
      BY <1>2, <2>1
    <2>6. a \in Nat /\ a <= z /\ z \in Int /\ (k # new => b <= z) /\ b \in Int
          /\ a = b - MSS
      BY <2>2, <2>3, <2>4
    <2> HIDE DEF a, b, z
    <2>7. a < n /\ b = a + MSS /\ (k # new => b < n)
      BY <1>1, <2>5, <2>6, SMT
    <2> QED  BY <2>6, <2>7 DEF a, b
  <1>5. new * MSS \in Nat /\ done \in Nat /\ done <= n
    <2>1. new * MSS \in Nat
      <3>1. new \in Int /\ new <= new /\ new >= 0
        BY SMT
      <3> QED  BY <1>1, <3>1, Multiples
    <2> DEFINE z == new * MSS
    <2> HIDE DEF z
    <2>2. Least(n, z) \in Nat /\ Least(n, z) <= n
      BY <2>1, SMT DEF z, Least
    <2> QED  BY <2>1, <2>2 DEF z
  <1>6. new = 0 => done = 0
    <2> SUFFICES ASSUME new = 0 PROVE done = 0
      OBVIOUS
    <2> DEFINE z == new * MSS
    <2>1. z = 0
      BY <1>1, SMT
    <2>2. done = Least(n, z)
      OBVIOUS
    <2> HIDE DEF z, done
    <2> QED  BY <2>1, <2>2, SMT DEF Least
  <1>7. new # 0 => new \in 1 .. new
    BY SMT
  <1> DEFINE a(k) == (k - 1) * MSS
             len(k) == Least(MSS, n - a(k))
  <1>8. ASSUME NEW k \in 1 .. new
        PROVE  /\ a(k) \in Nat /\ a(k) < n
               /\ len(k) \in 1 .. MSS /\ len(k) \in Nat
               /\ k = 1 => a(k) = 0
               /\ k # 1 => a(k) = a(k - 1) + len(k - 1)
               /\ k = new => a(k) + len(k) = done
               /\ a(k) + len(k) <= n
    <2>1. /\ a(k) \in Nat /\ a(k) < n
          /\ k * MSS = a(k) + MSS
          /\ k = new => k * MSS = new * MSS
      BY <1>4
    <2>2. k = 1 => a(k) = 0
      <3>1. k = 1 => (k - 1) = 0
        BY SMT
      <3>2. 0 * MSS = 0
        BY <1>1, SMT
      <3> QED  BY <3>1, <3>2
    <2>3. k # 1 => a(k) = a(k - 1) + len(k - 1)
      <3> SUFFICES ASSUME k # 1 PROVE a(k) = a(k - 1) + len(k - 1)
        OBVIOUS
      <3>1. k - 1 \in 1 .. new /\ k - 1 # new
        BY SMT
      <3>2. /\ a(k - 1) \in Nat /\ a(k) = a(k - 1) + MSS
            /\ a(k) < n
        BY <1>4, <2>1, <3>1
      <3> HIDE DEF a
      <3>3. len(k - 1) = MSS
        BY <1>1, <3>2, SMT DEF Least
      <3> QED  BY <3>2, <3>3
    <2>4. k = new => a(k) + len(k) = done
      <3> SUFFICES ASSUME k = new PROVE a(k) + len(k) = done
        OBVIOUS
      <3> DEFINE z == new * MSS
      <3>1. z = a(k) + MSS
        BY <2>1
      <3>2. done = Least(n, z)
        OBVIOUS
      <3> HIDE DEF a, z, done
      <3> QED  BY <1>1, <2>1, <3>1, <3>2, SMT DEF Least
    <2> HIDE DEF a
    <2>5. len(k) \in 1 .. MSS /\ a(k) + len(k) <= n /\ len(k) \in Nat
      BY <1>1, <2>1, SMT DEF Least
    <2> QED  BY <2>1, <2>2, <2>3, <2>4, <2>5
  <1>9. ASSUME NEW k \in 1 .. new
        PROVE  added[k] = Segment(Plus(SeqOf(x), a(k)), len(k),
                                  Wrap(Wrap(tail + d) + a(k)))
    BY DEF Cut
  <1>10. added = [k \in 1 .. new |-> added[k]]
    BY DEF Cut
  <1>11. /\ x \in Nat /\ StreamLength \in Nat /\ x + n <= StreamLength
         /\ LENGTH \in Nat /\ tail \in 0 .. LENGTH - 1
    BY Sizes, SMT DEF Index
  <1> HIDE DEF added, a, len, done
  <1>12. ASSUME NEW k \in 1 .. new
         PROVE  /\ added[k] \in SegmentType
                /\ added[k].seq = SeqOf(x + a(k)) /\ At(added[k]) = x + a(k)
                /\ added[k].len = len(k) /\ ~ added[k].acked
                /\ added[k].pos = Wrap(tail + (d + a(k)))
    <2>1. /\ x + a(k) \in 0 .. StreamLength + 1 /\ x + a(k) <= StreamLength + 1
          /\ x \in 0 .. StreamLength + 1 /\ a(k) \in Nat
      BY <1>8, <1>11, SMT
    <2>2. Plus(SeqOf(x), a(k)) = SeqOf(x + a(k))
      BY <2>1, PlusIs
    <2>3. /\ Wrap(Wrap(tail + d) + a(k)) = Wrap(tail + (d + a(k)))
          /\ Wrap(tail + (d + a(k))) \in Index
      BY <1>8, <1>11, SMT DEF Wrap, Index
    <2>4. SeqOf(x + a(k)) \in Seqs
      BY <2>1, SeqOfIs
    <2>5. added[k] = Segment(SeqOf(x + a(k)), len(k), Wrap(tail + (d + a(k))))
      BY <1>9, <2>2, <2>3
    <2>6. 0 \in 0 .. Last /\ 0 \in 0 .. DUPLICATE_ACKS_BEFORE_FAST_RETRANSMIT + 1
      BY TransmitAssumption, SMT DEF Last
    <2>7. added[k] \in SegmentType
      BY <1>8, <2>3, <2>4, <2>5, <2>6 DEF Segment, SegmentType
    <2>8. /\ added[k].seq = SeqOf(x + a(k))
          /\ added[k].len = len(k) /\ ~ added[k].acked
          /\ added[k].pos = Wrap(tail + (d + a(k)))
      BY <2>5 DEF Segment
    <2>9. At(added[k]) = x + a(k)
      BY <2>1, <2>8, FirstByte DEF At
    <2> QED  BY <2>7, <2>8, <2>9
  <1>13. added \in Seq(SegmentType) /\ Len(added) = new
    <2>1. added \in [1 .. new -> SegmentType]
      BY <1>10, <1>12
    <2> QED  BY <2>1, FunctionIsSeq
  <1>14. Chained(added, x, x + done)
    <2>1. /\ x \in 0 .. x + done /\ x + done \in 0 .. StreamLength
      BY <1>5, <1>11, SMT
    <2>2. added = <<>> => x + done = x
      <3> SUFFICES ASSUME added = <<>> PROVE x + done = x
        OBVIOUS
      <3>1. new = 0
        BY <1>13
      <3> QED  BY <1>6, <1>11, <3>1, SMT
    <2>3. ASSUME NEW k \in 1 .. Len(added)
          PROVE  /\ At(added[k]) \in x .. x + done
                 /\ added[k].seq = SeqOf(At(added[k]))
                 /\ At(added[k]) = IF k = 1 THEN x ELSE Behind(added[k - 1])
                 /\ k = Len(added) => Behind(added[k]) = x + done
      <3>1. k \in 1 .. new
        BY <1>13
      <3>2. added[k].seq = SeqOf(At(added[k])) /\ At(added[k]) = x + a(k)
            /\ Behind(added[k]) = x + a(k) + len(k)
        BY <1>12, <3>1 DEF Behind
      <3>3. k = 1 => At(added[k]) = x
        BY <1>8, <1>11, <3>1, <3>2, SMT
      <3>4. k # 1 => At(added[k]) = Behind(added[k - 1])
        <4> SUFFICES ASSUME k # 1 PROVE At(added[k]) = Behind(added[k - 1])
          OBVIOUS
        <4>1. k - 1 \in 1 .. new
          BY <3>1, SMT
        <4>2. Behind(added[k - 1]) = x + a(k - 1) + len(k - 1)
              /\ a(k - 1) \in Nat /\ len(k - 1) \in Nat
          BY <1>8, <1>12, <4>1 DEF Behind
        <4>3. a(k) = a(k - 1) + len(k - 1)
          BY <1>8, <3>1
        <4> QED  BY <1>11, <3>2, <4>2, <4>3, SMT
      <3>5. k = Len(added) => Behind(added[k]) = x + done
        <4> SUFFICES ASSUME k = Len(added) PROVE Behind(added[k]) = x + done
          OBVIOUS
        <4>1. a(k) + len(k) = done /\ a(k) \in Nat /\ len(k) \in Nat
          BY <1>8, <1>13, <3>1
        <4> QED  BY <1>11, <3>2, <4>1, SMT
      <3>6. a(k) \in Nat /\ a(k) <= done
        <4>1. CASE k = new
          <5>1. a(k) + len(k) = done /\ a(k) \in Nat /\ len(k) \in Nat
            BY <1>8, <3>1, <4>1
          <5> QED  BY <5>1, SMT
        <4>2. CASE k # new
          <5>1. /\ a(k) \in Nat /\ a(k) < n /\ k * MSS = a(k) + MSS /\ k * MSS < n
            BY <1>4, <1>8, <3>1, <4>2 DEF a
          <5>2. k * MSS <= new * MSS /\ new * MSS \in Int
            <6>1. k \in Int /\ new \in Int /\ k <= new
              BY <3>1, SMT
            <6> QED  BY <1>1, <6>1, Multiples
          <5> DEFINE z == new * MSS
                     y == k * MSS
          <5>3. y <= z /\ z \in Int /\ y = a(k) + MSS
            BY <5>1, <5>2
          <5>4. done = Least(n, z)
            BY DEF done
          <5> HIDE DEF y, z
          <5> QED  BY <1>1, <5>1, <5>3, <5>4, SMT DEF Least
        <4> QED  BY <4>1, <4>2
      <3>7. At(added[k]) \in x .. x + done
        BY <1>5, <1>11, <3>2, <3>6, SMT
      <3> QED  BY <3>2, <3>3, <3>4, <3>5, <3>7
    <2> QED  BY <2>1, <2>2, <2>3 DEF Chained
  <1>15. ASSUME NEW k \in 1 .. new
         PROVE  ~ added[k].acked
                /\ added[k].pos = Wrap(tail + (d + (At(added[k]) - x)))
    <2>1. At(added[k]) - x = a(k)
      BY <1>8, <1>11, <1>12, SMT
    <2> QED  BY <1>12, <2>1
  <1> QED  BY <1>13, <1>14, <1>15 DEF added, done

\* The last segment is filled up, when it may still grow.
GrownFrom(t, s, f) ==
    /\ t \in Seq(SegmentType) /\ Len(t) = Len(s)
    /\ \A k \in 1 .. Len(s) :
          /\ t[k].seq = s[k].seq /\ t[k].pos = s[k].pos
          /\ t[k].len = IF k = Len(s) THEN s[k].len + f ELSE s[k].len
          /\ t[k].acked <=> s[k].acked

LEMMA OpenIs ==
    ASSUME NEW w \in WindowType, Queues(w), w.open
    PROVE  /\ w.segs # <<>> /\ Len(w.segs) \in 1 .. Len(w.segs)
           /\ w.xTxQueue # <<>> /\ Len(w.xTxQueue) > 0
           /\ ~ w.segs[Len(w.segs)].acked
           /\ w.segs[Len(w.segs)].len < MSS
           /\ w.segs[Len(w.segs)].len \in Nat
           /\ w.segs[Len(w.segs)] \in SegmentType
  <1>1. /\ w.segs \in Seq(SegmentType) /\ w.xTxQueue \in Seq(Seqs)
        /\ Len(w.segs) \in Nat /\ Len(w.xTxQueue) \in Nat
    BY WindowIs
  <1>2. /\ w.xTxQueue # <<>> /\ Len(w.xTxQueue) <= Len(w.segs)
        /\ w.segs[Len(w.segs)].len < MSS
    BY DEF Queues
  <1>3. Len(w.xTxQueue) # 0
    BY <1>1, <1>2, EmptySeq
  <1>4. /\ Len(w.xTxQueue) \in 1 .. Len(w.xTxQueue)
        /\ Len(w.segs) \in 1 .. Len(w.segs) /\ Len(w.segs) # 0
        /\ Len(w.xTxQueue) > 0
        /\ SentCount(w) + Len(w.xTxQueue) = Len(w.segs)
    BY <1>1, <1>2, <1>3, SMT DEF SentCount
  <1>5. ~ w.segs[SentCount(w) + Len(w.xTxQueue)].acked
    BY <1>4 DEF Queues
  <1>6. w.segs # <<>>
    BY <1>4, EmptySeq
  <1>7. w.segs[Len(w.segs)].len \in Nat /\ w.segs[Len(w.segs)] \in SegmentType
    BY <1>1, <1>4, SegmentIs
  <1> QED  BY <1>2, <1>4, <1>5, <1>6, <1>7

LEMMA GrownIs ==
    ASSUME NEW w \in WindowType, Queues(w), NEW n \in Nat
    PROVE  /\ Filled(w, n) \in Nat /\ Filled(w, n) <= n
           /\ Filled(w, n) # 0 => w.open
           /\ GrownFrom(Grown(w, Filled(w, n)), w.segs, Filled(w, n))
  <1> DEFINE f == Filled(w, n)
             s == w.segs
             l == Len(w.segs)
  <1>1. /\ s \in Seq(SegmentType) /\ l \in Nat /\ w.open \in BOOLEAN
        /\ DOMAIN s = 1 .. l
    BY WindowIs
  <1>2. CASE f = 0
    <2>1. \A k \in 1 .. l : s[k].len + f = s[k].len
      <3> SUFFICES ASSUME NEW k \in 1 .. l PROVE s[k].len + f = s[k].len
        OBVIOUS
      <3>1. s[k].len \in Nat
        BY <1>1, SegmentIs
      <3> HIDE DEF f
      <3> QED  BY <1>2, <3>1, SMT
    <2>2. Grown(w, f) = s
      BY <1>2 DEF Grown
    <2> HIDE DEF f
    <2>3. GrownFrom(s, s, f)
      BY <1>1, <2>1 DEF GrownFrom
    <2> QED  BY <1>2, <2>2, <2>3 DEF f
  <1>3. CASE f # 0
    <2>1. w.open /\ f = Least(n, MSS - s[l].len)
      BY <1>3 DEF Filled
    <2>2. /\ l \in 1 .. l /\ s[l].len < MSS /\ s[l].len \in Nat
          /\ s[l] \in SegmentType
      BY <2>1, OpenIs
    <2> DEFINE e == s[l].len
               g == [s[l] EXCEPT !.len = @ + f]
               t == [s EXCEPT ![l].len = @ + f]
    <2>3. f \in Nat /\ f <= n /\ e + f \in 1 .. MSS /\ e + f \in Nat
      <3>1. f = Least(n, MSS - e) /\ e \in Nat /\ e < MSS
        BY <2>1, <2>2
      <3> HIDE DEF f, e
      <3> QED  BY <1>3, <3>1, PoolSizes, SMT DEF Least
    <2>4. Grown(w, f) = t
      BY <1>3 DEF Grown
    <2> HIDE DEF f
    <2>5. /\ g \in SegmentType /\ g.seq = s[l].seq /\ g.pos = s[l].pos
          /\ g.len = e + f /\ g.acked = s[l].acked
      BY <2>2, <2>3 DEF SegmentType
    <2>6. t = [s EXCEPT ![l] = g]
      OBVIOUS
    <2> HIDE DEF g
    <2>7. t \in Seq(SegmentType) /\ Len(t) = l
      BY <1>1, <2>2, <2>5, <2>6
    <2>8. \A k \in 1 .. l : t[k] = IF k = l THEN g ELSE s[k]
      BY <1>1, <2>6
    <2>9. GrownFrom(t, s, f)
      <3> HIDE DEF t
      <3> QED  BY <2>5, <2>7, <2>8 DEF GrownFrom
    <2> QED  BY <2>1, <2>3, <2>4, <2>9 DEF f
  <1> QED  BY <1>2, <1>3

LEMMA GrownChain ==
    ASSUME NEW s \in Seq(SegmentType), NEW t, NEW f \in Nat, GrownFrom(t, s, f),
           f = 0 \/ s # <<>>,
           NEW from, NEW at, Chained(s, from, at), at + f <= StreamLength
    PROVE  /\ Chained(t, from, at + f)
           /\ \A k \in 1 .. Len(s) : At(t[k]) = At(s[k])
  <1>1. /\ t \in Seq(SegmentType) /\ Len(t) = Len(s)
        /\ \A k \in 1 .. Len(s) :
              /\ t[k].seq = s[k].seq
              /\ t[k].len = IF k = Len(s) THEN s[k].len + f ELSE s[k].len
    BY DEF GrownFrom
  <1>2. CASE s # <<>>
    BY <1>1, <1>2, ChainGrows DEF At
  <1>3. CASE s = <<>>
    <2>1. Len(s) = 0 /\ t = <<>>
      BY <1>1, <1>3, EmptySeq
    <2>2. at \in Nat /\ at = from /\ from \in 0 .. at
          /\ at \in 0 .. StreamLength /\ f = 0
      BY <1>3, Sizes, SMT DEF Chained
    <2>3. at + f = at
      BY <2>2, SMT
    <2>4. 1 .. Len(t) = {} /\ 1 .. Len(s) = {}
      BY <1>1, <2>1, SMT
    <2> QED  BY <2>1, <2>2, <2>3, <2>4 DEF Chained
  <1> QED  BY <1>2, <1>3
Joined(c, s, t) ==
    /\ Len(c) = Len(s) + Len(t)
    /\ \A k \in 1 .. Len(s) : c[k] = s[k]
    /\ \A k \in 1 .. Len(t) : c[Len(s) + k] = t[k]

LEMMA ConcatAt ==
    ASSUME NEW S, NEW s \in Seq(S), NEW t \in Seq(S)
    PROVE  s \o t \in Seq(S) /\ Joined(s \o t, s, t)
  <1> DEFINE c == s \o t
  <1>1. /\ c \in Seq(S) /\ Len(c) = Len(s) + Len(t)
        /\ \A i \in 1 .. Len(s) + Len(t) :
              c[i] = IF i <= Len(s) THEN s[i] ELSE t[i - Len(s)]
        /\ Len(s) \in Nat /\ Len(t) \in Nat
    BY ConcatProperties
  <1> HIDE DEF c
  <1>2. /\ \A i \in 1 .. Len(s) : i \in 1 .. Len(s) + Len(t) /\ i <= Len(s)
        /\ \A i \in 1 .. Len(t) : /\ Len(s) + i \in 1 .. Len(s) + Len(t)
                                  /\ ~ (Len(s) + i <= Len(s))
                                  /\ (Len(s) + i) - Len(s) = i
    BY <1>1, SMT
  <1>3. \A k \in 1 .. Len(s) : c[k] = s[k]
    BY <1>1, <1>2
  <1>4. \A k \in 1 .. Len(t) : c[Len(s) + k] = t[k]
    BY <1>1, <1>2
  <1>5. Joined(c, s, t)
    BY <1>1, <1>3, <1>4 DEF Joined
  <1> QED  BY <1>1, <1>5 DEF c

\* What lTCPWindowTxAdd cuts off: the last segment grows, new ones follow it.
AddedSegs(w, segs, added, fill) ==
    /\ segs \in Seq(SegmentType) /\ added \in Seq(SegmentType)
    /\ Len(segs) = Len(w.segs) + Len(added)
    /\ \A k \in 1 .. Len(w.segs) :
          /\ segs[k].seq = w.segs[k].seq
          /\ segs[k].acked <=> w.segs[k].acked
    /\ \A k \in 1 .. Len(added) : segs[Len(w.segs) + k] = added[k]
    /\ \A k \in 1 .. Len(added) : ~ added[k].acked
    /\ fill # 0 => w.open

QueueGrown(queue, before, added) ==
    /\ Len(queue) = Len(before) + Len(added)
    /\ \A k \in 1 .. Len(before) : queue[k] = before[k]
    /\ \A k \in 1 .. Len(added) : queue[Len(before) + k] = added[k].seq

AddedTo(u, w, segs, added) ==
    /\ u.segs = segs /\ u.current = w.current
    /\ QueueGrown(u.xTxQueue, w.xTxQueue, added)
    /\ u.xPriorityQueue = w.xPriorityQueue /\ u.xWaitQueue = w.xWaitQueue
    /\ u.open => /\ w.open \/ Len(added) # 0
                 /\ segs[Len(segs)].len < MSS

\* The transmit queue goes on with the new segments.
LEMMA AddedQueues ==
    ASSUME NEW w \in WindowType, Queues(w), NEW u \in WindowType,
           NEW segs, NEW added, NEW fill, AddedSegs(w, segs, added, fill),
           AddedTo(u, w, segs, added)
    PROVE  /\ Queues(u) /\ SentCount(u) = SentCount(w)
           /\ Len(u.xTxQueue) = Len(w.xTxQueue) + Len(added)
  <1> DEFINE l == Len(w.segs)
             a == Len(added)
             q == Len(w.xTxQueue)
             c == SentCount(w)
             queue == u.xTxQueue
  <1>0. /\ u.segs = segs
        /\ u.xPriorityQueue = w.xPriorityQueue /\ u.xWaitQueue = w.xWaitQueue
        /\ u.open => /\ w.open \/ a # 0
                     /\ segs[Len(segs)].len < MSS
    BY DEF AddedTo
  <1> USE <1>0
  <1>1. /\ l \in Nat /\ q \in Nat /\ w.xTxQueue \in Seq(Seqs)
        /\ w.segs \in Seq(SegmentType)
    BY WindowIs
  <1>2. a \in Nat /\ Len(segs) = l + a /\ segs \in Seq(SegmentType)
    BY DEF AddedSegs
  <1>3. q <= l /\ c = l - q /\ c \in Nat
    BY <1>1, SMT DEF Queues, SentCount
  <1>4. /\ Len(queue) = q + a
        /\ \A k \in 1 .. q : queue[k] = w.xTxQueue[k]
        /\ \A k \in 1 .. a : queue[q + k] = added[k].seq
    BY DEF AddedTo, QueueGrown
  <1>14. /\ Waiting(w) = {w.segs[k].seq : k \in {k \in 1 .. c : ~ w.segs[k].acked}}
         /\ \A k \in 1 .. q : w.xTxQueue[k] = w.segs[c + k].seq
                              /\ ~ w.segs[c + k].acked
         /\ w.open => q > 0
    BY OpenIs DEF Queues
  <1>15. /\ \A k \in 1 .. l : /\ segs[k].seq = w.segs[k].seq
                              /\ segs[k].acked <=> w.segs[k].acked
         /\ \A k \in 1 .. a : segs[l + k] = added[k] /\ ~ added[k].acked
    BY DEF AddedSegs
  <1> HIDE DEF l, a, q, c
  <1>5. SentCount(u) = c
    <2>1. (l + a) - (q + a) = l - q
      BY <1>1, <1>2, SMT
    <2> QED  BY <1>2, <1>3, <1>4, <2>1 DEF SentCount, l, a, q, c
  <1>6. ASSUME NEW k \in 1 .. Len(queue)
        PROVE  queue[k] = u.segs[c + k].seq /\ ~ u.segs[c + k].acked
    <2>1. CASE k <= q
      <3>1. k \in 1 .. q /\ c + k \in 1 .. l
        BY <1>1, <1>2, <1>3, <2>1, SMT
      <3>2. w.xTxQueue[k] = w.segs[c + k].seq /\ ~ w.segs[c + k].acked
        BY <1>14, <3>1
      <3> QED  BY <1>4, <1>15, <3>1, <3>2
    <2>2. CASE ~ (k <= q)
      <3> DEFINE j == k - q
      <3>1. j \in 1 .. a /\ q + j = k /\ l + j = c + k
        BY <1>1, <1>2, <1>3, <1>4, <2>2, SMT
      <3>2. queue[k] = added[j].seq
        <4>1. queue[q + j] = added[j].seq
          BY <1>4, <3>1
        <4> QED  BY <3>1, <4>1
      <3>3. u.segs[c + k] = added[j] /\ ~ added[j].acked
        <4>1. segs[l + j] = added[j] /\ ~ added[j].acked
          BY <1>15, <3>1
        <4> QED  BY <3>1, <4>1
      <3> QED  BY <3>2, <3>3
    <2> QED  BY <2>1, <2>2
  <1>7. \A k \in 1 .. c : /\ u.segs[k].seq = w.segs[k].seq
                          /\ u.segs[k].acked <=> w.segs[k].acked
    <2>1. \A k \in 1 .. c : k \in 1 .. l
      BY <1>1, <1>3, SMT
    <2> QED  BY <1>15, <2>1
  <1>8. {u.segs[k].seq : k \in {k \in 1 .. c : ~ u.segs[k].acked}}
           = {w.segs[k].seq : k \in {k \in 1 .. c : ~ w.segs[k].acked}}
    BY <1>7
  <1>9. u.open => queue # <<>>
    <2> SUFFICES ASSUME u.open PROVE queue # <<>>
      OBVIOUS
    <2>1. w.open => q > 0
      BY <1>14
    <2>2. Len(queue) = q + a /\ (w.open \/ a # 0)
      BY <1>0, <1>4
    <2> HIDE DEF queue
    <2>3. Len(queue) # 0
      BY <1>1, <1>2, <2>1, <2>2, SMT
    <2> QED  BY <2>3, EmptySeq
  <1>10. u.open => u.segs[Len(u.segs)].len < MSS
    OBVIOUS
  <1>11. Len(queue) <= Len(u.segs)
    BY <1>1, <1>2, <1>3, <1>4, SMT
  <1>12. /\ Once(w.xPriorityQueue) /\ Once(w.xWaitQueue)
         /\ Members(w.xPriorityQueue) \cap Members(w.xWaitQueue) = {}
    BY DEF Queues
  <1>13. Waiting(u) = Waiting(w)
    BY DEF Waiting
  <1>16. Queues(u)
    BY <1>5, <1>6, <1>8, <1>9, <1>10, <1>11, <1>12, <1>13, <1>14 DEF Queues
  <1> QED  BY <1>4, <1>5, <1>16 DEF l, a, q, c

LEMMA NewSegmentsIs ==
    ASSUME NEW w \in WindowType, Len(w.segs) <= SegCount,
           NEW n \in Nat, NEW b \in 0 .. Borrowers
    PROVE  /\ NewSegments(w, n, b) \in Nat
           /\ NewSegments(w, n, b) <= (n + MSS - 1) \div MSS
           /\ Len(w.segs) + NewSegments(w, n, b) <= SegCount
           /\ Borrowers < SegCount /\ Len(w.segs) = 0 /\ NewSegments(w, n, b) = 0
                 => n = 0
  <1> DEFINE q == (n + MSS - 1) \div MSS
             l == Len(w.segs)
             p == IF l + b < SegCount THEN SegCount - b - l ELSE 0
             new == NewSegments(w, n, b)
  <1>1. q \in Nat /\ (q = 0 <=> n = 0)
    BY PoolSizes, PieceCount
  <1>2. l \in Nat /\ l <= SegCount /\ b \in Nat /\ b <= Borrowers
    BY PoolSizes, WindowIs, SMT
  <1>3. new = Least(p, q)
    BY DEF NewSegments
  <1> HIDE DEF q, l, new
  <1>4. p \in Nat /\ p + l <= SegCount /\ (Borrowers < SegCount /\ l = 0 => p > 0)
    BY <1>2, PoolSizes, SMT
  <1> HIDE DEF p
  <1>5. /\ new \in Nat /\ new <= q /\ l + new <= SegCount
        /\ Borrowers < SegCount /\ l = 0 /\ new = 0 => n = 0
    BY <1>1, <1>2, <1>3, <1>4, PoolSizes, SMT DEF Least
  <1> QED  BY <1>5 DEF q, l, new

\* A longer window is as good as the one it was made from.
LEMMA AddedIsGood ==
    ASSUME NEW w, NEW left, NEW mid, NEW tail, NEW base, NEW has,
           Good(w, left, mid, tail, base, has),
           NEW u \in WindowType, NEW segs, NEW added, NEW fill, NEW end,
           AddedSegs(w, segs, added, fill),
           AddedTo(u, w, segs, added),
           Len(segs) <= SegCount, u.next = SeqOf(end),
           Chained(segs, left, end), Placed(segs, tail, base),
           fill = 0 /\ Len(added) = 0 => end = mid,
           fill = 0 /\ Len(added) # 0 => At(added[1]) = mid
    PROVE  /\ Good(u, left, end, tail, base, has)
           /\ SentUpTo(u, end) = SentUpTo(w, mid)
  <1> DEFINE l == Len(w.segs)
             a == Len(added)
             q == Len(w.xTxQueue)
             c == SentCount(w)
  <1>0. u.segs = segs /\ u.current = w.current
    BY DEF AddedTo
  <1> USE <1>0
  <1>1. w \in WindowType /\ Queues(w)
        /\ w.current = SeqOf(left) /\ AckedAreHeld(w.segs, has)
        /\ Chained(w.segs, left, mid)
    BY DEF Good
  <1>2. /\ Queues(u) /\ SentCount(u) = SentCount(w)
        /\ Len(u.xTxQueue) = Len(w.xTxQueue) + Len(added)
    BY <1>1, AddedQueues
  <1>3. /\ segs \in Seq(SegmentType) /\ added \in Seq(SegmentType)
        /\ Len(segs) = l + a /\ a \in Nat /\ l \in Nat /\ q \in Nat
        /\ w.segs \in Seq(SegmentType) /\ w.xTxQueue \in Seq(Seqs)
        /\ u.xTxQueue \in Seq(Seqs)
    BY <1>1, WindowIs DEF AddedSegs
  <1>4. /\ \A k \in 1 .. l : At(segs[k]) = At(w.segs[k])
                             /\ (segs[k].acked <=> w.segs[k].acked)
        /\ \A k \in 1 .. a : segs[l + k] = added[k] /\ ~ added[k].acked
        /\ fill # 0 => w.open
    BY DEF AddedSegs, At
  <1>5. AckedAreHeld(segs, has)
    <2>1. ASSUME NEW k \in 1 .. Len(segs), segs[k].acked,
                 NEW i \in At(segs[k]) .. Behind(segs[k]) - 1
          PROVE  i \in has
      <3>1. k <= l
        <4> SUFFICES ASSUME ~ (k <= l) PROVE FALSE
          OBVIOUS
        <4> DEFINE j == k - l
        <4>1. j \in 1 .. a /\ l + j = k
          <5> HIDE DEF l, a
          <5> QED  BY <1>3, SMT
        <4> HIDE DEF j, l, a
        <4> QED  BY <1>4, <2>1, <4>1
      <3>2. k \in 1 .. l /\ w.segs[k].acked /\ At(segs[k]) = At(w.segs[k])
        <4>1. k \in 1 .. l
          <5> HIDE DEF l, a
          <5> QED  BY <1>3, <3>1, SMT
        <4> QED  BY <1>4, <2>1, <4>1
      <3>3. Behind(segs[k]) = Behind(w.segs[k])
        <4>1. CASE k # l \/ a # 0
          <5>1. k + 1 \in 1 .. Len(segs) /\ k + 1 # 1 /\ (k + 1) - 1 = k
            <6> HIDE DEF l, a
            <6> QED  BY <1>3, <3>2, <4>1, SMT
          <5>2. At(segs[k + 1]) = Behind(segs[k])
            BY <5>1 DEF Chained
          <5>3. CASE k # l
            <6>1. k + 1 \in 1 .. l
              <7> HIDE DEF l, a
              <7> QED  BY <1>3, <3>2, <5>3, SMT
            <6>2. At(w.segs[k + 1]) = Behind(w.segs[k])
              BY <1>1, <5>1, <6>1 DEF Chained
            <6> QED  BY <1>4, <5>2, <6>1, <6>2
          <5>4. CASE k = l /\ a # 0
            <6>1. fill = 0
              BY <1>1, <1>4, <3>2, <5>4, OpenIs
            <6>2. 1 \in 1 .. a
              <7> HIDE DEF a
              <7> QED  BY <1>3, <5>4, SMT
            <6>3. At(segs[k + 1]) = mid
              BY <1>4, <5>4, <6>1, <6>2
            <6>4. Behind(w.segs[k]) = mid
              BY <1>1, <3>2, <5>4 DEF Chained
            <6> QED  BY <5>2, <6>3, <6>4
          <5> QED  BY <4>1, <5>3, <5>4
        <4>2. CASE k = l /\ a = 0
          <5>1. fill = 0
            BY <1>1, <1>4, <3>2, <4>2, OpenIs
          <5>2. Len(segs) = l
            <6> HIDE DEF l, a
            <6> QED  BY <1>3, <4>2, SMT
          <5>3. end = mid /\ Behind(segs[k]) = end
            BY <4>2, <5>1, <5>2 DEF Chained
          <5>4. Behind(w.segs[k]) = mid
            BY <1>1, <3>2, <4>2 DEF Chained
          <5> QED  BY <5>3, <5>4
        <4> QED  BY <4>1, <4>2
      <3> QED  BY <1>1, <3>2, <3>3 DEF AckedAreHeld
    <2> QED  BY <2>1 DEF AckedAreHeld
  <1>6. Good(u, left, end, tail, base, has)
    BY <1>1, <1>2, <1>5 DEF Good
  <1>7. c \in 0 .. l /\ c + q = l
    <2>1. q <= l /\ c = l - q
      BY <1>1 DEF Queues, SentCount
    <2> HIDE DEF c, l, q
    <2> QED  BY <1>3, <2>1, SMT
  <1>8. SentUpTo(u, end) = SentUpTo(w, mid)
    <2>1. CASE w.xTxQueue # <<>>
      <3>1. q # 0
        BY <1>3, <2>1, EmptySeq
      <3>2. c + 1 \in 1 .. l /\ q + a # 0
        <4> HIDE DEF c, l, q, a
        <4> QED  BY <1>3, <1>7, <3>1, SMT
      <3>3. u.xTxQueue # <<>>
        BY <1>2, <1>3, <3>2, EmptySeq
      <3> QED  BY <1>2, <1>4, <2>1, <3>2, <3>3 DEF SentUpTo
    <2>2. CASE w.xTxQueue = <<>>
      <3>1. q = 0 /\ fill = 0
        BY <1>1, <1>3, <1>4, <2>2, EmptySeq, OpenIs
      <3>2. CASE a = 0
        <4>1. Len(u.xTxQueue) = 0
          BY <1>2, <3>1, <3>2
        <4>2. u.xTxQueue = <<>>
          BY <1>3, <4>1, EmptySeq
        <4> QED  BY <2>2, <3>1, <3>2, <4>2 DEF SentUpTo
      <3>3. CASE a # 0
        <4>1. q + a # 0 /\ c + 1 = l + 1 /\ 1 \in 1 .. a
          <5> HIDE DEF c, l, q, a
          <5> QED  BY <1>3, <1>7, <3>1, <3>3, SMT
        <4>2. u.xTxQueue # <<>>
          BY <1>2, <1>3, <4>1, EmptySeq
        <4>3. segs[c + 1] = added[1] /\ At(added[1]) = mid
          BY <1>4, <3>1, <4>1
        <4> QED  BY <1>2, <2>2, <4>2, <4>3 DEF SentUpTo
      <3> QED  BY <3>2, <3>3
    <2> QED  BY <2>1, <2>2
  <1> QED  BY <1>6, <1>8

\* lTCPWindowTxAdd keeps the window good, and takes everything when there are
\* segments left for a window without any.
Added(add, w, left, mid, n, tail, has) ==
    /\ add.done \in 0 .. n
    /\ Good(add.window, left, mid + add.done, tail, left, has)
    /\ SentUpTo(add.window, mid + add.done) = SentUpTo(w, mid)
    /\ add.window.xWaitQueue = w.xWaitQueue
    /\ Borrowers < SegCount /\ add.window.segs = <<>> => add.done = n

LEMMA AddIsGood ==
    ASSUME NEW w, NEW left, NEW mid, NEW tail \in Index, NEW has,
           Good(w, left, mid, tail, left, has),
           NEW n \in Nat, mid + n <= StreamLength,
           (mid - left) + n <= LENGTH - 1, NEW b \in 0 .. Borrowers
    PROVE  Added(lTCPWindowTxAdd(w, n, Wrap(tail + (mid - left)), b),
                 w, left, mid, n, tail, has)
  <1> DEFINE pos == Wrap(tail + (mid - left))
             fill == Filled(w, n)
             rest == n - fill
             new == NewSegments(w, rest, b)
             added == Cut(Plus(w.next, fill), Wrap(pos + fill), rest, new)
             grown == Grown(w, fill)
             segs == grown \o added
             z == new * MSS
             part == Least(rest, z)
             done == fill + part
             more == [k \in 1 .. new |-> added[k].seq]
             queue == w.xTxQueue \o more
             open == (w.open \/ new > 0) /\ segs[Len(segs)].len < MSS
             add == lTCPWindowTxAdd(w, n, pos, b)
             u == add.window
             l == Len(w.segs)
             q == Len(w.xTxQueue)
  <1>1. /\ w \in WindowType /\ Queues(w) /\ Len(w.segs) <= SegCount
        /\ w.current = SeqOf(left) /\ w.next = SeqOf(mid)
        /\ Chained(w.segs, left, mid) /\ Placed(w.segs, tail, left)
    BY DEF Good
  <1>2. /\ left \in Nat /\ mid \in Nat /\ left <= mid /\ mid <= StreamLength
        /\ StreamLength \in Nat /\ LENGTH \in Nat /\ tail \in 0 .. LENGTH - 1
    BY <1>1, Sizes, SMT DEF Chained, Index
  <1>3. /\ w.segs \in Seq(SegmentType) /\ l \in Nat /\ q \in Nat
        /\ w.xTxQueue \in Seq(Seqs) /\ w.open \in BOOLEAN
    BY <1>1, WindowIs
  <1>4. /\ fill \in Nat /\ fill <= n /\ (fill # 0 => w.open)
        /\ GrownFrom(grown, w.segs, fill)
    BY <1>1, GrownIs
  <1>5. add = [done |-> done,
               window |-> [w EXCEPT !.segs = segs, !.xTxQueue = queue,
                                    !.open = open, !.next = Plus(w.next, done)]]
    BY DEF lTCPWindowTxAdd
  <1> HIDE DEF add, fill, grown
  <1>6. rest \in Nat /\ n = fill + rest
    BY <1>4, SMT
  <1> HIDE DEF rest
  <1>7. /\ new \in Nat /\ new <= (rest + MSS - 1) \div MSS
        /\ Len(w.segs) + new <= SegCount
        /\ Borrowers < SegCount /\ Len(w.segs) = 0 /\ new = 0 => rest = 0
    BY <1>1, <1>6, NewSegmentsIs
  <1> HIDE DEF new
  <1> DEFINE x == mid + fill
             d == (mid - left) + fill
  <1>8. /\ x \in 0 .. StreamLength /\ x + rest <= StreamLength
        /\ d \in Nat /\ d + rest <= LENGTH - 1
        /\ Wrap(pos + fill) = Wrap(tail + d)
    BY <1>2, <1>4, <1>6, SMT DEF Wrap
  <1>9. Plus(w.next, fill) = SeqOf(x)
    <2>1. mid \in 0 .. StreamLength + 1 /\ mid + fill <= StreamLength + 1
      BY <1>2, <1>4, <1>6, SMT
    <2> QED  BY <1>1, <1>4, <2>1, PlusIs
  <1>10. added = Cut(SeqOf(x), Wrap(tail + d), rest, new)
    BY <1>8, <1>9
  <1> HIDE DEF added
  <1>11. /\ added \in Seq(SegmentType) /\ Len(added) = new
         /\ Chained(added, x, x + part)
         /\ \A k \in 1 .. new :
               /\ ~ added[k].acked
               /\ added[k].pos = Wrap(tail + (d + (At(added[k]) - x)))
    <2> HIDE DEF x, d
    <2>1. LET a == Cut(SeqOf(x), Wrap(tail + d), rest, new)
          IN  /\ a \in Seq(SegmentType) /\ Len(a) = new
              /\ Chained(a, x, x + Least(rest, new * MSS))
              /\ \A k \in 1 .. new :
                    /\ ~ a[k].acked
                    /\ a[k].pos = Wrap(tail + (d + (At(a[k]) - x)))
      BY <1>6, <1>7, <1>8, CutIs
    <2> QED  BY <1>10, <2>1
  <1>12. z \in Nat /\ (new = 0 => z = 0)
    <2>1. new \in Int /\ new <= new /\ new >= 0
      BY <1>7, SMT
    <2>2. z \in Nat
      BY <2>1, PoolSizes, Multiples
    <2>3. new = 0 => z = 0
      <3>1. 0 * MSS = 0
        BY PoolSizes, SMT
      <3> QED  BY <3>1
    <2> QED  BY <2>2, <2>3
  <1> HIDE DEF z
  <1>13. /\ part \in Nat /\ part <= rest /\ (new = 0 => part = 0)
         /\ done \in Nat /\ done <= n /\ mid + done = x + part
         /\ mid + done <= StreamLength
    BY <1>2, <1>4, <1>6, <1>12, SMT DEF Least
  <1>14. /\ grown \in Seq(SegmentType) /\ Len(grown) = l
         /\ \A k \in 1 .. l : /\ grown[k].seq = w.segs[k].seq
                              /\ grown[k].pos = w.segs[k].pos
                              /\ (grown[k].acked <=> w.segs[k].acked)
    BY <1>4 DEF GrownFrom
  <1>15. /\ Chained(grown, left, x)
         /\ \A k \in 1 .. l : At(grown[k]) = At(w.segs[k])
    <2>1. fill = 0 \/ w.segs # <<>>
      BY <1>1, <1>4, OpenIs
    <2>2. mid + fill <= StreamLength
      BY <1>8
    <2> QED  BY <1>1, <1>3, <1>4, <2>1, <2>2, GrownChain
  <1>16. /\ segs \in Seq(SegmentType) /\ Len(segs) = l + new
         /\ \A k \in 1 .. l : segs[k] = grown[k]
         /\ \A k \in 1 .. new : segs[l + k] = added[k]
    <2>1. /\ grown \o added \in Seq(SegmentType)
          /\ Joined(grown \o added, grown, added)
      BY <1>11, <1>14, ConcatAt
    <2> HIDE DEF segs
    <2> QED  BY <1>11, <1>14, <2>1 DEF Joined, segs
  <1>17. Chained(segs, left, mid + done)
    <2>1. Chained(grown \o added, left, x + part)
      BY <1>11, <1>14, <1>15, ChainConcat
    <2> QED  BY <1>13, <2>1
  <1> HIDE DEF segs, done, part, pos
  <1>18. Placed(segs, tail, left)
    <2>1. ASSUME NEW k \in 1 .. Len(segs)
          PROVE  segs[k].pos = Wrap(tail + (At(segs[k]) - left))
      <3>1. CASE k <= l
        <4>1. k \in 1 .. l
          <5> HIDE DEF l
          <5> QED  BY <1>3, <3>1, SMT
        <4>2. w.segs[k].pos = Wrap(tail + (At(w.segs[k]) - left))
          BY <1>1, <4>1 DEF Placed
        <4> QED  BY <1>14, <1>15, <1>16, <4>1, <4>2
      <3>2. CASE ~ (k <= l)
        <4> DEFINE j == k - l
        <4>1. j \in 1 .. new /\ l + j = k
          <5> HIDE DEF l
          <5> QED  BY <1>3, <1>7, <1>16, <3>2, SMT
        <4> HIDE DEF j
        <4>2. segs[k] = added[j]
              /\ added[j].pos = Wrap(tail + (d + (At(added[j]) - x)))
          BY <1>11, <1>16, <4>1
        <4>3. At(added[j]) \in Nat
          BY <1>11, <4>1, ChainIs
        <4> DEFINE at == At(added[j])
        <4>4. d + (at - x) = at - left
          <5>1. at \in Nat
            BY <4>3
          <5> HIDE DEF at
          <5> QED  BY <1>2, <1>4, <5>1, SMT
        <4> QED  BY <4>2, <4>4
      <3> QED  BY <3>1, <3>2
    <2> QED  BY <2>1 DEF Placed
  <1>19. /\ more \in Seq(Seqs) /\ Len(more) = new
         /\ \A k \in 1 .. new : more[k] = added[k].seq
    <2>1. \A k \in 1 .. new : added[k].seq \in Seqs
      BY <1>11, SegmentIs
    <2>2. more \in [1 .. new -> Seqs]
      BY <2>1
    <2> HIDE DEF more
    <2>3. more \in Seq(Seqs) /\ Len(more) = new
      BY <1>7, <2>2, FunctionIsSeq
    <2> QED  BY <2>3 DEF more
  <1> HIDE DEF more
  <1>20. /\ queue \in Seq(Seqs) /\ Len(queue) = q + new
         /\ \A k \in 1 .. q : queue[k] = w.xTxQueue[k]
         /\ \A k \in 1 .. new : queue[q + k] = added[k].seq
    <2> DEFINE t == w.xTxQueue
    <2>1. t \in Seq(Seqs)
      BY <1>3
    <2>2. t \o more \in Seq(Seqs) /\ Joined(t \o more, t, more)
      <3> HIDE DEF t
      <3> QED  BY <1>19, <2>1, ConcatAt
    <2>3. queue \in Seq(Seqs) /\ Joined(queue, t, more)
      BY <2>2
    <2> HIDE DEF queue
    <2> QED  BY <1>19, <2>3 DEF Joined
  <1> HIDE DEF queue
  <1>21. open \in BOOLEAN
    OBVIOUS
  <1>22. Plus(w.next, done) = SeqOf(mid + done) /\ SeqOf(mid + done) \in Seqs
    <2>1. mid \in 0 .. StreamLength + 1 /\ mid + done <= StreamLength + 1
          /\ mid + done \in 0 .. StreamLength + 1
      BY <1>2, <1>13, SMT
    <2> QED  BY <1>1, <1>13, <2>1, PlusIs, SeqOfIs
  <1>23. open => (w.open \/ new # 0) /\ segs[Len(segs)].len < MSS
    <2>1. new > 0 => new # 0
      BY <1>7, SMT
    <2> QED  BY <2>1
  <1> HIDE DEF open
  <1>24. /\ u \in WindowType /\ u.segs = segs /\ u.xTxQueue = queue
         /\ u.open = open /\ u.next = SeqOf(mid + done)
         /\ u.current = w.current /\ u.xWaitQueue = w.xWaitQueue
         /\ u.xPriorityQueue = w.xPriorityQueue /\ add.done = done
    BY <1>1, <1>5, <1>16, <1>20, <1>21, <1>22 DEF WindowType
  <1>25. AddedSegs(w, segs, added, fill)
    BY <1>4, <1>11, <1>14, <1>16 DEF AddedSegs
  <1>26. /\ fill = 0 /\ Len(added) = 0 => mid + done = mid
         /\ fill = 0 /\ Len(added) # 0 => At(added[1]) = mid
    <2>1. fill = 0 => x = mid
      BY <1>2, SMT
    <2>2. new # 0 => 1 \in 1 .. new
      BY <1>7, SMT
    <2>3. new # 0 => At(added[1]) = x
      BY <1>11, <2>2 DEF Chained
    <2>4. fill = 0 /\ new = 0 => mid + done = mid
      BY <1>2, <1>13, SMT
    <2> QED  BY <1>11, <2>1, <2>3, <2>4
  <1>27. /\ Good(u, left, mid + done, tail, left, has)
         /\ SentUpTo(u, mid + done) = SentUpTo(w, mid)
    <2> DEFINE end == mid + done
    <2>1. /\ u.next = SeqOf(end) /\ Chained(segs, left, end)
          /\ fill = 0 /\ Len(added) = 0 => end = mid
      BY <1>17, <1>24, <1>26
    <2>2. Len(segs) <= SegCount /\ AddedTo(u, w, segs, added)
      BY <1>7, <1>11, <1>16, <1>20, <1>23, <1>24 DEF AddedTo, QueueGrown
    <2> HIDE DEF end
    <2>3. /\ Good(u, left, end, tail, left, has)
          /\ SentUpTo(u, end) = SentUpTo(w, mid)
      BY <1>18, <1>24, <1>25, <1>26, <2>1, <2>2, AddedIsGood
    <2> QED  BY <2>3 DEF end
  <1>28. Borrowers < SegCount /\ u.segs = <<>> => done = n
    <2> SUFFICES ASSUME Borrowers < SegCount, u.segs = <<>> PROVE done = n
      OBVIOUS
    <2>1. Len(segs) = 0
      BY <1>24
    <2>2. l = 0 /\ new = 0
      <3> HIDE DEF l
      <3> QED  BY <1>3, <1>7, <1>16, <2>1, SMT
    <2>3. fill = 0
      <3>1. w.segs = <<>>
        BY <1>3, <2>2, EmptySeq
      <3> QED  BY <1>1, <1>4, <3>1, OpenIs
    <2>4. rest = 0
      BY <1>7, <2>2
    <2> QED  BY <1>6, <1>13, <2>2, <2>3, <2>4, SMT DEF done
  <1>29. done \in 0 .. n
    BY <1>13, SMT
  <1>30. Added(add, w, left, mid, n, tail, has)
    BY <1>24, <1>27, <1>28, <1>29 DEF Added
  <1> QED  BY <1>30 DEF add, pos

-----------------------------------------------------------------------------
(* The stream.                                                               *)

LEMMA SizeAndSpace ==
    ASSUME NEW m \in Markers
    PROVE  /\ uxStreamBufferGetSize(m) \in 0 .. LENGTH - 1
           /\ uxStreamBufferGetSize(m) \in Nat
           /\ uxStreamBufferGetSpace(m) = LENGTH - 1 - uxStreamBufferGetSize(m)
           /\ uxStreamBufferDistance(m.tail, m.mid) \in 0 .. LENGTH - 1
           /\ uxStreamBufferDistance(m.tail, m.mid) \in Nat
           /\ m.tail \in Index /\ m.head \in Index /\ m.mid \in Index
  BY LengthAssumption, SMT
  DEF Markers, Index, uxStreamBufferGetSize, uxStreamBufferGetSpace,
      uxStreamBufferDistance, uxStreamBufferSpace, Wrap

\* Between the tail and the head stands the mid marker.
MidWithin(m) ==
    uxStreamBufferDistance(m.tail, m.mid) <= uxStreamBufferGetSize(m)

LEMMA MidIs ==
    ASSUME NEW m \in Markers, MidWithin(m)
    PROVE  /\ m.mid = Wrap(m.tail + uxStreamBufferDistance(m.tail, m.mid))
           /\ uxStreamBufferMidSpace(m) \in Nat
           /\ uxStreamBufferMidSpace(m) = uxStreamBufferGetSize(m)
                                  - uxStreamBufferDistance(m.tail, m.mid)
  BY LengthAssumption, SMT
  DEF Markers, Index, uxStreamBufferGetSize, uxStreamBufferMidSpace,
      uxStreamBufferDistance, Wrap, MidWithin

LEMMA MidMoved ==
    ASSUME NEW m \in Markers, MidWithin(m),
           NEW n \in 0 .. uxStreamBufferMidSpace(m)
    PROVE  LET t == vStreamBufferMoveMid(m, n)
           IN  /\ t \in Markers /\ t.tail = m.tail /\ t.head = m.head
               /\ uxStreamBufferDistance(t.tail, t.mid)
                     = uxStreamBufferDistance(m.tail, m.mid) + n
               /\ uxStreamBufferGetSize(t) = uxStreamBufferGetSize(m)
               /\ MidWithin(t)
  <1> DEFINE t == vStreamBufferMoveMid(m, n)
             d == uxStreamBufferDistance(m.tail, m.mid)
             new == Wrap(m.mid + n)
  <1>1. /\ m.tail \in Index /\ m.head \in Index /\ m.mid \in Index
        /\ d \in 0 .. LENGTH - 1 /\ uxStreamBufferGetSize(m) \in 0 .. LENGTH - 1
        /\ uxStreamBufferMidSpace(m) \in Nat
        /\ uxStreamBufferMidSpace(m) = uxStreamBufferGetSize(m) - d
        /\ d <= uxStreamBufferGetSize(m)
    BY SizeAndSpace, MidIs DEF MidWithin
  <1>2. Least(n, uxStreamBufferMidSpace(m)) = n
    BY <1>1, SMT DEF Least
  <1>3. t = [m EXCEPT !.mid = new]
    BY <1>2 DEF vStreamBufferMoveMid
  <1>4. /\ new \in Index /\ d + n <= uxStreamBufferGetSize(m)
        /\ uxStreamBufferDistance(m.tail, new) = d + n
    BY <1>1, LengthAssumption, SMT DEF Index, Wrap, uxStreamBufferDistance
  <1> HIDE DEF t, new
  <1>5. t \in Markers /\ t.tail = m.tail /\ t.head = m.head /\ t.mid = new
    BY <1>3, <1>4 DEF Markers
  <1> QED  BY <1>4, <1>5 DEF t, MidWithin, uxStreamBufferGetSize

LEMMA TailMovedIs ==
    ASSUME NEW m \in Markers, MidWithin(m),
           NEW n \in 0 .. uxStreamBufferDistance(m.tail, m.mid)
    PROVE  LET t == TailMoved(m, n)
           IN  /\ t \in Markers /\ t.tail = Wrap(m.tail + n) /\ t.head = m.head
               /\ uxStreamBufferGetSize(t) = uxStreamBufferGetSize(m) - n
               /\ uxStreamBufferDistance(t.tail, t.mid)
                     = uxStreamBufferDistance(m.tail, m.mid) - n
               /\ MidWithin(t)
               /\ GetCount(m, 0, n) = n
               /\ \A k \in 0 .. uxStreamBufferGetSize(t) - 1 :
                     Wrap(t.tail + k) = Wrap(m.tail + (n + k))
  <1> DEFINE t == TailMoved(m, n)
             d == uxStreamBufferDistance(m.tail, m.mid)
             s == uxStreamBufferGetSize(m)
             new == Wrap(m.tail + n)
  <1>1. /\ m.tail \in Index /\ m.head \in Index /\ m.mid \in Index
        /\ d \in 0 .. LENGTH - 1 /\ s \in 0 .. LENGTH - 1
        /\ d <= s
    BY SizeAndSpace DEF MidWithin
  <1>2. n \in Nat /\ n <= d /\ n <= s
    BY <1>1, LengthAssumption, SMT
  <1>3. new \in Index
    BY <1>1, <1>2, LengthAssumption, SMT DEF Index, Wrap
  <1>4. uxStreamBufferDistance(new, m.mid) = d - n
    BY <1>1, <1>2, LengthAssumption, SMT DEF Index, Wrap, uxStreamBufferDistance
  <1>5. uxStreamBufferDistance(new, m.head) = s - n
    BY <1>1, <1>2, LengthAssumption, SMT
    DEF Index, Wrap, uxStreamBufferDistance, uxStreamBufferGetSize
  <1>6. /\ t \in Markers /\ t.tail = new /\ t.head = m.head /\ t.mid = m.mid
    BY <1>3 DEF TailMoved, Markers
  <1>7. GetCount(m, 0, n) = n
    <2> HIDE DEF s, d
    <2>1. GetCount(m, 0, n) = Least(IF s > 0 THEN s - 0 ELSE 0, n)
      BY DEF GetCount, Fits, s
    <2> QED  BY <1>1, <1>2, <2>1, LengthAssumption, SMT DEF Least
  <1>8. uxStreamBufferGetSize(t) = s - n
    BY <1>5, <1>6 DEF uxStreamBufferGetSize
  <1>9. \A k \in 0 .. (s - n) - 1 : Wrap(new + k) = Wrap(m.tail + (n + k))
    <2> HIDE DEF s
    <2> QED  BY <1>1, <1>2, LengthAssumption, SMT DEF Index, Wrap
  <1>10. d - n <= s - n
    <2> HIDE DEF s, d
    <2> QED  BY <1>1, <1>2, LengthAssumption, SMT
  <1> HIDE DEF t
  <1> QED  BY <1>4, <1>6, <1>7, <1>8, <1>9, <1>10 DEF t, MidWithin

\* The owner's bytes are written behind the head, and added there.
LEMMA AddIs ==
    ASSUME NEW m \in Markers, NEW n \in Nat, n <= uxStreamBufferGetSpace(m)
    PROVE  LET a == uxStreamBufferAdd(m, 0, n)
           IN  /\ a \in Markers /\ a.tail = m.tail /\ a.mid = m.mid
               /\ uxStreamBufferGetSize(a) = uxStreamBufferGetSize(m) + n
               /\ \A k \in 0 .. n - 1 :
                     Wrap(m.tail + (uxStreamBufferGetSize(m) + k))
                        = Wrap(m.head + k)
  <1> DEFINE a == uxStreamBufferAdd(m, 0, n)
             s == uxStreamBufferGetSize(m)
             next == Wrap(Wrap(m.head + 0) + n)
             moved == [m EXCEPT !.head = next]
  <1>1. /\ m.tail \in Index /\ m.head \in Index /\ s \in 0 .. LENGTH - 1
        /\ n <= LENGTH - 1 - s
    BY SizeAndSpace
  <1>2. AddCount(m, 0, n) = n
    BY <1>1, SizeAndSpace, LengthAssumption, SMT DEF AddCount, Fits, Least
  <1>3. \A k \in 0 .. n - 1 : Wrap(m.tail + (s + k)) = Wrap(m.head + k)
    BY <1>1, LengthAssumption, SMT
    DEF Index, Wrap, uxStreamBufferDistance, uxStreamBufferGetSize
  <1>4. CASE n = 0
    <2>1. a = m
      BY <1>2, <1>4 DEF uxStreamBufferAdd
    <2>2. s + n = s
      <3> HIDE DEF s
      <3> QED  BY <1>1, <1>4, LengthAssumption, SMT
    <2> HIDE DEF s
    <2>3. a \in Markers /\ a.tail = m.tail /\ a.mid = m.mid
          /\ uxStreamBufferGetSize(a) = s + n
      BY <2>1, <2>2 DEF s
    <2> QED  BY <1>3, <2>3 DEF s
  <1>5. CASE n # 0
    <2>1. next \in Index /\ uxStreamBufferDistance(m.tail, next) = s + n
      BY <1>1, LengthAssumption, SMT
      DEF Index, Wrap, uxStreamBufferDistance, uxStreamBufferGetSize
    <2>2. /\ moved \in Markers /\ moved.tail = m.tail /\ moved.mid = m.mid
          /\ moved.head = next
      BY <2>1 DEF Markers
    <2> HIDE DEF next, moved
    <2>3. a = moved \/ a = [moved EXCEPT !.front = next]
      BY <1>2, <1>5 DEF uxStreamBufferAdd, next, moved
    <2>4. /\ a \in Markers /\ a.tail = m.tail /\ a.mid = m.mid /\ a.head = next
      BY <2>1, <2>2, <2>3 DEF Markers
    <2> HIDE DEF a, s
    <2>5. uxStreamBufferGetSize(a) = s + n
      BY <2>1, <2>4 DEF uxStreamBufferGetSize
    <2> QED  BY <1>3, <2>4, <2>5 DEF a, s
  <1> QED  BY <1>4, <1>5

\* A write behind the head leaves what can be read alone.
LEMMA WrittenIs ==
    ASSUME NEW m \in Markers, NEW n \in Nat, NEW array, NEW byte
    PROVE  LET c == AddCount(m, 0, n)
               after == WrittenTo(array, m, 0, n, byte)
           IN  /\ c \in Nat /\ c <= n /\ c <= uxStreamBufferGetSpace(m)
               /\ \A k \in 0 .. c - 1 : after[Wrap(m.head + k)] = byte[k]
               /\ \A x \in 0 .. uxStreamBufferGetSize(m) - 1 :
                     after[Wrap(m.tail + x)] = array[Wrap(m.tail + x)]
  <1> DEFINE c == AddCount(m, 0, n)
             after == WrittenTo(array, m, 0, n, byte)
             s == uxStreamBufferGetSize(m)
             at == Wrap(m.head + 0)
             dist(i) == uxStreamBufferDistance(at, i)
  <1>1. /\ m.tail \in Index /\ m.head \in Index /\ s \in 0 .. LENGTH - 1
        /\ uxStreamBufferGetSpace(m) = LENGTH - 1 - s
    BY SizeAndSpace
  <1>2. c \in Nat /\ c <= n /\ c <= LENGTH - 1 - s
    BY <1>1, LengthAssumption, SMT DEF AddCount, Fits, Least
  <1>3. \A i \in Index : after[i] = IF dist(i) < c THEN byte[dist(i)] ELSE array[i]
    BY DEF WrittenTo
  <1> HIDE DEF c, after
  <1>4. ASSUME NEW k \in 0 .. c - 1
        PROVE  after[Wrap(m.head + k)] = byte[k]
    <2>1. Wrap(m.head + k) \in Index /\ dist(Wrap(m.head + k)) = k /\ k < c
      <3> HIDE DEF s
      <3> QED  BY <1>1, <1>2, LengthAssumption, SMT
               DEF Index, Wrap, uxStreamBufferDistance
    <2> QED  BY <1>3, <2>1
  <1>5. ASSUME NEW x \in 0 .. s - 1
        PROVE  after[Wrap(m.tail + x)] = array[Wrap(m.tail + x)]
    <2>1. Wrap(m.tail + x) \in Index /\ ~ (dist(Wrap(m.tail + x)) < c)
      BY <1>1, <1>2, LengthAssumption, SMT
      DEF Index, Wrap, uxStreamBufferDistance, uxStreamBufferGetSize
    <2> HIDE DEF dist
    <2> QED  BY <1>3, <2>1
  <1> QED  BY <1>1, <1>2, <1>4, <1>5 DEF c, after

\* The place of a segment may be counted from the byte at the left side.
LEMMA MovedIsGood ==
    ASSUME NEW w, NEW left, NEW mid, NEW tail \in Index, NEW base \in Nat,
           NEW has, Good(w, left, mid, tail, base, has),
           base <= left, mid - base < LENGTH
    PROVE  Good(w, left, mid, Wrap(tail + (left - base)), left, has)
  <1> DEFINE new == Wrap(tail + (left - base))
  <1>1. /\ w \in WindowType /\ Chained(w.segs, left, mid)
        /\ Placed(w.segs, tail, base)
    BY DEF Good
  <1>2. left \in Nat /\ mid \in Nat /\ left <= mid /\ LENGTH \in Nat
        /\ tail \in 0 .. LENGTH - 1
    BY <1>1, Sizes, SMT DEF Chained, Index
  <1>3. ASSUME NEW k \in 1 .. Len(w.segs)
        PROVE  w.segs[k].pos = Wrap(new + (At(w.segs[k]) - left))
    <2> DEFINE at == At(w.segs[k])
    <2>1. /\ at \in Nat /\ left <= at /\ at < Behind(w.segs[k])
          /\ Behind(w.segs[k]) <= mid /\ Behind(w.segs[k]) \in Nat
      BY <1>1, WindowIs, ChainIs
    <2>2. w.segs[k].pos = Wrap(tail + (at - base))
      BY <1>1 DEF Placed
    <2>3. Wrap(new + (at - left)) = Wrap(tail + (at - base))
      <3> HIDE DEF at
      <3> QED  BY <1>2, <2>1, SMT DEF Wrap
    <2> QED  BY <2>2, <2>3
  <1>4. Placed(w.segs, new, left)
    BY <1>3 DEF Placed
  <1> QED  BY <1>4 DEF Good

\* The data the owner added since is cut into segments.
Started(add, w, m, left, mid, has) ==
    /\ add.stream \in Markers /\ add.stream.tail = m.tail
    /\ add.stream.head = m.head
    /\ uxStreamBufferGetSize(add.stream) = uxStreamBufferGetSize(m)
    /\ MidWithin(add.stream)
    /\ LET end == left + uxStreamBufferDistance(m.tail, add.stream.mid)
       IN  /\ end \in mid .. StreamLength
           /\ Good(add.window, left, end, m.tail, left, has)
           /\ SentUpTo(add.window, end) = SentUpTo(w, mid)
           /\ Borrowers < SegCount /\ add.window.segs = <<>>
                 => end = left + uxStreamBufferGetSize(m)
    /\ add.window.xWaitQueue = w.xWaitQueue

LEMMA StartedIs ==
    ASSUME NEW w, NEW m \in Markers, NEW left \in Nat, NEW mid, NEW has,
           MidWithin(m),
           mid = left + uxStreamBufferDistance(m.tail, m.mid),
           Good(w, left, mid, m.tail, left, has),
           left + uxStreamBufferGetSize(m) <= StreamLength,
           NEW b \in 0 .. Borrowers
    PROVE  Started(prvTCPAddTxData(w, m, b), w, m, left, mid, has)
  <1> DEFINE d == uxStreamBufferDistance(m.tail, m.mid)
             s == uxStreamBufferGetSize(m)
             n == uxStreamBufferMidSpace(m)
             add == lTCPWindowTxAdd(w, n, m.mid, b)
             t == vStreamBufferMoveMid(m, add.done)
             r == prvTCPAddTxData(w, m, b)
  <1>1. /\ m.tail \in Index /\ d \in Nat /\ d <= LENGTH - 1
        /\ s \in Nat /\ s <= LENGTH - 1 /\ d <= s
    BY SizeAndSpace, LengthAssumption, SMT DEF MidWithin
  <1>2. m.mid = Wrap(m.tail + d) /\ n \in Nat /\ n = s - d
    BY MidIs
  <1>3. r = [window |-> add.window, stream |-> t]
    BY DEF prvTCPAddTxData
  <1> HIDE DEF d, s, n, r
  <1>4. /\ mid + n <= StreamLength /\ (mid - left) + n <= LENGTH - 1
        /\ mid - left = d /\ mid = left + d /\ mid \in Nat
    <2>1. mid = left + d /\ left + s <= StreamLength
      BY DEF d, s
    <2> QED  BY <1>1, <1>2, <2>1, Sizes, SMT
  <1>5. Added(add, w, left, mid, n, m.tail, has)
    <2>1. Added(lTCPWindowTxAdd(w, n, Wrap(m.tail + (mid - left)), b),
                w, left, mid, n, m.tail, has)
      BY <1>1, <1>2, <1>4, AddIsGood
    <2> QED  BY <1>2, <1>4, <2>1
  <1> HIDE DEF add
  <1>6. /\ add.done \in 0 .. n
        /\ Good(add.window, left, mid + add.done, m.tail, left, has)
        /\ SentUpTo(add.window, mid + add.done) = SentUpTo(w, mid)
        /\ add.window.xWaitQueue = w.xWaitQueue
        /\ Borrowers < SegCount /\ add.window.segs = <<>> => add.done = n
    BY <1>5 DEF Added
  <1>7. /\ t \in Markers /\ t.tail = m.tail /\ t.head = m.head
        /\ uxStreamBufferDistance(t.tail, t.mid) = d + add.done
        /\ uxStreamBufferGetSize(t) = s /\ MidWithin(t)
    BY <1>6, MidMoved DEF n, d, s
  <1> HIDE DEF t
  <1> DEFINE end == left + uxStreamBufferDistance(m.tail, t.mid)
  <1>8. end = mid + add.done
    <2> DEFINE done == add.done
    <2>1. end = left + (d + done)
      BY <1>7
    <2>2. done \in 0 .. n
      BY <1>6
    <2> HIDE DEF end, done
    <2>3. done \in Nat
      BY <1>2, <2>2, SMT
    <2>4. left + (d + done) = (left + d) + done
      BY <1>1, <2>3, SMT
    <2>5. (left + d) + done = mid + done
      BY <1>4
    <2> QED  BY <2>1, <2>4, <2>5 DEF done
  <1>9. end \in mid .. StreamLength
    BY <1>2, <1>4, <1>6, <1>8, Sizes, SMT
  <1>10. add.done = n => end = left + s
    <2> HIDE DEF end
    <2> QED  BY <1>1, <1>2, <1>4, <1>8, SMT
  <1>11. r.window = add.window /\ r.stream = t
    BY <1>3
  <1> HIDE DEF end
  <1>12. /\ Good(r.window, left, end, m.tail, left, has)
         /\ SentUpTo(r.window, end) = SentUpTo(w, mid)
         /\ Borrowers < SegCount /\ r.window.segs = <<>> => end = left + s
         /\ r.window.xWaitQueue = w.xWaitQueue
    BY <1>6, <1>8, <1>10, <1>11
  <1>13. Started(r, w, m, left, mid, has)
    BY <1>7, <1>9, <1>11, <1>12 DEF Started, end, s
  <1> QED  BY <1>13 DEF r

-----------------------------------------------------------------------------
(* Acknowledgements.                                                         *)

\* The peer has what was sent, up to somewhere, and what was released.
PeerHas(has, w, left, mid) ==
    /\ \A i \in has : i < SentUpTo(w, mid)
    /\ \A i \in 0 .. left - 1 : i \in has

LEMMA SackedIs ==
    ASSUME NEW w, NEW left, NEW mid, NEW tail, NEW base, NEW has,
           Good(w, left, mid, tail, base, has), PeerHas(has, w, left, mid),
           NEW a \in 0 .. StreamLength, NEW b \in 0 .. StreamLength,
           a # left, a < b, \A i \in a .. b - 1 : i \in has
    PROVE  Moved(ulTCPWindowTxSack(w, SeqOf(a), SeqOf(b)), w,
                 left, left, mid, tail, base, has)
  <1> DEFINE r == prvTCPWindowTxCheckAck(w, SeqOf(a), SeqOf(b))
             u == prvTCPWindowFastRetransmit(r.window, SeqOf(a))
             s == ulTCPWindowTxSack(w, SeqOf(a), SeqOf(b))
  <1>1. SentUpTo(w, mid) \in Nat
    BY SentIs
  <1>2. b <= SentUpTo(w, mid)
    <2>1. b - 1 \in a .. b - 1
      BY Sizes, SMT
    <2>2. b - 1 < SentUpTo(w, mid)
      BY <2>1 DEF PeerHas
    <2> DEFINE x == SentUpTo(w, mid)
    <2> HIDE DEF x
    <2>3. b - 1 < x /\ x \in Nat
      BY <1>1, <2>2 DEF x
    <2>4. b <= x
      BY <2>3, Sizes, SMT
    <2> QED  BY <2>4 DEF x
  <1>3. \A i \in 0 .. left - 1 : i \in has
    BY DEF PeerHas
  <1>4. Moved(r, w, left, left, mid, tail, base, has)
    BY <1>2, <1>3, CheckedAhead
  <1>5. /\ left \in left .. mid /\ r.confirmed = left - left
        /\ Good(r.window, left, mid, tail, base, has)
        /\ SentUpTo(r.window, mid) = SentUpTo(w, mid)
    BY <1>4 DEF Moved
  <1>6. /\ Good(u, left, mid, tail, base, has)
        /\ SentUpTo(u, mid) = SentUpTo(r.window, mid)
    BY <1>5, FastIs
  <1>7. s = [r EXCEPT !.window = u]
    BY DEF ulTCPWindowTxSack
  <1>8. r = [window |-> r.window, confirmed |-> r.confirmed]
    BY DEF prvTCPWindowTxCheckAck
  <1> HIDE DEF r, u, s
  <1>9. s.window = u /\ s.confirmed = r.confirmed
    BY <1>7, <1>8
  <1>10. Moved(s, w, left, left, mid, tail, base, has)
    BY <1>3, <1>5, <1>6, <1>9 DEF Moved
  <1> QED  BY <1>10 DEF s

LEMMA AckedIs ==
    ASSUME NEW w, NEW left, NEW mid, NEW tail, NEW base, NEW has,
           Good(w, left, mid, tail, base, has), PeerHas(has, w, left, mid),
           NEW a \in 0 .. StreamLength, \A i \in 0 .. a - 1 : i \in has
    PROVE  \E new \in left .. mid :
              Moved(ulTCPWindowTxAck(w, SeqOf(a)), w,
                    left, new, mid, tail, base, has)
  <1>1. /\ left \in 0 .. StreamLength /\ mid \in Nat /\ left <= mid
        /\ left \in Nat /\ w.current = SeqOf(left)
    BY Sizes, SMT DEF Good, Chained
  <1>2. xSequenceLessThanOrEqual(SeqOf(a), w.current) <=> a <= left
    BY <1>1, Compared
  <1>3. \A i \in 0 .. left - 1 : i \in has
    BY DEF PeerHas
  <1>4. CASE a <= left
    <2>1. ulTCPWindowTxAck(w, SeqOf(a)) = [window |-> w, confirmed |-> 0]
      BY <1>2, <1>4 DEF ulTCPWindowTxAck
    <2>2. left \in left .. mid /\ 0 = left - left
      BY <1>1, SMT
    <2>3. Moved(ulTCPWindowTxAck(w, SeqOf(a)), w,
                left, left, mid, tail, base, has)
      BY <1>3, <2>1, <2>2 DEF Moved
    <2> QED  BY <2>2, <2>3
  <1>5. CASE ~ (a <= left)
    <2>1. ulTCPWindowTxAck(w, SeqOf(a))
             = prvTCPWindowTxCheckAck(w, SeqOf(left), SeqOf(a))
      BY <1>1, <1>2, <1>5 DEF ulTCPWindowTxAck
    <2>2. a <= SentUpTo(w, mid)
      <3> DEFINE x == SentUpTo(w, mid)
      <3>1. a - 1 \in 0 .. a - 1
        BY <1>1, <1>5, Sizes, SMT
      <3>2. a - 1 < x
        BY <3>1 DEF PeerHas
      <3>3. x \in Nat
        BY SentIs
      <3> HIDE DEF x
      <3>4. a <= x
        BY <3>2, <3>3, Sizes, SMT
      <3> QED  BY <3>4 DEF x
    <2>3. \A i \in left .. a - 1 : i \in has
      <3>1. \A i \in left .. a - 1 : i \in 0 .. a - 1
        BY <1>1, Sizes, SMT
      <3> QED  BY <3>1
    <2> QED  BY <1>3, <2>1, <2>2, <2>3, CheckedLeft
  <1> QED  BY <1>4, <1>5

\* What a selective acknowledgement can name: nothing, or bytes the peer has
\* beyond the left side.
Names(first, last, left, has) ==
    \/ first = last
    \/ /\ first \in 0 .. StreamLength /\ last \in 0 .. StreamLength
       /\ first # left /\ first < last
       /\ \A i \in first .. last - 1 : i \in has

HeldBefore(n) == \A i \in 0 .. n - 1 : i \in held

LEMMA AcknowledgeIs ==
    ASSUME Good(window, released, Mid, txStream.tail, released, held),
           PeerHas(held, window, released, Mid),
           txStream \in Markers, MidWithin(txStream), released \in Nat,
           NEW ack \in 0 .. StreamLength, \A i \in 0 .. ack - 1 : i \in held,
           NEW first, NEW last, Names(first, last, released, held)
    PROVE  LET r == Acknowledge(ack, first, last)
           IN  \E n \in 0 .. uxStreamBufferDistance(txStream.tail, txStream.mid) :
                  /\ r.count = n
                  /\ Good(r.window, released + n, Mid, txStream.tail,
                          released, held)
                  /\ SentUpTo(r.window, Mid) = SentUpTo(window, Mid)
                  /\ HeldBefore(released + n)
  <1> DEFINE sack == IF first = last THEN [window |-> window, confirmed |-> 0]
                     ELSE ulTCPWindowTxSack(window, SeqOf(first), SeqOf(last))
             both == ulTCPWindowTxAck(sack.window, SeqOf(ack))
             d == uxStreamBufferDistance(txStream.tail, txStream.mid)
             tail == txStream.tail
             r == Acknowledge(ack, first, last)
  <1>1. \A i \in 0 .. released - 1 : i \in held
    BY DEF PeerHas
  <1>2. /\ d \in Nat /\ Mid = released + d
    BY SizeAndSpace DEF Mid
  <1>3. Moved(sack, window, released, released, Mid, tail, released, held)
    <2>1. CASE first = last
      <3>1. sack = [window |-> window, confirmed |-> 0]
        BY <2>1
      <3>2. Mid \in Nat /\ released <= Mid
        <4> HIDE DEF d
        <4> QED  BY <1>2, SMT
      <3>3. released \in released .. Mid /\ 0 = released - released
        <4> HIDE DEF d
        <4> QED  BY <3>2, SMT
      <3> QED  BY <1>1, <3>1, <3>3 DEF Moved
    <2>2. CASE first # last
      <3>1. sack = ulTCPWindowTxSack(window, SeqOf(first), SeqOf(last))
        BY <2>2
      <3>2. /\ first \in 0 .. StreamLength /\ last \in 0 .. StreamLength
            /\ first # released /\ first < last
            /\ \A i \in first .. last - 1 : i \in held
        BY <2>2 DEF Names
      <3>3. Moved(ulTCPWindowTxSack(window, SeqOf(first), SeqOf(last)), window,
                  released, released, Mid, tail, released, held)
        BY <3>2, SackedIs
      <3> QED  BY <3>1, <3>3
    <2> QED  BY <2>1, <2>2
  <1> HIDE DEF sack
  <1>4. /\ sack.confirmed = released - released
        /\ Good(sack.window, released, Mid, tail, released, held)
        /\ SentUpTo(sack.window, Mid) = SentUpTo(window, Mid)
    BY <1>3 DEF Moved
  <1>5. PeerHas(held, sack.window, released, Mid)
    BY <1>4 DEF PeerHas
  <1>6. PICK new \in released .. Mid :
               Moved(both, sack.window, released, new, Mid, tail, released, held)
    BY <1>4, <1>5, AckedIs
  <1> HIDE DEF both
  <1>7. /\ both.confirmed = new - released
        /\ Good(both.window, new, Mid, tail, released, held)
        /\ SentUpTo(both.window, Mid) = SentUpTo(sack.window, Mid)
        /\ \A i \in 0 .. new - 1 : i \in held
    BY <1>6 DEF Moved
  <1> DEFINE n == new - released
  <1>8. /\ n \in 0 .. d /\ released + n = new
        /\ (released - released) + n = n
    <2> HIDE DEF d
    <2> QED  BY <1>2, SMT
  <1>9. GetCount(txStream, 0, n) = n
    <2> HIDE DEF n
    <2> QED  BY <1>8, TailMovedIs
  <1>10. r = [window |-> both.window,
              count |-> GetCount(txStream, 0, sack.confirmed + both.confirmed)]
    BY DEF Acknowledge, both, sack
  <1>11. sack.confirmed + both.confirmed = n
    BY <1>4, <1>7, <1>8
  <1> HIDE DEF n, r
  <1>12. r.count = n /\ r.window = both.window
    BY <1>9, <1>10, <1>11
  <1>13. HeldBefore(new)
    BY <1>7 DEF HeldBefore
  <1> QED  BY <1>4, <1>7, <1>8, <1>12, <1>13 DEF r

\* The peer's answer names the first byte it does not have.
LEMMA ContiguousIs ==
    ASSUME held \subseteq Bytes
    PROVE  /\ Contiguous \in 0 .. StreamLength
           /\ \A i \in 0 .. Contiguous - 1 : i \in held
           /\ Contiguous \notin held
  <1> DEFINE T == {n \in 0 .. StreamLength : n \notin held}
  <1>1. StreamLength \in T
    BY Sizes, SMT DEF Bytes
  <1>2. T \in SUBSET Nat
    BY Sizes, SMT
  <1>3. PICK n \in T : \A k \in T : n <= k
    BY <1>1, <1>2, LeastNumber
  <1>4. n \in 0 .. StreamLength /\ n \notin held
    OBVIOUS
  <1>5. 0 .. n - 1 \subseteq held
    <2> SUFFICES ASSUME NEW i \in 0 .. n - 1, i \notin held PROVE FALSE
      OBVIOUS
    <2>1. i \in 0 .. StreamLength /\ ~ (n <= i)
      BY <1>4, Sizes, SMT
    <2>2. i \in T
      BY <2>1
    <2> QED  BY <1>3, <2>1, <2>2
  <1> HIDE DEF T
  <1>6. \E m \in 0 .. StreamLength : 0 .. m - 1 \subseteq held /\ m \notin held
    BY <1>4, <1>5
  <1>7. /\ Contiguous \in 0 .. StreamLength
        /\ 0 .. Contiguous - 1 \subseteq held /\ Contiguous \notin held
    BY <1>6 DEF Contiguous
  <1> QED  BY <1>7

-----------------------------------------------------------------------------
(* Sending.                                                                  *)

LEMMA SegmentAtIs ==
    ASSUME NEW w \in WindowType, NEW from, NEW to, Chained(w.segs, from, to),
           NEW k \in 1 .. Len(w.segs)
    PROVE  SegmentAt(w, w.segs[k].seq) = k
  <1>1. w.segs \in Seq(SegmentType) /\ DOMAIN w.segs = 1 .. Len(w.segs)
    BY WindowIs
  <1>2. \A j \in 1 .. Len(w.segs) : w.segs[j].seq = w.segs[k].seq => j = k
    BY <1>1, ChainApart
  <1> QED  BY <1>1, <1>2 DEF SegmentAt

\* A segment is sent once more, or for the first time.
SameButCounts(u, w) ==
    /\ u \in WindowType /\ AllSame(u.segs, w.segs)
    /\ \A k \in 1 .. Len(w.segs) : u.segs[k].acked <=> w.segs[k].acked
    /\ u.open = w.open /\ u.xTxQueue = w.xTxQueue
    /\ u.xPriorityQueue = w.xPriorityQueue
    /\ u.current = w.current /\ u.next = w.next

\* A segment of which only the counts have changed.
SegmentChanged(t, s, k, g) ==
    /\ t \in Seq(SegmentType) /\ AllSame(t, s)
    /\ \A i \in 1 .. Len(s) : t[i].acked <=> s[i].acked

LEMMA SegmentChangedIs ==
    ASSUME NEW s \in Seq(SegmentType), NEW k \in 1 .. Len(s),
           NEW g \in SegmentType, g.seq = s[k].seq, g.len = s[k].len,
           g.pos = s[k].pos, g.acked = s[k].acked
    PROVE  SegmentChanged([s EXCEPT ![k] = g], s, k, g)
  <1> DEFINE t == [s EXCEPT ![k] = g]
  <1>1. t \in Seq(SegmentType) /\ Len(t) = Len(s)
    OBVIOUS
  <1>2. \A i \in 1 .. Len(s) : t[i] = IF i = k THEN g ELSE s[i]
    OBVIOUS
  <1> HIDE DEF t
  <1>3. SegmentChanged(t, s, k, g)
    BY <1>1, <1>2 DEF SegmentChanged, AllSame
  <1> QED  BY <1>3 DEF t

LEMMA ChosenIs ==
    ASSUME NEW w \in WindowType, NEW from, NEW to, Chained(w.segs, from, to),
           NEW k \in 1 .. Len(w.segs), NEW seq, seq = w.segs[k].seq
    PROVE  /\ SameButCounts(Chosen(w, seq), w)
           /\ Chosen(w, seq).xWaitQueue = Append(w.xWaitQueue, seq)
  <1> DEFINE s == w.segs
             sent == s[k].ucTransmitCount + 1
             count == Least(sent, Last)
             g == [s[k] EXCEPT !.ucTransmitCount = count]
             t == [s EXCEPT ![k] = g]
             wait == Append(w.xWaitQueue, seq)
             limit == IF sent = MAX_TRANSMIT_COUNT_USING_LARGE_WINDOW
                      THEN Least(w.limit, 2 * MSS) ELSE w.limit
             u == Chosen(w, seq)
  <1>1. /\ s \in Seq(SegmentType) /\ DOMAIN s = 1 .. Len(s)
        /\ w.xWaitQueue \in Seq(Seqs) /\ w.limit \in Nat
    BY WindowIs
  <1>2. s[k] \in SegmentType /\ s[k].seq \in Seqs
    BY <1>1, SegmentIs
  <1>3. SegmentAt(w, seq) = k
    BY SegmentAtIs
  <1>4. count \in 0 .. Last
    <2>1. s[k].ucTransmitCount \in 0 .. Last
      BY <1>2 DEF SegmentType
    <2>2. Last \in Nat
      BY TransmitAssumption, SMT DEF Last
    <2> QED  BY <2>1, <2>2, SMT DEF Least
  <1>5. limit \in Nat
    BY <1>1, PoolSizes, SMT DEF Least
  <1>6. wait \in Seq(Seqs)
    BY <1>1, <1>2, AppendIs
  <1>7. u = [w EXCEPT !.segs = t, !.xWaitQueue = wait, !.limit = limit]
    BY <1>3 DEF Chosen
  <1> HIDE DEF u, limit, wait, count
  <1>8. g \in SegmentType /\ g.seq = s[k].seq /\ g.len = s[k].len
        /\ g.pos = s[k].pos /\ g.acked = s[k].acked
    BY <1>2, <1>4 DEF SegmentType
  <1> HIDE DEF g
  <1>9. SegmentChanged(t, s, k, g)
    BY <1>1, <1>8, SegmentChangedIs
  <1> HIDE DEF t
  <1>10. t \in Seq(SegmentType) /\ AllSame(t, s)
         /\ \A i \in 1 .. Len(s) : t[i].acked <=> s[i].acked
    BY <1>9 DEF SegmentChanged
  <1>11. /\ u \in WindowType /\ u.segs = t /\ u.xWaitQueue = wait
         /\ u.open = w.open /\ u.xTxQueue = w.xTxQueue
         /\ u.xPriorityQueue = w.xPriorityQueue
         /\ u.current = w.current /\ u.next = w.next
    BY <1>5, <1>6, <1>7, <1>10 DEF WindowType
  <1> QED  BY <1>10, <1>11 DEF SameButCounts, u, wait
\* Sending the segment numbered seq, v being the window in which it stands in
\* no queue and u the one afterwards.
SentTo(v, u, w, seq, left, mid, tail, base, has) ==
    /\ Good(u, left, mid, tail, base, has)
    /\ SentUpTo(w, mid) <= SentUpTo(u, mid)
    /\ \E k \in 1 .. Len(w.segs) :
          /\ SegmentAt(v, seq) = k /\ seq = w.segs[k].seq
          /\ v.segs[k].pos = w.segs[k].pos /\ v.segs[k].len = w.segs[k].len
          /\ Behind(w.segs[k]) <= SentUpTo(u, mid)

\* A segment that was sent before has its number in one of two queues.
LEMMA WaitingIs ==
    ASSUME NEW w, NEW left, NEW mid, NEW tail, NEW base, NEW has,
           Good(w, left, mid, tail, base, has), NEW seq \in Waiting(w)
    PROVE  \E k \in 1 .. Len(w.segs) :
              /\ k \in 1 .. SentCount(w) /\ seq = w.segs[k].seq
              /\ ~ w.segs[k].acked
              /\ Behind(w.segs[k]) <= SentUpTo(w, mid)
  <1>1. Queues(w)
    BY DEF Good
  <1>2. PICK k \in 1 .. SentCount(w) : seq = w.segs[k].seq /\ ~ w.segs[k].acked
    BY <1>1 DEF Queues
  <1>3. SentCount(w) \in 0 .. Len(w.segs) /\ Len(w.segs) \in Nat
    BY SentIs, WindowIs DEF Good
  <1>4. k \in 1 .. Len(w.segs) /\ k <= SentCount(w)
    BY <1>3, SMT
  <1>5. Behind(w.segs[k]) <= SentUpTo(w, mid)
    BY <1>4, SentIs
  <1> QED  BY <1>2, <1>4, <1>5

\* Sending again what u and w differ in.
LEMMA ResentIs ==
    ASSUME NEW w, NEW left, NEW mid, NEW tail, NEW base, NEW has,
           Good(w, left, mid, tail, base, has),
           NEW v \in WindowType, AllSame(v.segs, w.segs),
           \A k \in 1 .. Len(w.segs) : v.segs[k].acked <=> w.segs[k].acked,
           v.xTxQueue = w.xTxQueue, v.open = w.open,
           v.current = w.current, v.next = w.next,
           NEW seq, seq \in Waiting(w),
           Members(v.xPriorityQueue) \cup Members(v.xWaitQueue)
               = Waiting(w) \ {seq},
           Members(v.xPriorityQueue) \cap Members(v.xWaitQueue) = {},
           Once(v.xPriorityQueue), Once(v.xWaitQueue)
    PROVE  /\ SentTo(v, Chosen(v, seq), w, seq, left, mid, tail, base, has)
           /\ Chosen(v, seq).xWaitQueue = Append(v.xWaitQueue, seq)
  <1> DEFINE u == Chosen(v, seq)
  <1>1. w \in WindowType /\ Chained(w.segs, left, mid)
        /\ Placed(w.segs, tail, base)
    BY DEF Good
  <1>2. w.segs \in Seq(SegmentType) /\ v.segs \in Seq(SegmentType)
        /\ v.xWaitQueue \in Seq(Seqs)
    BY <1>1, WindowIs
  <1>3. PICK k \in 1 .. Len(w.segs) :
              /\ seq = w.segs[k].seq
              /\ Behind(w.segs[k]) <= SentUpTo(w, mid)
    BY WaitingIs
  <1>4. Chained(v.segs, left, mid)
    BY <1>1, <1>2, SameChain
  <1>5. /\ k \in 1 .. Len(v.segs) /\ v.segs[k].seq = seq
        /\ v.segs[k].pos = w.segs[k].pos /\ v.segs[k].len = w.segs[k].len
    BY <1>3 DEF AllSame
  <1>6. SegmentAt(v, seq) = k
    BY <1>4, <1>5, SegmentAtIs
  <1>7. SameButCounts(u, v) /\ u.xWaitQueue = Append(v.xWaitQueue, seq)
    BY <1>4, <1>5, ChosenIs
  <1> HIDE DEF u
  <1>8. seq \in Seqs
    BY <1>2, <1>3, SegmentIs
  <1>9. /\ Members(u.xWaitQueue) = Members(v.xWaitQueue) \cup {seq}
        /\ Once(u.xWaitQueue)
    <2>1. seq \notin Members(v.xWaitQueue)
      OBVIOUS
    <2> QED  BY <1>2, <1>7, <1>8, <2>1, AppendIs
  <1>10. /\ u \in WindowType /\ AllSame(u.segs, w.segs)
         /\ \A i \in 1 .. Len(w.segs) : u.segs[i].acked <=> w.segs[i].acked
         /\ u.current = w.current /\ u.next = w.next
    BY <1>7 DEF SameButCounts, AllSame
  <1>11. /\ u.xTxQueue = w.xTxQueue /\ u.open = w.open
         /\ u.xPriorityQueue = v.xPriorityQueue
    BY <1>7 DEF SameButCounts
  <1>12. Dropped(u, w, {})
    <2>1. Members(u.xPriorityQueue) \cap Members(u.xWaitQueue) = {}
      <3>1. seq \notin Members(v.xPriorityQueue)
        OBVIOUS
      <3> QED  BY <1>9, <1>11, <3>1
    <2>2. Waiting(u) = Waiting(w) \ {}
      BY <1>9, <1>11 DEF Waiting
    <2> QED  BY <1>9, <1>11, <2>1, <2>2 DEF Dropped
  <1>13. Good(u, left, mid, tail, base, has)
         /\ SentUpTo(u, mid) = SentUpTo(w, mid)
    BY <1>10, <1>12, Rearranged
  <1>14. SentUpTo(w, mid) <= SentUpTo(u, mid)
    <2>1. SentUpTo(w, mid) \in Nat
      BY SentIs
    <2> QED  BY <1>13, <2>1, SMT
  <1>15. SentTo(v, u, w, seq, left, mid, tail, base, has)
    BY <1>3, <1>5, <1>6, <1>13, <1>14 DEF SentTo
  <1> QED  BY <1>7, <1>15 DEF u

LEMMA PriorityIsGood ==
    ASSUME NEW w, NEW left, NEW mid, NEW tail, NEW base, NEW has,
           Good(w, left, mid, tail, base, has), w.xPriorityQueue # <<>>
    PROVE  LET v == [w EXCEPT !.xPriorityQueue = Tail(@)]
               seq == Head(w.xPriorityQueue)
           IN  /\ SentTo(v, Chosen(v, seq), w, seq, left, mid, tail, base, has)
               /\ Len(Chosen(v, seq).xWaitQueue) = Len(w.xWaitQueue) + 1
  <1> DEFINE v == [w EXCEPT !.xPriorityQueue = Tail(@)]
             seq == Head(w.xPriorityQueue)
  <1>1. w \in WindowType /\ Queues(w)
    BY DEF Good
  <1>2. w.xPriorityQueue \in Seq(Seqs) /\ w.xWaitQueue \in Seq(Seqs)
    BY <1>1, WindowIs
  <1>3. /\ seq \in Members(w.xPriorityQueue) /\ seq \in Seqs
        /\ Tail(w.xPriorityQueue) \in Seq(Seqs)
        /\ Members(w.xPriorityQueue) = {seq} \cup Members(Tail(w.xPriorityQueue))
        /\ Once(w.xPriorityQueue) => Once(Tail(w.xPriorityQueue))
                                /\ seq \notin Members(Tail(w.xPriorityQueue))
    BY <1>2, HeadAndTail
  <1>4. /\ Once(w.xPriorityQueue) /\ Once(w.xWaitQueue)
        /\ Members(w.xPriorityQueue) \cap Members(w.xWaitQueue) = {}
    BY <1>1 DEF Queues
  <1>5. /\ v \in WindowType /\ v.segs = w.segs /\ v.open = w.open
        /\ v.xTxQueue = w.xTxQueue /\ v.xWaitQueue = w.xWaitQueue
        /\ v.current = w.current /\ v.next = w.next
        /\ v.xPriorityQueue = Tail(w.xPriorityQueue)
    BY <1>1, <1>3 DEF WindowType
  <1> HIDE DEF v, seq
  <1>6. AllSame(v.segs, w.segs)
    BY <1>5 DEF AllSame
  <1>7. /\ seq \in Waiting(w)
        /\ Members(v.xPriorityQueue) \cup Members(v.xWaitQueue)
               = Waiting(w) \ {seq}
        /\ Members(v.xPriorityQueue) \cap Members(v.xWaitQueue) = {}
        /\ Once(v.xPriorityQueue) /\ Once(v.xWaitQueue)
    <2>1. seq \notin Members(w.xWaitQueue)
      BY <1>3, <1>4
    <2> QED  BY <1>3, <1>4, <1>5, <2>1 DEF Waiting
  <1>8. \A k \in 1 .. Len(w.segs) : v.segs[k].acked <=> w.segs[k].acked
    BY <1>5
  <1>9. /\ SentTo(v, Chosen(v, seq), w, seq, left, mid, tail, base, has)
        /\ Chosen(v, seq).xWaitQueue = Append(v.xWaitQueue, seq)
    BY <1>5, <1>6, <1>7, <1>8, ResentIs
  <1>10. Len(Chosen(v, seq).xWaitQueue) = Len(w.xWaitQueue) + 1
    BY <1>2, <1>3, <1>5, <1>9, AppendIs
  <1> QED  BY <1>9, <1>10 DEF v, seq

LEMMA ExpiredIsGood ==
    ASSUME NEW w, NEW left, NEW mid, NEW tail, NEW base, NEW has,
           Good(w, left, mid, tail, base, has), w.xWaitQueue # <<>>
    PROVE  LET seq == Head(w.xWaitQueue)
               v == [w EXCEPT !.xWaitQueue = Tail(@),
                              !.segs[SegmentAt(w, seq)].ucDupAckCount = 0]
           IN  /\ SentTo(v, Chosen(v, seq), w, seq, left, mid, tail, base, has)
               /\ Len(Chosen(v, seq).xWaitQueue) = Len(w.xWaitQueue)
  <1> DEFINE seq == Head(w.xWaitQueue)
             v == [w EXCEPT !.xWaitQueue = Tail(@),
                            !.segs[SegmentAt(w, seq)].ucDupAckCount = 0]
             s == w.segs
  <1>1. w \in WindowType /\ Queues(w) /\ Chained(s, left, mid)
    BY DEF Good
  <1>2. /\ w.xPriorityQueue \in Seq(Seqs) /\ w.xWaitQueue \in Seq(Seqs)
        /\ s \in Seq(SegmentType) /\ Len(w.xWaitQueue) \in Nat
    BY <1>1, WindowIs
  <1>3. /\ seq \in Members(w.xWaitQueue) /\ seq \in Seqs
        /\ Tail(w.xWaitQueue) \in Seq(Seqs)
        /\ Len(Tail(w.xWaitQueue)) = Len(w.xWaitQueue) - 1
        /\ Members(w.xWaitQueue) = {seq} \cup Members(Tail(w.xWaitQueue))
        /\ Once(w.xWaitQueue) => Once(Tail(w.xWaitQueue))
                                /\ seq \notin Members(Tail(w.xWaitQueue))
    BY <1>2, HeadAndTail
  <1>4. /\ Once(w.xPriorityQueue) /\ Once(w.xWaitQueue)
        /\ Members(w.xPriorityQueue) \cap Members(w.xWaitQueue) = {}
    BY <1>1 DEF Queues
  <1>5. seq \in Waiting(w)
    BY <1>3 DEF Waiting
  <1>6. PICK k \in 1 .. Len(s) : seq = s[k].seq
    BY <1>5, WaitingIs
  <1>7. SegmentAt(w, seq) = k
    BY <1>1, <1>6, SegmentAtIs
  <1> DEFINE g == [s[k] EXCEPT !.ucDupAckCount = 0]
             t == [s EXCEPT ![k] = g]
             rest == Tail(w.xWaitQueue)
  <1>8. v = [w EXCEPT !.xWaitQueue = rest, !.segs = t]
    BY <1>7
  <1>9. /\ g \in SegmentType /\ g.seq = s[k].seq /\ g.len = s[k].len
        /\ g.pos = s[k].pos /\ g.acked = s[k].acked
    <2>1. s[k] \in SegmentType
      BY <1>2, SegmentIs
    <2>2. 0 \in 0 .. DUPLICATE_ACKS_BEFORE_FAST_RETRANSMIT + 1
      BY TransmitAssumption, SMT
    <2> QED  BY <2>1, <2>2 DEF SegmentType
  <1> HIDE DEF v, seq, g
  <1>10. SegmentChanged(t, s, k, g)
    BY <1>2, <1>9, SegmentChangedIs
  <1> HIDE DEF t
  <1>11. t \in Seq(SegmentType) /\ AllSame(t, s)
         /\ \A i \in 1 .. Len(s) : t[i].acked <=> s[i].acked
    BY <1>10 DEF SegmentChanged
  <1>12. /\ v \in WindowType /\ v.segs = t /\ v.open = w.open
         /\ v.xTxQueue = w.xTxQueue /\ v.xWaitQueue = rest
         /\ v.current = w.current /\ v.next = w.next
         /\ v.xPriorityQueue = w.xPriorityQueue
    BY <1>1, <1>3, <1>8, <1>11 DEF WindowType
  <1>13. /\ Members(v.xPriorityQueue) \cup Members(v.xWaitQueue)
                = Waiting(w) \ {seq}
         /\ Members(v.xPriorityQueue) \cap Members(v.xWaitQueue) = {}
         /\ Once(v.xPriorityQueue) /\ Once(v.xWaitQueue)
    <2>1. seq \notin Members(w.xPriorityQueue)
      BY <1>3, <1>4
    <2> QED  BY <1>3, <1>4, <1>12, <2>1 DEF Waiting
  <1>14. /\ SentTo(v, Chosen(v, seq), w, seq, left, mid, tail, base, has)
         /\ Chosen(v, seq).xWaitQueue = Append(v.xWaitQueue, seq)
    BY <1>5, <1>11, <1>12, <1>13, ResentIs
  <1>15. Len(Chosen(v, seq).xWaitQueue) = Len(w.xWaitQueue)
    <2>1. Len(Append(rest, seq)) = Len(rest) + 1
      BY <1>3, AppendIs
    <2> QED  BY <1>2, <1>3, <1>12, <1>14, <2>1, SMT
  <1> QED  BY <1>14, <1>15 DEF v, seq

\* The first segment of the transmit queue is sent for the first time.
LEMMA NewIsGood ==
    ASSUME NEW w, NEW left, NEW mid, NEW tail, NEW base, NEW has,
           Good(w, left, mid, tail, base, has), w.xTxQueue # <<>>
    PROVE  LET seq == Head(w.xTxQueue)
               v == [w EXCEPT
                       !.xTxQueue = Tail(@),
                       !.open = @ /\ w.segs[Len(w.segs)].seq # seq,
                       !.highest = Plus(seq, First(w, w.xTxQueue).len)]
           IN  SentTo(v, Chosen(v, seq), w, seq, left, mid, tail, base, has)
  <1> DEFINE seq == Head(w.xTxQueue)
             high == Plus(seq, First(w, w.xTxQueue).len)
             open == w.open /\ w.segs[Len(w.segs)].seq # seq
             v == [w EXCEPT !.xTxQueue = Tail(@),
                            !.open = @ /\ w.segs[Len(w.segs)].seq # seq,
                            !.highest = high]
             s == w.segs
             l == Len(w.segs)
             q == Len(w.xTxQueue)
             c == SentCount(w)
             k == c + 1
             u == Chosen(v, seq)
             rest == Tail(w.xTxQueue)
  <1>1. /\ w \in WindowType /\ Queues(w) /\ Chained(s, left, mid)
        /\ Placed(s, tail, base) /\ AckedAreHeld(s, has)
        /\ l <= SegCount /\ w.current = SeqOf(left) /\ w.next = SeqOf(mid)
    BY DEF Good
  <1>2. /\ w.xTxQueue \in Seq(Seqs) /\ w.xWaitQueue \in Seq(Seqs)
        /\ s \in Seq(SegmentType) /\ l \in Nat /\ q \in Nat
        /\ w.open \in BOOLEAN
    BY <1>1, WindowIs
  <1>3. /\ seq \in Seqs /\ seq = w.xTxQueue[1] /\ rest \in Seq(Seqs)
        /\ Len(rest) = q - 1
        /\ \A i \in 1 .. Len(rest) : rest[i] = w.xTxQueue[i + 1]
    BY <1>2, HeadAndTail
  <1>4. /\ q <= l /\ c = l - q
        /\ \A i \in 1 .. q : w.xTxQueue[i] = s[c + i].seq /\ ~ s[c + i].acked
        /\ w.open => s[l].len < MSS
        /\ Once(w.xPriorityQueue) /\ Once(w.xWaitQueue)
        /\ Members(w.xPriorityQueue) \cap Members(w.xWaitQueue) = {}
        /\ Waiting(w) = {s[i].seq : i \in {i \in 1 .. c : ~ s[i].acked}}
    BY <1>1 DEF Queues, SentCount
  <1>5. q # 0
    BY <1>2, EmptySeq
  <1>6. /\ c \in Nat /\ k \in 1 .. l /\ 1 \in 1 .. q /\ k = c + 1
        /\ Len(rest) = l - k
        /\ \A i \in 1 .. l - k : i + 1 \in 1 .. q /\ c + (i + 1) = k + i
                                 /\ i \in 1 .. Len(rest)
        /\ \A i \in 1 .. c : i \in 1 .. l /\ i # k
        /\ \A i \in 1 .. k : i \in 1 .. c \/ i = k
        /\ \A i \in 1 .. c : i \in 1 .. k
        /\ k \in 1 .. k
    <2>1. q <= l /\ c = l - q
      BY <1>4
    <2>2. Len(rest) = q - 1
      BY <1>3
    <2> HIDE DEF c, l, q, rest
    <2> QED  BY <1>2, <1>5, <2>1, <2>2, SMT
  <1>7. seq = s[k].seq /\ ~ s[k].acked
    BY <1>3, <1>4, <1>6
  <1>8. First(w, w.xTxQueue) = s[k]
    <2>1. SegmentAt(w, seq) = k
      BY <1>1, <1>6, <1>7, SegmentAtIs
    <2> QED  BY <2>1 DEF First
  <1>9. high \in Seqs
    <2>1. s[k].len \in Nat
      BY <1>2, <1>6, SegmentIs
    <2> QED  BY <1>3, <1>8, <2>1, PlusInSeqs
  <1> HIDE DEF high
  <1>10. /\ v \in WindowType /\ v.segs = s /\ v.open = open
         /\ v.xTxQueue = rest /\ v.xWaitQueue = w.xWaitQueue
         /\ v.xPriorityQueue = w.xPriorityQueue
         /\ v.current = w.current /\ v.next = w.next
    BY <1>1, <1>2, <1>3, <1>9 DEF WindowType
  <1> HIDE DEF v, seq, c, k, q, rest
  <1>11. /\ SameButCounts(u, v) /\ u.xWaitQueue = Append(v.xWaitQueue, seq)
    BY <1>1, <1>6, <1>7, <1>10, ChosenIs
  <1>12. SegmentAt(v, seq) = k
    BY <1>1, <1>6, <1>7, <1>10, SegmentAtIs
  <1> HIDE DEF u, open
  <1>13. /\ u \in WindowType /\ AllSame(u.segs, s)
         /\ \A i \in 1 .. l : u.segs[i].acked <=> s[i].acked
         /\ u.open = open /\ u.xTxQueue = rest
         /\ u.xPriorityQueue = w.xPriorityQueue
         /\ u.xWaitQueue = Append(w.xWaitQueue, seq)
         /\ u.current = w.current /\ u.next = w.next
    BY <1>10, <1>11 DEF SameButCounts
  <1>14. u.segs \in Seq(SegmentType) /\ Len(u.segs) = l
    BY <1>13, WindowIs DEF AllSame
  <1>15. Chained(u.segs, left, mid) /\ Placed(u.segs, tail, base)
    BY <1>1, <1>2, <1>13, <1>14, SameChain
  <1>16. /\ \A i \in 1 .. l : /\ u.segs[i].seq = s[i].seq
                              /\ u.segs[i].len = s[i].len
                              /\ At(u.segs[i]) = At(s[i])
                              /\ Behind(u.segs[i]) = Behind(s[i])
    BY <1>13 DEF AllSame, At, Behind
  <1>17. AckedAreHeld(u.segs, has)
    BY <1>1, <1>13, <1>14, <1>16 DEF AckedAreHeld
  <1>18. SentCount(u) = k
    <2>1. SentCount(u) = l - Len(rest)
      BY <1>13, <1>14 DEF SentCount
    <2> HIDE DEF l
    <2> QED  BY <1>2, <1>6, <2>1, SMT
  <1>19. seq \notin Waiting(w)
    <2> SUFFICES ASSUME seq \in Waiting(w) PROVE FALSE
      OBVIOUS
    <2>1. PICK i \in 1 .. c : seq = s[i].seq
      BY <1>4
    <2>2. i \in 1 .. l /\ i # k
      BY <1>6
    <2>3. s[i].seq = s[k].seq => i = k
      BY <1>1, <1>2, <1>6, <2>2, ChainApart
    <2> QED  BY <1>7, <2>1, <2>2, <2>3
  <1>20. /\ Members(u.xWaitQueue) = Members(w.xWaitQueue) \cup {seq}
         /\ Once(u.xWaitQueue)
    <2>1. seq \notin Members(w.xWaitQueue)
      BY <1>19 DEF Waiting
    <2> QED  BY <1>2, <1>3, <1>4, <1>13, <2>1, AppendIs
  <1>21. Waiting(u) = {u.segs[i].seq : i \in {i \in 1 .. k : ~ u.segs[i].acked}}
    <2>1. Waiting(u) = Waiting(w) \cup {seq}
      BY <1>13, <1>20 DEF Waiting
    <2> DEFINE S == {s[i].seq : i \in {i \in 1 .. c : ~ s[i].acked}}
               U == {u.segs[i].seq : i \in {i \in 1 .. k : ~ u.segs[i].acked}}
    <2>2. ASSUME NEW x \in S PROVE x \in U
      <3>1. PICK i \in 1 .. c : ~ s[i].acked /\ x = s[i].seq
        OBVIOUS
      <3>2. i \in 1 .. l /\ i \in 1 .. k
        BY <1>6
      <3>3. ~ u.segs[i].acked /\ u.segs[i].seq = x
        BY <1>13, <1>16, <3>1, <3>2
      <3> QED  BY <3>2, <3>3
    <2>3. seq \in U
      <3>1. ~ u.segs[k].acked /\ u.segs[k].seq = seq
        BY <1>6, <1>7, <1>13, <1>16
      <3> QED  BY <1>6, <3>1
    <2>4. ASSUME NEW x \in U PROVE x \in S \cup {seq}
      <3>1. PICK i \in 1 .. k : ~ u.segs[i].acked /\ x = u.segs[i].seq
        OBVIOUS
      <3>2. i \in 1 .. c \/ i = k
        BY <1>6
      <3>3. CASE i = k
        BY <1>6, <1>7, <1>16, <3>1, <3>3
      <3>4. CASE i \in 1 .. c
        <4>1. i \in 1 .. l
          BY <1>6, <3>4
        <4>2. ~ s[i].acked /\ s[i].seq = x
          BY <1>13, <1>16, <3>1, <4>1
        <4> QED  BY <3>4, <4>2
      <3> QED  BY <3>2, <3>3, <3>4
    <2> HIDE DEF U
    <2>5. S \cup {seq} = U
      BY <2>2, <2>3, <2>4
    <2>6. Waiting(w) = S
      BY <1>4
    <2> QED  BY <2>1, <2>5, <2>6 DEF U
  <1>22. ASSUME NEW i \in 1 .. Len(rest)
         PROVE  rest[i] = u.segs[k + i].seq /\ ~ u.segs[k + i].acked
    <2>1. i \in 1 .. l - k
      BY <1>6
    <2>2. /\ i + 1 \in 1 .. q /\ c + (i + 1) = k + i
      BY <1>6, <2>1
    <2>3. rest[i] = s[k + i].seq /\ ~ s[k + i].acked
      <3>1. rest[i] = w.xTxQueue[i + 1]
        BY <1>3
      <3>2. w.xTxQueue[i + 1] = s[c + (i + 1)].seq /\ ~ s[c + (i + 1)].acked
        BY <1>4, <2>2
      <3> QED  BY <2>2, <3>1, <3>2
    <2>4. k + i \in 1 .. l
      <3> HIDE DEF l
      <3> QED  BY <1>2, <1>6, <2>1, SMT
    <2> QED  BY <1>13, <1>16, <2>3, <2>4
  <1>23. open => rest # <<>> /\ u.segs[Len(u.segs)].len < MSS
    <2> SUFFICES ASSUME open PROVE rest # <<>> /\ u.segs[Len(u.segs)].len < MSS
      OBVIOUS
    <2>1. w.open /\ s[l].seq # seq
      BY DEF open
    <2>2. l # k
      BY <1>7, <2>1
    <2>3. Len(rest) # 0 /\ l \in 1 .. l
      <3> HIDE DEF l
      <3> QED  BY <1>2, <1>6, <2>2, SMT
    <2>4. u.segs[l].len = s[l].len
      BY <1>16, <2>3
    <2> QED  BY <1>3, <1>4, <1>14, <2>1, <2>3, <2>4, EmptySeq
  <1>24. Queues(u)
    <2>1. Len(rest) <= Len(u.segs)
      <3> HIDE DEF l
      <3> QED  BY <1>2, <1>6, <1>14, SMT
    <2>2. Members(u.xPriorityQueue) \cap Members(u.xWaitQueue) = {}
      <3>1. seq \notin Members(w.xPriorityQueue)
        BY <1>19 DEF Waiting
      <3> QED  BY <1>4, <1>13, <1>20, <3>1
    <2> QED  BY <1>4, <1>13, <1>18, <1>20, <1>21, <1>22, <1>23, <2>1, <2>2
             DEF Queues
  <1>25. Good(u, left, mid, tail, base, has)
    BY <1>1, <1>13, <1>14, <1>15, <1>17, <1>24 DEF Good
  <1>26. SentUpTo(w, mid) = At(s[k])
    BY <1>6 DEF SentUpTo, c
  <1>27. SentUpTo(u, mid) = Behind(s[k])
    <2>1. CASE rest = <<>>
      <3>1. k = l
        <4>1. Len(rest) = 0
          BY <2>1
        <4> HIDE DEF l
        <4> QED  BY <1>2, <1>6, <4>1, SMT
      <3>2. Behind(s[k]) = mid
        BY <1>1, <1>6, <3>1 DEF Chained
      <3> QED  BY <1>13, <2>1, <3>2 DEF SentUpTo
    <2>2. CASE rest # <<>>
      <3>1. Len(rest) # 0
        BY <1>3, <2>2, EmptySeq
      <3>2. k + 1 \in 1 .. l /\ k + 1 # 1 /\ (k + 1) - 1 = k
        <4> HIDE DEF l
        <4> QED  BY <1>2, <1>6, <3>1, SMT
      <3>3. At(s[k + 1]) = Behind(s[k])
        BY <1>1, <3>2 DEF Chained
      <3>4. SentUpTo(u, mid) = At(u.segs[k + 1])
        BY <1>13, <1>18, <2>2 DEF SentUpTo
      <3> QED  BY <1>16, <3>2, <3>3, <3>4
    <2> QED  BY <2>1, <2>2
  <1>28. /\ SentUpTo(w, mid) <= SentUpTo(u, mid)
         /\ Behind(s[k]) <= SentUpTo(u, mid)
    <2>1. At(s[k]) < Behind(s[k]) /\ Behind(s[k]) \in Nat /\ At(s[k]) \in Nat
      BY <1>1, <1>2, <1>6, ChainIs
    <2> QED  BY <1>26, <1>27, <2>1, SMT
  <1>29. SentTo(v, u, w, seq, left, mid, tail, base, has)
    BY <1>6, <1>7, <1>10, <1>12, <1>25, <1>28 DEF SentTo
  <1> QED  BY <1>29 DEF u, v, seq, high

-----------------------------------------------------------------------------
(* The steps of the IP task.                                                 *)

LEMMA Facts ==
    ASSUME IInv
    PROVE  /\ txStream \in Markers /\ txStream.tail \in Index
           /\ MidWithin(txStream)
           /\ uxStreamBufferDistance(txStream.tail, txStream.mid) \in Nat
           /\ uxStreamBufferGetSize(txStream) \in 0 .. LENGTH - 1
           /\ Mid = released
                 + uxStreamBufferDistance(txStream.tail, txStream.mid)
           /\ written = released + uxStreamBufferGetSize(txStream)
           /\ released \in Nat /\ Mid \in Nat /\ written \in Nat
           /\ written <= StreamLength /\ released <= Mid /\ Mid <= written
           /\ Good(window, released, Mid, txStream.tail, released, held)
           /\ PeerHas(held, window, released, Mid)
           /\ held \subseteq Bytes
           /\ SentUpTo(window, Mid) \in released .. Mid
  <1> DEFINE d == uxStreamBufferDistance(txStream.tail, txStream.mid)
             s == uxStreamBufferGetSize(txStream)
  <1>1. /\ txStream \in Markers /\ written \in 0 .. StreamLength
        /\ released \in 0 .. written /\ held \subseteq Bytes
    BY DEF IInv, TypeOK
  <1>2. /\ d \in Nat /\ s \in 0 .. LENGTH - 1 /\ txStream.tail \in Index
    BY <1>1, SizeAndSpace
  <1>3. d <= s /\ written = released + s /\ Mid = released + d
    BY DEF IInv, StreamInv, Mid
  <1>4. Good(window, released, Mid, txStream.tail, released, held)
    BY DEF IInv
  <1>5. SentUpTo(window, Mid) \in released .. Mid
    BY <1>4, SentIs
  <1>6. PeerHas(held, window, released, Mid)
    BY DEF IInv, NetworkInv, PeerHas
  <1>7. MidWithin(txStream)
    BY <1>3 DEF MidWithin
  <1> HIDE DEF d, s
  <1>8. /\ released \in Nat /\ written \in Nat /\ written <= StreamLength
        /\ released + d \in Nat /\ released <= released + d
        /\ released + d <= written
    BY <1>1, <1>2, <1>3, Sizes, SMT
  <1>9. Mid \in Nat /\ released <= Mid /\ Mid <= written
    BY <1>3, <1>8
  <1> QED  BY <1>1, <1>2, <1>3, <1>4, <1>5, <1>6, <1>7, <1>8, <1>9 DEF d, s

\* A packet may carry more than what was sent before.
LEMMA CarriesMore ==
    ASSUME NEW a \in Nat, NEW b \in Nat, a <= b, NEW p, Carries(p, a)
    PROVE  Carries(p, b)
  <1>1. CASE p = Question
    BY <1>1 DEF Carries
  <1>2. CASE p # Question
    <2>1. PICK x \in 0 .. StreamLength, n \in 0 .. MSS :
             /\ x + n <= a
             /\ p = [seq |-> SeqOf(x), data |-> [k \in 1 .. n |-> x + k - 1]]
      BY <1>2 DEF Carries
    <2>2. x + n <= b
      BY <2>1, Sizes, PoolSizes, SMT
    <2> QED  BY <2>1, <2>2 DEF Carries
  <1> QED  BY <1>1, <1>2

\* What is peeked for a segment are the bytes the owner wrote there.
LEMMA DataIs ==
    ASSUME IInv, NEW s, NEW off \in Nat, NEW n \in Nat, s.len = n, n >= 1,
           off + n <= uxStreamBufferGetSize(txStream),
           s.pos = Wrap(txStream.tail + off)
    PROVE  Data(s) = [k \in 1 .. n |-> (released + off) + k - 1]
  <1> DEFINE size == uxStreamBufferGetSize(txStream)
             tail == txStream.tail
             bytes == BytesAt(ucArray, txStream, off, n)
             none == [k \in 1 .. s.len - n |-> Garbage]
  <1>1. /\ tail \in Index /\ size \in 0 .. LENGTH - 1 /\ released \in Nat
    BY Facts
  <1>2. off + n <= size
    OBVIOUS
  <1>3. uxStreamBufferDistance(tail, s.pos) = off
    <2> HIDE DEF size, tail
    <2>1. s.pos = Wrap(tail + off)
      BY DEF tail
    <2> QED  BY <1>1, <1>2, <2>1, LengthAssumption, SMT
             DEF Index, Wrap, uxStreamBufferDistance
  <1>4. GetCount(txStream, off, n) = n
    <2>1. GetCount(txStream, off, n) = Least(IF size > off THEN size - off ELSE 0, n)
      BY DEF GetCount, Fits
    <2> HIDE DEF size
    <2> QED  BY <1>1, <1>2, <2>1, LengthAssumption, SMT DEF Least
  <1>5. Data(s) = bytes \o none
    BY <1>3, <1>4 DEF Data
  <1>6. none = <<>>
    <2>1. 1 .. s.len - n = {}
      BY SMT
    <2> QED  BY <2>1
  <1>7. ASSUME NEW k \in 1 .. n
        PROVE  /\ bytes[k] = (released + off) + k - 1
               /\ (released + off) + k - 1 \in Nat
    <2> DEFINE i == off + (k - 1)
    <2>1. /\ i \in 0 .. size - 1
          /\ Wrap(Wrap(tail + off) + k - 1) = Wrap(tail + i)
          /\ released + i = (released + off) + k - 1
          /\ (released + off) + k - 1 \in Nat
      <3> HIDE DEF size, tail
      <3> QED  BY <1>1, <1>2, LengthAssumption, SMT DEF Index, Wrap
    <2> HIDE DEF i
    <2>2. ucArray[Wrap(tail + i)] = released + i
      BY <2>1 DEF IInv, StreamInv
    <2>3. bytes[k] = ucArray[Wrap(Wrap(tail + off) + k - 1)]
      BY DEF BytesAt
    <2> QED  BY <2>1, <2>2, <2>3
  <1>8. bytes = [k \in 1 .. n |-> (released + off) + k - 1]
    BY <1>7 DEF BytesAt
  <1>9. bytes \in Seq(Nat)
    <2>1. bytes \in [1 .. n -> Nat]
      BY <1>7, <1>8
    <2> HIDE DEF bytes
    <2> QED  BY <2>1, FunctionIsSeq
  <1> HIDE DEF bytes, none
  <1>10. bytes \o none = bytes
    BY <1>6, <1>9, ConcatEmptySeq
  <1> QED  BY <1>5, <1>8, <1>10

\* What a step leaves alone.
LEMMA StreamSame ==
    ASSUME IInv, txStream' = txStream, ucArray' = ucArray, written' = written,
           released' = released
    PROVE  StreamInv' /\ Mid' = Mid
  BY DEF IInv, StreamInv, Mid

LEMMA OwnerSame ==
    ASSUME IInv, txStream' = txStream, ucArray' = ucArray, written' = written,
           owner' = owner, shutdown' = shutdown,
           state' = state \/ state' # "FIN_WAIT_1"
    PROVE  OwnerInv'
  BY DEF IInv, OwnerInv

\* A packet is sent and its segment waits for the acknowledgement.
LEMMA TransmitIs ==
    ASSUME IInv, Sending, NEW v, NEW seq, NEW old,
           SentTo(v, Chosen(v, seq), window, seq, released, Mid,
                  txStream.tail, released, held),
           old \in 0 .. Len(Chosen(v, seq).xWaitQueue),
           Transmit(v, seq, old)
    PROVE  IInv'
  <1> DEFINE u == Chosen(v, seq)
             k == SegmentAt(v, seq)
             s == window.segs[k]
             p == [seq |-> seq, data |-> Data(v.segs[k])]
  <1>1. /\ keepAlives <= MaxKeepAlives
        /\ window' = u /\ wire' \in Carried(p)
        /\ burst' = IF burst.left = 1 THEN NoBurst
                    ELSE [burst EXCEPT !.left = @ - 1, !.old = old]
        /\ txStream' = txStream /\ peerWindow' = peerWindow /\ state' = state
        /\ keepAlives' = keepAlives /\ released' = released
        /\ ucArray' = ucArray /\ owner' = owner /\ written' = written
        /\ shutdown' = shutdown /\ held' = held /\ owes' = owes
    BY DEF Transmit, ownerVars, peerVars
  <1>2. /\ Good(u, released, Mid, txStream.tail, released, held)
        /\ SentUpTo(window, Mid) <= SentUpTo(u, Mid)
        /\ k \in 1 .. Len(window.segs) /\ seq = s.seq
        /\ v.segs[k].pos = s.pos /\ v.segs[k].len = s.len
        /\ Behind(s) <= SentUpTo(u, Mid)
    BY DEF SentTo
  <1>3. /\ Good(window, released, Mid, txStream.tail, released, held)
        /\ released \in Nat /\ Mid \in Nat /\ released <= Mid /\ Mid <= written
        /\ written = released + uxStreamBufferGetSize(txStream)
        /\ PeerHas(held, window, released, Mid)
        /\ SentUpTo(window, Mid) \in released .. Mid
        /\ uxStreamBufferGetSize(txStream) \in 0 .. LENGTH - 1
    BY Facts
  <1>4. /\ window.segs \in Seq(SegmentType) /\ Chained(window.segs, released, Mid)
        /\ Placed(window.segs, txStream.tail, released)
    BY <1>3, WindowIs DEF Good
  <1> HIDE DEF u, k
  <1>5. Mid' = Mid /\ StreamInv' /\ OwnerInv'
    BY <1>1, StreamSame, OwnerSame
  <1>6. SentUpTo(u, Mid) \in Nat /\ SentUpTo(window, Mid) \in Nat
    BY <1>2, <1>3, SentIs
  <1>7. Carries(p, SentUpTo(u, Mid))
    <2> DEFINE a == At(s)
               n == s.len
               off == a - released
               size == uxStreamBufferGetSize(txStream)
    <2>1. /\ a \in 0 .. StreamLength /\ a \in Nat /\ seq = SeqOf(a)
          /\ released <= a /\ Behind(s) = a + n /\ Behind(s) <= Mid
      BY <1>2, <1>4, ChainIs
    <2>2. n \in Nat /\ n >= 1 /\ n <= MSS
      BY <1>2, <1>4, SegmentIs
    <2>3. v.segs[k].pos = Wrap(txStream.tail + off) /\ v.segs[k].len = n
      BY <1>2, <1>4 DEF Placed
    <2>4. off \in Nat /\ off + n <= size /\ released + off = a /\ n \in 0 .. MSS
      <3>1. /\ a \in Nat /\ released <= a /\ a + n <= Mid
            /\ written = released + size /\ size \in Nat
        BY <1>3, <2>1, SizeAndSpace, Facts
      <3> HIDE DEF a, n, size
      <3> QED  BY <1>3, <2>2, <3>1, PoolSizes, SMT
    <2> DEFINE x == v.segs[k]
    <2>5. Data(x) = [j \in 1 .. n |-> (released + off) + j - 1]
      <3> HIDE DEF off, x, n
      <3>1. x.pos = Wrap(txStream.tail + off) /\ x.len = n
        BY <2>3 DEF x
      <3>2. off + n <= uxStreamBufferGetSize(txStream) /\ off \in Nat
        BY <2>4
      <3> QED  BY <2>2, <3>1, <3>2, DataIs
    <2>6. a + n <= SentUpTo(u, Mid)
      BY <1>2, <2>1
    <2> HIDE DEF a, n, off
    <2>7. p = [seq |-> SeqOf(a), data |-> [j \in 1 .. n |-> a + j - 1]]
      BY <2>1, <2>4, <2>5
    <2> QED  BY <2>1, <2>4, <2>6, <2>7 DEF Carries
  <1> HIDE DEF p
  <1>8. NetworkInv'
    <2>1. ASSUME NEW q \in wire' PROVE Carries(q, SentUpTo(u, Mid))
      <3>1. q \in wire \/ q = p
        BY <1>1 DEF Carried
      <3>2. ASSUME q \in wire PROVE Carries(q, SentUpTo(u, Mid))
        <4>1. Carries(q, SentUpTo(window, Mid))
          BY <3>2 DEF IInv, NetworkInv
        <4> QED  BY <1>2, <1>6, <4>1, CarriesMore
      <3> QED  BY <1>7, <3>1, <3>2
    <2>2. ASSUME NEW i \in held' PROVE i < SentUpTo(u, Mid)
      <3>1. i < SentUpTo(window, Mid) /\ i \in Nat
        BY <1>1, <1>3, Facts, Sizes, SMT DEF PeerHas, Bytes
      <3> QED  BY <1>2, <1>6, <3>1, SMT
    <2>3. \A i \in 0 .. released' - 1 : i \in held'
      BY <1>1, <1>3 DEF PeerHas
    <2> QED  BY <1>1, <1>5, <2>1, <2>2, <2>3 DEF NetworkInv
  <1>9. Good(window', released', Mid', txStream'.tail, released', held')
    BY <1>1, <1>2, <1>5
  <1>10. /\ burst.left \in 1 .. SEND_REPEATED_COUNT + 1
         /\ burst = [left |-> burst.left, old |-> burst.old,
                     timer |-> burst.timer]
         /\ state = "ESTABLISHED"
         /\ Borrowers < SegCount /\ window.segs = <<>> => Mid = written
    <2>1. burst.left \in 0 .. SEND_REPEATED_COUNT + 1 /\ burst.left > 0
      BY DEF IInv, TypeOK, Sending
    <2>2. burst.left \in 1 .. SEND_REPEATED_COUNT + 1
      BY <2>1, TransmitAssumption, SMT
    <2> QED  BY <2>2 DEF IInv, BurstInv
  <1>11. /\ burst'.left \in 0 .. SEND_REPEATED_COUNT + 1
         /\ burst' = [left |-> burst'.left, old |-> burst'.old,
                      timer |-> burst'.timer]
         /\ burst'.old \in 0 .. Len(u.xWaitQueue)
    <2>1. CASE burst.left = 1
      <3>1. burst' = [left |-> 0, old |-> 0, timer |-> FALSE]
        BY <1>1, <2>1 DEF NoBurst
      <3>2. 0 \in 0 .. Len(u.xWaitQueue) /\ 0 \in 0 .. SEND_REPEATED_COUNT + 1
        <4>1. Len(u.xWaitQueue) \in Nat
          BY <1>2, WindowIs DEF Good
        <4> QED  BY <4>1, TransmitAssumption, SMT
      <3> QED  BY <3>1, <3>2
    <2>2. CASE burst.left # 1
      <3>1. burst' = [left |-> burst.left - 1, old |-> old,
                      timer |-> burst.timer]
        BY <1>1, <1>10, <2>2
      <3>2. burst.left - 1 \in 0 .. SEND_REPEATED_COUNT + 1
        BY <1>10, TransmitAssumption, SMT
      <3> QED  BY <3>1, <3>2 DEF u
    <2> QED  BY <2>1, <2>2
  <1>12. BurstInv'
    <2>1. u.segs = <<>> => window.segs = <<>>
      <3> SUFFICES ASSUME u.segs = <<>> PROVE window.segs = <<>>
        OBVIOUS
      <3>1. u.segs \in Seq(SegmentType)
        BY <1>2, WindowIs DEF Good
      <3>2. released = Mid
        BY <1>2 DEF Good, Chained
      <3>3. At(s) < Behind(s) /\ Behind(s) <= Mid /\ released <= At(s)
            /\ At(s) \in Nat /\ Behind(s) \in Nat
        BY <1>2, <1>4, ChainIs
      <3> QED  BY <1>3, <3>2, <3>3, SMT
    <2>2. burst'.left > 0 => state' = "ESTABLISHED"
      BY <1>1, <1>10
    <2> QED  BY <1>1, <1>5, <1>10, <1>11, <2>1, <2>2 DEF BurstInv, Sending
  <1>13. TypeOK'
    <2>1. u \in WindowType /\ Len(u.segs) <= SegCount
      BY <1>2 DEF Good
    <2> QED  BY <1>1, <1>11, <2>1 DEF IInv, TypeOK, WindowType
  <1> QED  BY <1>5, <1>8, <1>9, <1>12, <1>13 DEF IInv

LEMMA SendPriorityStep == IInv /\ SendPriority => IInv'
  <1> SUFFICES ASSUME IInv, SendPriority PROVE IInv'
    OBVIOUS
  <1> DEFINE v == [window EXCEPT !.xPriorityQueue = Tail(@)]
             seq == Head(window.xPriorityQueue)
  <1>1. /\ Sending /\ window.xPriorityQueue # <<>>
        /\ Transmit(v, seq, burst.old)
    BY DEF SendPriority
  <1>2. Good(window, released, Mid, txStream.tail, released, held)
    BY Facts
  <1>3. /\ SentTo(v, Chosen(v, seq), window, seq, released, Mid,
                  txStream.tail, released, held)
        /\ Len(Chosen(v, seq).xWaitQueue) = Len(window.xWaitQueue) + 1
    BY <1>1, <1>2, PriorityIsGood
  <1> HIDE DEF v, seq
  <1>4. burst.old \in 0 .. Len(Chosen(v, seq).xWaitQueue)
    <2>1. burst.old \in 0 .. Len(window.xWaitQueue)
      BY DEF IInv, BurstInv
    <2>2. Len(window.xWaitQueue) \in Nat
      BY <1>2, WindowIs DEF Good
    <2> DEFINE l == Len(Chosen(v, seq).xWaitQueue)
    <2>3. l = Len(window.xWaitQueue) + 1
      BY <1>3
    <2> HIDE DEF l
    <2>4. burst.old \in 0 .. l
      BY <2>1, <2>2, <2>3, SMT
    <2> QED  BY <2>4 DEF l
  <1> QED  BY <1>1, <1>3, <1>4, TransmitIs

LEMMA SendExpiredStep == IInv /\ SendExpired => IInv'
  <1> SUFFICES ASSUME IInv, SendExpired PROVE IInv'
    OBVIOUS
  <1> DEFINE seq == Head(window.xWaitQueue)
             v == [window EXCEPT !.xWaitQueue = Tail(@),
                      !.segs[SegmentAt(window, seq)].ucDupAckCount = 0]
  <1>1. /\ Sending /\ burst.old > 0 /\ Transmit(v, seq, burst.old - 1)
    BY DEF SendExpired
  <1>2. Good(window, released, Mid, txStream.tail, released, held)
    BY Facts
  <1>3. /\ burst.old \in 0 .. Len(window.xWaitQueue)
        /\ Len(window.xWaitQueue) \in Nat
    BY <1>2, WindowIs DEF Good, IInv, BurstInv
  <1>4. window.xWaitQueue # <<>>
    <2>1. Len(window.xWaitQueue) # 0
      BY <1>1, <1>3, SMT
    <2> QED  BY <2>1
  <1>5. /\ SentTo(v, Chosen(v, seq), window, seq, released, Mid,
                  txStream.tail, released, held)
        /\ Len(Chosen(v, seq).xWaitQueue) = Len(window.xWaitQueue)
    BY <1>2, <1>4, ExpiredIsGood
  <1> HIDE DEF v, seq
  <1>6. burst.old - 1 \in 0 .. Len(window.xWaitQueue)
    BY <1>1, <1>3, SMT
  <1>7. burst.old - 1 \in 0 .. Len(Chosen(v, seq).xWaitQueue)
    BY <1>5, <1>6
  <1> QED  BY <1>1, <1>5, <1>7, TransmitIs

LEMMA SendNewStep == IInv /\ SendNew => IInv'
  <1> SUFFICES ASSUME IInv, SendNew PROVE IInv'
    OBVIOUS
  <1> DEFINE seq == Head(window.xTxQueue)
             last == Len(window.segs)
             v == [window EXCEPT
                     !.xTxQueue = Tail(@),
                     !.open = @ /\ window.segs[last].seq # seq,
                     !.highest = Plus(seq, First(window, window.xTxQueue).len)]
  <1>1. /\ Sending /\ window.xTxQueue # <<>> /\ Transmit(v, seq, 0)
    BY DEF SendNew, MaySendNew
  <1>2. Good(window, released, Mid, txStream.tail, released, held)
    BY Facts
  <1>3. SentTo(v, Chosen(v, seq), window, seq, released, Mid,
               txStream.tail, released, held)
    BY <1>1, <1>2, NewIsGood
  <1> HIDE DEF v, seq
  <1>4. 0 \in 0 .. Len(Chosen(v, seq).xWaitQueue)
    <2>1. Len(Chosen(v, seq).xWaitQueue) \in Nat
      BY <1>3, WindowIs DEF SentTo, Good
    <2> QED  BY <2>1, SMT
  <1> QED  BY <1>1, <1>3, <1>4, TransmitIs

\* A step that leaves the stream, the window and what the peer has alone.
LEMMA RestSame ==
    ASSUME IInv, txStream' = txStream, ucArray' = ucArray, window' = window,
           written' = written, released' = released, held' = held,
           \A p \in wire' : p \in wire \/ p = Question
    PROVE  /\ StreamInv' /\ Mid' = Mid /\ NetworkInv'
           /\ Good(window, released, Mid, txStream.tail, released, held)'
  <1>1. StreamInv' /\ Mid' = Mid
    BY StreamSame
  <1>2. Good(window, released, Mid, txStream.tail, released, held)'
    BY <1>1 DEF IInv
  <1>3. NetworkInv'
    <2>1. \A p \in wire' : Carries(p, SentUpTo(window, Mid))
      BY DEF IInv, NetworkInv, Carries
    <2> QED  BY <1>1, <2>1 DEF IInv, NetworkInv
  <1> QED  BY <1>1, <1>2, <1>3

LEMMA NoBurstIs ==
    ASSUME IInv, window' = window, burst' = NoBurst
    PROVE  BurstInv' /\ burst'.left \in 0 .. SEND_REPEATED_COUNT + 1
  <1>1. burst' = [left |-> 0, old |-> 0, timer |-> FALSE]
    BY DEF NoBurst
  <1>2. 0 \in 0 .. Len(window.xWaitQueue) /\ 0 \in 0 .. SEND_REPEATED_COUNT + 1
    <2>1. Len(window.xWaitQueue) \in Nat
      BY Facts, WindowIs DEF Good
    <2> QED  BY <2>1, TransmitAssumption, SMT
  <1>3. ~ Sending'
    BY <1>1 DEF Sending
  <1> QED  BY <1>1, <1>2, <1>3 DEF BurstInv

LEMMA SendFinStep == IInv /\ SendFin => IInv'
  <1> SUFFICES ASSUME IInv, SendFin PROVE IInv'
    OBVIOUS
  <1>1. /\ shutdown /\ state' = "FIN_WAIT_1" /\ shutdown' = FALSE
        /\ burst' = NoBurst
        /\ txStream' = txStream /\ ucArray' = ucArray /\ window' = window
        /\ peerWindow' = peerWindow /\ keepAlives' = keepAlives
        /\ owner' = owner /\ written' = written /\ released' = released
        /\ wire' = wire /\ held' = held /\ owes' = owes
    BY DEF SendFin, peerVars
  <1>2. /\ StreamInv' /\ NetworkInv'
        /\ Good(window, released, Mid, txStream.tail, released, held)'
    BY <1>1, RestSame
  <1>3. BurstInv' /\ burst'.left \in 0 .. SEND_REPEATED_COUNT + 1
    BY <1>1, NoBurstIs
  <1>4. OwnerInv'
    BY <1>1 DEF IInv, OwnerInv
  <1>5. TypeOK'
    BY <1>1, <1>3 DEF IInv, TypeOK
  <1> QED  BY <1>2, <1>3, <1>4, <1>5 DEF IInv

LEMMA SendKeepAliveStep == IInv /\ SendKeepAlive => IInv'
  <1> SUFFICES ASSUME IInv, SendKeepAlive PROVE IInv'
    OBVIOUS
  <1>1. /\ keepAlives <= MaxKeepAlives /\ keepAlives' = keepAlives + 1
        /\ wire' = wire \cup {Question} /\ burst' = NoBurst
        /\ txStream' = txStream /\ ucArray' = ucArray /\ window' = window
        /\ peerWindow' = peerWindow /\ state' = state /\ shutdown' = shutdown
        /\ owner' = owner /\ written' = written /\ released' = released
        /\ held' = held /\ owes' = owes
    BY DEF SendKeepAlive, ownerVars, peerVars
  <1>2. /\ StreamInv' /\ NetworkInv'
        /\ Good(window, released, Mid, txStream.tail, released, held)'
    <2>1. \A p \in wire' : p \in wire \/ p = Question
      BY <1>1
    <2> QED  BY <1>1, <2>1, RestSame
  <1>3. BurstInv' /\ burst'.left \in 0 .. SEND_REPEATED_COUNT + 1
    BY <1>1, NoBurstIs
  <1>4. OwnerInv'
    BY <1>1, OwnerSame
  <1>5. keepAlives' \in 0 .. MaxKeepAlives + 1
    <2>1. keepAlives \in 0 .. MaxKeepAlives + 1
      BY DEF IInv, TypeOK
    <2> QED  BY <1>1, <2>1, TransmitAssumption, SMT
  <1>6. TypeOK'
    BY <1>1, <1>3, <1>5 DEF IInv, TypeOK
  <1> QED  BY <1>2, <1>3, <1>4, <1>6 DEF IInv

LEMMA SendNothingStep == IInv /\ SendNothing => IInv'
  <1> SUFFICES ASSUME IInv, SendNothing PROVE IInv'
    OBVIOUS
  <1>1. /\ keepAlives' = keepAlives /\ wire' = wire /\ burst' = NoBurst
        /\ txStream' = txStream /\ ucArray' = ucArray /\ window' = window
        /\ peerWindow' = peerWindow /\ state' = state /\ shutdown' = shutdown
        /\ owner' = owner /\ written' = written /\ released' = released
        /\ held' = held /\ owes' = owes
    BY DEF SendNothing, ownerVars, peerVars
  <1>2. /\ StreamInv' /\ NetworkInv'
        /\ Good(window, released, Mid, txStream.tail, released, held)'
    BY <1>1, RestSame
  <1>3. BurstInv' /\ burst'.left \in 0 .. SEND_REPEATED_COUNT + 1
    BY <1>1, NoBurstIs
  <1>4. OwnerInv'
    BY <1>1, OwnerSame
  <1>5. TypeOK'
    BY <1>1, <1>3 DEF IInv, TypeOK
  <1> QED  BY <1>2, <1>3, <1>4, <1>5 DEF IInv

LEMMA GiveUpStep == IInv /\ GiveUp => IInv'
  <1> SUFFICES ASSUME IInv, GiveUp PROVE IInv'
    OBVIOUS
  <1>1. /\ keepAlives' = keepAlives /\ wire' = wire /\ burst' = NoBurst
        /\ txStream' = txStream /\ ucArray' = ucArray /\ window' = window
        /\ peerWindow' = peerWindow /\ state' = "CLOSE_WAIT"
        /\ shutdown' = shutdown
        /\ owner' = owner /\ written' = written /\ released' = released
        /\ held' = held /\ owes' = owes
    BY DEF GiveUp, ownerVars, peerVars
  <1>2. /\ StreamInv' /\ NetworkInv'
        /\ Good(window, released, Mid, txStream.tail, released, held)'
    BY <1>1, RestSame
  <1>3. BurstInv' /\ burst'.left \in 0 .. SEND_REPEATED_COUNT + 1
    BY <1>1, NoBurstIs
  <1>4. OwnerInv'
    BY <1>1, OwnerSame
  <1>5. TypeOK'
    BY <1>1, <1>3 DEF IInv, TypeOK
  <1> QED  BY <1>2, <1>3, <1>4, <1>5 DEF IInv

\* What a packet or the timer leaves to be sent: window w and stream m, the
\* left side at byte new.
Ready(w, m, new) ==
    /\ m \in Markers /\ m.head = txStream.head /\ MidWithin(m)
    /\ new \in released .. Mid
    /\ Mid = new + uxStreamBufferDistance(m.tail, m.mid)
    /\ written = new + uxStreamBufferGetSize(m)
    /\ \A k \in 0 .. uxStreamBufferGetSize(m) - 1 :
          ucArray[Wrap(m.tail + k)] = new + k
    /\ Good(w, new, Mid, m.tail, new, held)
    /\ SentUpTo(w, Mid) = SentUpTo(window, Mid)
    /\ HeldBefore(new)

LEMMA StartSendingIs ==
    ASSUME IInv, NEW w, NEW m, NEW new, Ready(w, m, new),
           NEW left \in 1 .. SEND_REPEATED_COUNT + 1, NEW old, NEW timer,
           StartSending(w, m, left, old, timer),
           state = "ESTABLISHED", state' = state, released' = new,
           ucArray' = ucArray, owner' = owner, written' = written,
           shutdown' = shutdown, wire' = wire, held' = held,
           keepAlives' \in 0 .. MaxKeepAlives + 1, peerWindow' \in Windows,
           owes' \in BOOLEAN
    PROVE  IInv'
  <1>1. PICK b \in 0 .. Borrowers :
               /\ window' = prvTCPAddTxData(w, m, b).window
               /\ txStream' = prvTCPAddTxData(w, m, b).stream
    BY DEF StartSending
  <1> DEFINE add == prvTCPAddTxData(w, m, b)
             end == new + uxStreamBufferDistance(m.tail, add.stream.mid)
             size == uxStreamBufferGetSize(m)
  <1>2. /\ m \in Markers /\ m.head = txStream.head /\ MidWithin(m)
        /\ new \in released .. Mid
        /\ Mid = new + uxStreamBufferDistance(m.tail, m.mid)
        /\ written = new + size
        /\ \A k \in 0 .. size - 1 : ucArray[Wrap(m.tail + k)] = new + k
        /\ Good(w, new, Mid, m.tail, new, held)
        /\ SentUpTo(w, Mid) = SentUpTo(window, Mid)
        /\ \A i \in 0 .. new - 1 : i \in held
    BY DEF Ready, HeldBefore
  <1>3. /\ released \in Nat /\ Mid \in Nat /\ written \in Nat
        /\ written <= StreamLength
        /\ written = released + uxStreamBufferGetSize(txStream)
        /\ txStream \in Markers
    BY Facts
  <1>4. new \in Nat /\ released <= new /\ new + size <= StreamLength
    <2>1. new \in Nat /\ released <= new
      BY <1>2, <1>3, SMT
    <2> QED  BY <1>2, <1>3, <2>1
  <1>5. Started(add, w, m, new, Mid, held)
    <2> HIDE DEF add
    <2>1. Started(prvTCPAddTxData(w, m, b), w, m, new, Mid, held)
      BY <1>2, <1>4, StartedIs
    <2> QED  BY <2>1 DEF add
  <1> HIDE DEF add
  <1>6. /\ txStream' \in Markers /\ txStream'.tail = m.tail
        /\ txStream'.head = m.head
        /\ uxStreamBufferGetSize(txStream') = size
        /\ MidWithin(txStream') /\ end \in Mid .. StreamLength
        /\ end = new + uxStreamBufferDistance(m.tail, txStream'.mid)
        /\ Good(window', new, end, m.tail, new, held)
        /\ SentUpTo(window', end) = SentUpTo(window, Mid)
        /\ Borrowers < SegCount /\ window'.segs = <<>> => end = new + size
        /\ window'.xWaitQueue = w.xWaitQueue
    BY <1>1, <1>2, <1>5 DEF Started, add
  <1>7. Mid' = end
    BY <1>6 DEF Mid
  <1> HIDE DEF end
  <1>8. StreamInv'
    <2>1. MidWithin(txStream)'
      BY <1>6 DEF MidWithin
    <2>2. written' = released' + uxStreamBufferGetSize(txStream')
      BY <1>2, <1>6
    <2>3. \A k \in 0 .. uxStreamBufferGetSize(txStream') - 1 :
             ucArray'[Wrap(txStream'.tail + k)] = released' + k
      BY <1>2, <1>6
    <2> QED  BY <2>1, <2>2, <2>3 DEF StreamInv, MidWithin
  <1>9. OwnerInv'
    <2> SUFFICES ASSUME owner.at = "move"
                 PROVE  /\ owner.count <= uxStreamBufferGetSpace(txStream')
                        /\ written + owner.count <= StreamLength
                        /\ ~ shutdown /\ state # "FIN_WAIT_1"
                        /\ \A k \in 0 .. owner.count - 1 :
                              ucArray[Wrap(txStream'.head + k)] = written + k
      BY DEF OwnerInv
    <2>1. /\ owner.count <= uxStreamBufferGetSpace(txStream)
          /\ written + owner.count <= StreamLength
          /\ ~ shutdown /\ state # "FIN_WAIT_1"
          /\ \A k \in 0 .. owner.count - 1 :
                ucArray[Wrap(txStream.head + k)] = written + k
      BY DEF IInv, OwnerInv
    <2>2. owner.count <= uxStreamBufferGetSpace(txStream')
      <3> DEFINE old_ == uxStreamBufferGetSize(txStream)
                 c == owner.count
                 sp == uxStreamBufferGetSpace(txStream)
                 sq == uxStreamBufferGetSpace(txStream')
      <3>1. /\ sp = LENGTH - 1 - old_ /\ old_ \in Nat
            /\ sq = LENGTH - 1 - size /\ size \in Nat
        BY <1>2, <1>3, <1>6, SizeAndSpace
      <3>2. c \in Nat /\ c <= sp
        BY <2>1 DEF IInv, TypeOK
      <3>3. new + size = released + old_
        BY <1>2, <1>3
      <3> HIDE DEF old_, c, sp, sq, size
      <3>4. c <= sq
        BY <1>3, <1>4, <3>1, <3>2, <3>3, LengthAssumption, SMT
      <3> QED  BY <3>4 DEF c, sq
    <2> QED  BY <1>2, <1>6, <2>1, <2>2
  <1>10. NetworkInv'
    <2>1. SentUpTo(window', Mid') = SentUpTo(window, Mid)
      BY <1>6, <1>7
    <2>2. /\ \A p \in wire : Carries(p, SentUpTo(window, Mid))
          /\ \A i \in held : i < SentUpTo(window, Mid)
      BY DEF IInv, NetworkInv
    <2> QED  BY <1>2, <2>1, <2>2 DEF NetworkInv
  <1>11. Good(window', released', Mid', txStream'.tail, released', held')
    BY <1>6, <1>7
  <1>12. /\ burst' = [left |-> left, old |-> old, timer |-> timer]
         /\ old \in 0 .. Len(w.xWaitQueue)
    BY DEF StartSending
  <1>13. BurstInv'
    BY <1>2, <1>6, <1>7, <1>12 DEF BurstInv, Sending
  <1>14. TypeOK'
    <2>1. window' \in WindowType /\ Len(window'.segs) <= SegCount
      BY <1>6 DEF Good
    <2>2. burst'.left \in 0 .. SEND_REPEATED_COUNT + 1
      BY <1>12, TransmitAssumption, SMT
    <2>3. released' \in 0 .. written'
      <3>1. size \in Nat /\ written = new + size
        BY <1>2, SizeAndSpace
      <3> HIDE DEF size
      <3> QED  BY <1>4, <3>1, SMT
    <2> QED  BY <1>6, <2>1, <2>2, <2>3 DEF IInv, TypeOK, WindowType
  <1> QED  BY <1>8, <1>9, <1>10, <1>11, <1>13, <1>14 DEF IInv

LEMMA SocketCheckStep ==
    ASSUME IInv, NEW old, xTCPSocketCheck(old)
    PROVE  IInv'
  <1>1. /\ state = "ESTABLISHED"
        /\ StartSending(window, txStream, SEND_REPEATED_COUNT, old, TRUE)
        /\ peerWindow' = peerWindow /\ state' = state
        /\ keepAlives' = keepAlives /\ released' = released /\ wire' = wire
        /\ ucArray' = ucArray /\ owner' = owner /\ written' = written
        /\ shutdown' = shutdown /\ held' = held /\ owes' = owes
    BY DEF xTCPSocketCheck, ownerVars, peerVars
  <1>2. Ready(window, txStream, released)
    <2>1. released \in released .. Mid
      BY Facts, SMT
    <2> QED  BY <2>1, Facts DEF Ready, IInv, StreamInv, PeerHas, HeldBefore
  <1>3. SEND_REPEATED_COUNT \in 1 .. SEND_REPEATED_COUNT + 1
    BY TransmitAssumption, SMT
  <1>4. /\ keepAlives' \in 0 .. MaxKeepAlives + 1 /\ peerWindow' \in Windows
        /\ owes' \in BOOLEAN
    BY <1>1 DEF IInv, TypeOK
  <1> QED  BY <1>1, <1>2, <1>3, <1>4, StartSendingIs

\* An acknowledgement moves the left side, and the tail with it.
LEMMA AcknowledgedIsReady ==
    ASSUME IInv, NEW ack \in 0 .. StreamLength,
           \A i \in 0 .. ack - 1 : i \in held,
           NEW first, NEW last, Names(first, last, released, held)
    PROVE  LET r == Acknowledge(ack, first, last)
           IN  Ready(r.window, TailMoved(txStream, r.count),
                     released + r.count)
  <1> DEFINE r == Acknowledge(ack, first, last)
             d == uxStreamBufferDistance(txStream.tail, txStream.mid)
             size == uxStreamBufferGetSize(txStream)
  <1>1. /\ txStream \in Markers /\ txStream.tail \in Index
        /\ MidWithin(txStream) /\ d \in Nat /\ size \in 0 .. LENGTH - 1
        /\ Mid = released + d /\ written = released + size
        /\ released \in Nat /\ Mid \in Nat
        /\ Good(window, released, Mid, txStream.tail, released, held)
        /\ PeerHas(held, window, released, Mid)
    BY Facts
  <1>2. PICK n \in 0 .. d :
               /\ r.count = n
               /\ Good(r.window, released + n, Mid, txStream.tail,
                       released, held)
               /\ SentUpTo(r.window, Mid) = SentUpTo(window, Mid)
               /\ HeldBefore(released + n)
    BY <1>1, AcknowledgeIs
  <1> DEFINE t == TailMoved(txStream, n)
             new == released + n
  <1>3. /\ t \in Markers /\ t.tail = Wrap(txStream.tail + n)
        /\ t.head = txStream.head
        /\ uxStreamBufferGetSize(t) = size - n
        /\ uxStreamBufferDistance(t.tail, t.mid) = d - n
        /\ MidWithin(t)
        /\ \A k \in 0 .. uxStreamBufferGetSize(t) - 1 :
              Wrap(t.tail + k) = Wrap(txStream.tail + (n + k))
    BY <1>1, TailMovedIs
  <1>4. d <= size
    BY <1>1 DEF MidWithin
  <1> HIDE DEF d, size, t
  <1>5. /\ n \in Nat /\ n <= d /\ new \in released .. Mid /\ new \in Nat
        /\ Mid = new + (d - n) /\ written = new + (size - n)
        /\ new - released = n /\ Mid - released < LENGTH /\ released <= new
    BY <1>1, <1>2, <1>4, LengthAssumption, SMT
  <1>6. ASSUME NEW k \in 0 .. uxStreamBufferGetSize(t) - 1
        PROVE  ucArray[Wrap(t.tail + k)] = new + k
    <2>1. n + k \in 0 .. size - 1 /\ released + (n + k) = new + k
      <3>1. k \in 0 .. (size - n) - 1
        BY <1>3
      <3> QED  BY <1>1, <1>4, <1>5, <3>1, LengthAssumption, SMT
    <2>2. ucArray[Wrap(txStream.tail + (n + k))] = released + (n + k)
      BY <2>1 DEF IInv, StreamInv, size
    <2> QED  BY <1>3, <2>1, <2>2
  <1>7. Good(r.window, new, Mid, t.tail, new, held)
    <2> HIDE DEF new
    <2>1. Good(r.window, new, Mid, txStream.tail, released, held)
      BY <1>2 DEF new
    <2>2. Good(r.window, new, Mid, Wrap(txStream.tail + (new - released)),
               new, held)
      BY <1>1, <1>5, <2>1, MovedIsGood
    <2> QED  BY <1>3, <1>5, <2>2
  <1>8. Ready(r.window, t, new)
    <2> HIDE DEF r
    <2>1. HeldBefore(new)
      BY <1>2
    <2> HIDE DEF new
    <2>2. /\ Mid = new + uxStreamBufferDistance(t.tail, t.mid)
          /\ written = new + uxStreamBufferGetSize(t)
      BY <1>3, <1>5
    <2> QED  BY <1>2, <1>3, <1>5, <1>6, <1>7, <2>1, <2>2 DEF Ready
  <1> QED  BY <1>2, <1>8 DEF t

LEMMA ReceiveIs ==
    ASSUME IInv, NEW ack \in 0 .. StreamLength,
           \A i \in 0 .. ack - 1 : i \in held,
           NEW first, NEW last, Names(first, last, released, held),
           NEW win \in Windows, NEW old, Receive(ack, win, first, last, old),
           held' = held, owes' \in BOOLEAN
    PROVE  IInv'
  <1> DEFINE r == Acknowledge(ack, first, last)
             m == TailMoved(txStream, r.count)
             new == released + r.count
  <1>1. /\ state = "ESTABLISHED" /\ keepAlives' = 0 /\ peerWindow' = win
        /\ released' = new
        /\ StartSending(r.window, m, 1 + SEND_REPEATED_COUNT, old, FALSE)
        /\ state' = state /\ wire' = wire
        /\ ucArray' = ucArray /\ owner' = owner /\ written' = written
        /\ shutdown' = shutdown
    BY DEF Receive, ownerVars
  <1>2. Ready(r.window, m, new)
    BY AcknowledgedIsReady
  <1> HIDE DEF r, m, new
  <1>3. /\ 1 + SEND_REPEATED_COUNT \in 1 .. SEND_REPEATED_COUNT + 1
        /\ 0 \in 0 .. MaxKeepAlives + 1
    BY TransmitAssumption, SMT
  <1> QED  BY <1>1, <1>2, <1>3, StartSendingIs

\* An answer names the first byte the peer does not have, and bytes beyond it.
LEMMA SackNames ==
    ASSUME IInv, NEW s \in Sacks
    PROVE  Names(s[1], s[2], released, held)
  <1>1. /\ Contiguous \in 0 .. StreamLength
        /\ \A i \in 0 .. Contiguous - 1 : i \in held
        /\ Contiguous \notin held
    BY Facts, ContiguousIs
  <1>2. CASE s = <<0, 0>>
    BY <1>2 DEF Names
  <1>3. CASE s # <<0, 0>>
    <2>1. /\ s[1] \in Bytes /\ s[2] \in 0 .. StreamLength
          /\ s[1] > Contiguous /\ s[1] < s[2]
          /\ s[1] .. s[2] - 1 \subseteq held
      BY <1>3 DEF Sacks
    <2>2. s[1] \in 0 .. StreamLength
      BY <2>1, Sizes, SMT DEF Bytes
    <2>3. released <= Contiguous
      <3> SUFFICES ASSUME ~ (released <= Contiguous) PROVE FALSE
        OBVIOUS
      <3>1. Contiguous \in 0 .. released - 1
        BY <1>1, Facts, Sizes, SMT
      <3>2. Contiguous \in held
        BY <3>1, Facts DEF PeerHas
      <3> QED  BY <1>1, <3>2
    <2>4. s[1] # released
      BY <1>1, <2>1, <2>2, <2>3, Facts, Sizes, SMT
    <2> QED  BY <2>1, <2>2, <2>4 DEF Names
  <1> QED  BY <1>2, <1>3

LEMMA AnswerStep ==
    ASSUME IInv, NEW win \in Windows, NEW s \in Sacks, NEW old,
           Answer(win, s[1], s[2], old)
    PROVE  IInv'
  <1>1. Receive(Contiguous, win, s[1], s[2], old) /\ held' = held
        /\ owes' \in BOOLEAN
    BY DEF Answer
  <1>2. /\ Contiguous \in 0 .. StreamLength
        /\ \A i \in 0 .. Contiguous - 1 : i \in held
    BY Facts, ContiguousIs
  <1>3. Names(s[1], s[2], released, held)
    BY SackNames
  <1> QED  BY <1>1, <1>2, <1>3, ReceiveIs

LEMMA StaleAnswerStep ==
    ASSUME IInv, NEW ack \in 0 .. StreamLength, NEW win \in Windows, NEW old,
           StaleAnswer(ack, win, old)
    PROVE  IInv'
  <1>1. /\ ack <= Contiguous /\ Receive(ack, win, 0, 0, old)
        /\ held' = held /\ owes' = owes
    BY DEF StaleAnswer, peerVars
  <1>2. /\ Contiguous \in 0 .. StreamLength
        /\ \A i \in 0 .. Contiguous - 1 : i \in held
    BY Facts, ContiguousIs
  <1>3. \A i \in 0 .. ack - 1 : i \in held
    <2>1. \A i \in 0 .. ack - 1 : i \in 0 .. Contiguous - 1
      BY <1>1, <1>2, Sizes, SMT
    <2> QED  BY <1>2, <2>1
  <1>4. Names(0, 0, released, held) /\ owes' \in BOOLEAN
    BY <1>1 DEF Names, IInv, TypeOK
  <1> QED  BY <1>1, <1>3, <1>4, ReceiveIs


-----------------------------------------------------------------------------
(* The steps of the owner, of the network and of the peer.                   *)

\* Outside of a series the segments may end where they like.
LEMMA IdleIs ==
    ASSUME IInv, ~ Sending, window' = window, burst' = burst
    PROVE  BurstInv' /\ burst'.left \in 0 .. SEND_REPEATED_COUNT + 1
  BY DEF IInv, TypeOK, BurstInv, Sending

LEMMA SendCopyStep == IInv /\ SendCopy => IInv'
  <1> SUFFICES ASSUME IInv, SendCopy PROVE IInv'
    OBVIOUS
  <1>1. PICK n \in 1 .. SendSize :
           /\ state = "ESTABLISHED" /\ ~ Sending /\ ~ shutdown
           /\ written + n <= StreamLength
           /\ ucArray' = WrittenTo(ucArray, txStream, 0, n,
                                   [k \in 0 .. n - 1 |-> written + k])
           /\ owner' = [at |-> "move", count |-> AddCount(txStream, 0, n)]
           /\ txStream' = txStream /\ window' = window
           /\ peerWindow' = peerWindow /\ state' = state
           /\ shutdown' = shutdown /\ keepAlives' = keepAlives
           /\ burst' = burst /\ written' = written /\ released' = released
           /\ wire' = wire /\ held' = held /\ owes' = owes
    BY DEF SendCopy, peerVars
  <1> DEFINE c == AddCount(txStream, 0, n)
             byte == [k \in 0 .. n - 1 |-> written + k]
             size == uxStreamBufferGetSize(txStream)
             after == WrittenTo(ucArray, txStream, 0, n, byte)
  <1>2. /\ n \in Nat /\ n <= SendSize /\ txStream \in Markers
        /\ written \in Nat /\ ucArray \in [Index -> 0 .. StreamLength]
    <2>1. n \in Nat /\ n <= SendSize
      BY TransmitAssumption, SMT
    <2> QED  BY <2>1, Facts DEF IInv, TypeOK
  <1>3. /\ c \in Nat /\ c <= n /\ c <= uxStreamBufferGetSpace(txStream)
        /\ \A k \in 0 .. c - 1 : after[Wrap(txStream.head + k)] = byte[k]
        /\ \A k \in 0 .. size - 1 :
              after[Wrap(txStream.tail + k)] = ucArray[Wrap(txStream.tail + k)]
    BY <1>2, WrittenIs
  <1>4. ASSUME NEW k \in 0 .. c - 1
        PROVE  byte[k] = written + k /\ written + k \in 0 .. StreamLength
    <2>1. k \in 0 .. n - 1 /\ written + k \in 0 .. StreamLength
      <3> HIDE DEF c
      <3> QED  BY <1>1, <1>2, <1>3, Sizes, SMT
    <2> QED  BY <2>1
  <1>5. after \in [Index -> 0 .. StreamLength]
    <2> DEFINE dist(i) == uxStreamBufferDistance(Wrap(txStream.head + 0), i)
    <2>1. after = [i \in Index |-> IF dist(i) < c THEN byte[dist(i)]
                                   ELSE ucArray[i]]
      BY DEF WrittenTo
    <2>2. ASSUME NEW i \in Index PROVE dist(i) \in Nat
      <3>1. Wrap(txStream.head + 0) \in Index
        BY <1>2, SizeAndSpace, LengthAssumption, SMT DEF Index, Wrap
      <3> QED  BY <3>1, LengthAssumption, SMT
               DEF Index, Wrap, uxStreamBufferDistance
    <2> HIDE DEF dist, c, byte, after
    <2>3. ASSUME NEW i \in Index
          PROVE  (IF dist(i) < c THEN byte[dist(i)] ELSE ucArray[i])
                    \in 0 .. StreamLength
      <3>1. dist(i) < c => dist(i) \in 0 .. c - 1
        BY <1>3, <2>2, SMT
      <3>2. dist(i) < c => byte[dist(i)] \in 0 .. StreamLength
        BY <1>4, <3>1
      <3>3. ucArray[i] \in 0 .. StreamLength
        BY <1>2
      <3> QED  BY <3>2, <3>3
    <2> QED  BY <2>1, <2>3
  <1>6. ucArray' = after /\ owner' = [at |-> "move", count |-> c]
    BY <1>1
  <1> HIDE DEF c, byte, after
  <1>7. StreamInv' /\ Mid' = Mid
    BY <1>1, <1>3, <1>6 DEF IInv, StreamInv, Mid
  <1>8. OwnerInv'
    <2>1. \A k \in 0 .. c - 1 : ucArray'[Wrap(txStream.head + k)] = written + k
      BY <1>3, <1>4, <1>6
    <2>2. written + c <= StreamLength
      BY <1>1, <1>2, <1>3, Sizes, SMT
    <2> QED  BY <1>1, <1>3, <1>6, <2>1, <2>2 DEF OwnerInv
  <1>9. /\ NetworkInv'
        /\ Good(window, released, Mid, txStream.tail, released, held)'
    BY <1>1, <1>7 DEF IInv, NetworkInv
  <1>10. BurstInv'
    BY <1>1, IdleIs
  <1>11. TypeOK'
    <2>1. c \in 0 .. SendSize
      BY <1>2, <1>3, TransmitAssumption, SMT
    <2>2. /\ ucArray' \in [Index -> 0 .. StreamLength]
          /\ owner' \in [at : {"idle", "move"}, count : 0 .. SendSize]
      BY <1>5, <1>6, <2>1
    <2>3. /\ txStream' = txStream /\ window' = window
          /\ peerWindow' = peerWindow /\ state' = state
          /\ shutdown' = shutdown /\ keepAlives' = keepAlives
          /\ burst' = burst /\ written' = written /\ released' = released
          /\ held' = held /\ owes' = owes
      BY <1>1
    <2>4. TypeOK
      BY DEF IInv
    <2> QED  BY <2>2, <2>3, <2>4 DEF TypeOK
  <1> QED  BY <1>7, <1>8, <1>9, <1>10, <1>11 DEF IInv

LEMMA SendMoveStep == IInv /\ SendMove => IInv'
  <1> SUFFICES ASSUME IInv, SendMove PROVE IInv'
    OBVIOUS
  <1> DEFINE c == owner.count
             a == uxStreamBufferAdd(txStream, 0, c)
             size == uxStreamBufferGetSize(txStream)
             tail == txStream.tail
  <1>1. /\ owner.at = "move" /\ ~ Sending
        /\ txStream' = a /\ written' = written + c
        /\ owner' = [at |-> "idle", count |-> 0]
        /\ ucArray' = ucArray /\ window' = window /\ peerWindow' = peerWindow
        /\ state' = state /\ shutdown' = shutdown /\ keepAlives' = keepAlives
        /\ burst' = burst /\ released' = released /\ wire' = wire
        /\ held' = held /\ owes' = owes
    BY DEF SendMove, peerVars, Idle
  <1>2. /\ c <= uxStreamBufferGetSpace(txStream) /\ written + c <= StreamLength
        /\ \A k \in 0 .. c - 1 : ucArray[Wrap(txStream.head + k)] = written + k
    BY <1>1 DEF IInv, OwnerInv
  <1>3. /\ c \in Nat /\ txStream \in Markers
        /\ size \in Nat /\ written = released + size
        /\ released \in Nat /\ written \in Nat
        /\ uxStreamBufferDistance(tail, txStream.mid) \in Nat
        /\ uxStreamBufferDistance(tail, txStream.mid) <= size
    <2>1. c \in 0 .. SendSize
      BY DEF IInv, TypeOK
    <2>2. c \in Nat
      BY <2>1, TransmitAssumption, SMT
    <2> QED  BY <2>2, Facts, SizeAndSpace DEF MidWithin
  <1>4. /\ a \in Markers /\ a.tail = tail /\ a.mid = txStream.mid
        /\ uxStreamBufferGetSize(a) = size + c
        /\ \A k \in 0 .. c - 1 :
              Wrap(tail + (size + k)) = Wrap(txStream.head + k)
    BY <1>2, <1>3, AddIs
  <1> HIDE DEF a
  <1>5. Mid' = Mid
    BY <1>1, <1>4 DEF Mid
  <1>6. StreamInv'
    <2>1. ASSUME NEW k \in 0 .. (size + c) - 1
          PROVE  ucArray[Wrap(tail + k)] = released + k
      <3>1. CASE k < size
        <4>1. k \in 0 .. size - 1
          <5> HIDE DEF size, c
          <5> QED  BY <1>3, <3>1, SMT
        <4> QED  BY <4>1 DEF IInv, StreamInv
      <3>2. CASE ~ (k < size)
        <4> DEFINE j == k - size
        <4>1. j \in 0 .. c - 1 /\ size + j = k /\ written + j = released + k
          <5> HIDE DEF size, c
          <5> QED  BY <1>3, <3>2, SMT
        <4> HIDE DEF j
        <4>2. ucArray[Wrap(txStream.head + j)] = written + j
          BY <1>2, <4>1
        <4>3. Wrap(tail + (size + j)) = Wrap(txStream.head + j)
          BY <1>4, <4>1
        <4> QED  BY <4>1, <4>2, <4>3
      <3> QED  BY <3>1, <3>2
    <2>2. /\ written + c = released + (size + c)
          /\ uxStreamBufferDistance(tail, txStream.mid) <= size + c
      <3> DEFINE d == uxStreamBufferDistance(tail, txStream.mid)
      <3>1. d \in Nat /\ d <= size
        BY <1>3
      <3> HIDE DEF size, c, d
      <3>2. written + c = released + (size + c) /\ d <= size + c
        BY <1>3, <3>1, SMT
      <3> QED  BY <3>2 DEF d
    <2> HIDE DEF size, c
    <2> QED  BY <1>1, <1>4, <2>1, <2>2 DEF StreamInv, tail
  <1>7. OwnerInv'
    BY <1>1 DEF OwnerInv
  <1>8. /\ NetworkInv'
        /\ Good(window, released, Mid, txStream.tail, released, held)'
    BY <1>1, <1>4, <1>5 DEF IInv, NetworkInv
  <1>9. BurstInv'
    BY <1>1, IdleIs
  <1>10. TypeOK'
    <2>1. written' \in 0 .. StreamLength /\ released \in 0 .. written'
      <3> HIDE DEF size, c
      <3>1. written + c \in 0 .. StreamLength /\ released \in 0 .. written + c
        BY <1>2, <1>3, Sizes, SMT
      <3> QED  BY <1>1, <3>1
    <2>2. owner' \in [at : {"idle", "move"}, count : 0 .. SendSize]
      <3>1. 0 \in 0 .. SendSize
        BY TransmitAssumption, SMT
      <3> QED  BY <1>1, <3>1
    <2> QED  BY <1>1, <1>4, <2>1, <2>2 DEF IInv, TypeOK
  <1> QED  BY <1>6, <1>7, <1>8, <1>9, <1>10 DEF IInv

LEMMA ShutdownStep == IInv /\ Shutdown => IInv'
  <1> SUFFICES ASSUME IInv, Shutdown PROVE IInv'
    OBVIOUS
  <1>1. /\ ~ Sending /\ owner.at = "idle" /\ shutdown' = TRUE
        /\ txStream' = txStream /\ ucArray' = ucArray /\ window' = window
        /\ peerWindow' = peerWindow /\ state' = state
        /\ keepAlives' = keepAlives /\ burst' = burst /\ owner' = owner
        /\ written' = written /\ released' = released /\ wire' = wire
        /\ held' = held /\ owes' = owes
    BY DEF Shutdown, peerVars
  <1>2. /\ StreamInv' /\ NetworkInv'
        /\ Good(window, released, Mid, txStream.tail, released, held)'
    BY <1>1, RestSame
  <1>3. BurstInv'
    BY <1>1, IdleIs
  <1>4. OwnerInv'
    BY <1>1 DEF OwnerInv
  <1>5. TypeOK'
    BY <1>1 DEF IInv, TypeOK
  <1> QED  BY <1>2, <1>3, <1>4, <1>5 DEF IInv

\* The bytes a packet carries were all sent, and are bytes of the stream.
LEMMA CarriedBytes ==
    ASSUME NEW upto \in Nat, NEW p, Carries(p, upto), NEW i \in Bytes,
           NEW k \in DOMAIN p.data, SeqOf(i) = Plus(p.seq, k - 1)
    PROVE  i < upto
  <1>1. CASE p = Question
    BY <1>1 DEF Question
  <1>2. CASE p # Question
    <2>1. PICK a \in 0 .. StreamLength, n \in 0 .. MSS :
             /\ a + n <= upto
             /\ p = [seq |-> SeqOf(a), data |-> [j \in 1 .. n |-> a + j - 1]]
      BY <1>2 DEF Carries
    <2>2. k \in 1 .. n
      BY <2>1
    <2>3. CASE a + (k - 1) <= StreamLength
      <3>1. /\ a \in 0 .. StreamLength + 1 /\ k - 1 \in Nat
            /\ a + (k - 1) <= StreamLength + 1
            /\ a + (k - 1) \in 0 .. StreamLength + 1
            /\ i \in 0 .. StreamLength + 1
        BY <2>2, <2>3, Sizes, PoolSizes, SMT DEF Bytes
      <3>2. SeqOf(i) = SeqOf(a + (k - 1))
        BY <2>1, <3>1, PlusIs
      <3>3. i = a + (k - 1)
        BY <3>1, <3>2, SameNumber
      <3> QED  BY <2>1, <2>2, <3>3, Sizes, PoolSizes, SMT
    <2>4. CASE ~ (a + (k - 1) <= StreamLength)
      BY <2>1, <2>2, <2>4, Sizes, PoolSizes, SMT DEF Bytes
    <2> QED  BY <2>3, <2>4
  <1> QED  BY <1>1, <1>2

LEMMA DeliverStep == ASSUME NEW p PROVE IInv /\ Deliver(p) => IInv'
  <1> SUFFICES ASSUME IInv, Deliver(p) PROVE IInv'
    OBVIOUS
  <1> DEFINE x == SentUpTo(window, Mid)
  <1>1. /\ p \in wire /\ ~ Sending /\ wire' = wire \ {p}
        /\ held' = held \cup {i \in Bytes : \E k \in DOMAIN p.data :
                                               SeqOf(i) = Plus(p.seq, k - 1)}
        /\ owes' = TRUE
        /\ txStream' = txStream /\ window' = window /\ peerWindow' = peerWindow
        /\ state' = state /\ keepAlives' = keepAlives /\ burst' = burst
        /\ released' = released /\ ucArray' = ucArray /\ owner' = owner
        /\ written' = written /\ shutdown' = shutdown
    BY DEF Deliver, ownerVars
  <1>2. StreamInv' /\ Mid' = Mid
    BY <1>1, StreamSame
  <1>3. OwnerInv'
    BY <1>1, OwnerSame
  <1>4. BurstInv'
    BY <1>1, IdleIs
  <1>5. /\ \A q \in wire : Carries(q, x)
        /\ \A i \in held : i < x
        /\ \A i \in 0 .. released - 1 : i \in held
        /\ Good(window, released, Mid, txStream.tail, released, held)
        /\ x \in Nat
    BY SentIs DEF IInv, NetworkInv
  <1> HIDE DEF x
  <1>6. ASSUME NEW i \in held' PROVE i < x
    <2>1. CASE i \in held
      BY <1>5, <2>1
    <2>2. CASE i \notin held
      <3>1. PICK k \in DOMAIN p.data : SeqOf(i) = Plus(p.seq, k - 1)
        BY <1>1, <2>2
      <3>2. i \in Bytes /\ Carries(p, x)
        BY <1>1, <1>5, <2>2
      <3> QED  BY <1>5, <3>1, <3>2, CarriedBytes
    <2> QED  BY <2>1, <2>2
  <1>7. NetworkInv'
    <2>1. SentUpTo(window, Mid)' = x
      BY <1>1, <1>2 DEF x
    <2>2. \A i \in 0 .. released - 1 : i \in held'
      BY <1>1, <1>5
    <2>3. \A q \in wire' : Carries(q, x)
      BY <1>1, <1>5
    <2> QED  BY <1>1, <1>6, <2>1, <2>2, <2>3 DEF NetworkInv
  <1>8. Good(window, released, Mid, txStream.tail, released, held)'
    <2>1. AckedAreHeld(window.segs, held)
      BY <1>5 DEF Good
    <2>2. AckedAreHeld(window.segs, held')
      BY <1>1, <2>1 DEF AckedAreHeld
    <2>3. Good(window, released, Mid, txStream.tail, released, held')
      BY <1>5, <2>2 DEF Good
    <2> QED  BY <1>1, <1>2, <2>3
  <1>9. TypeOK'
    BY <1>1 DEF IInv, TypeOK
  <1> QED  BY <1>2, <1>3, <1>4, <1>7, <1>8, <1>9 DEF IInv

LEMMA LoseStep == IInv /\ Lose => IInv'
  <1> SUFFICES ASSUME IInv, Lose PROVE IInv'
    OBVIOUS
  <1>1. /\ ~ Sending /\ owes' \in BOOLEAN /\ wire' \subseteq wire
        /\ txStream' = txStream /\ window' = window /\ peerWindow' = peerWindow
        /\ state' = state /\ keepAlives' = keepAlives /\ burst' = burst
        /\ released' = released /\ held' = held /\ ucArray' = ucArray
        /\ owner' = owner /\ written' = written /\ shutdown' = shutdown
    BY DEF Lose, ownerVars, IInv, TypeOK
  <1>2. /\ StreamInv' /\ NetworkInv'
        /\ Good(window, released, Mid, txStream.tail, released, held)'
    BY <1>1, RestSame
  <1>3. BurstInv'
    BY <1>1, IdleIs
  <1>4. OwnerInv'
    BY <1>1, OwnerSame
  <1>5. TypeOK'
    BY <1>1 DEF IInv, TypeOK
  <1> QED  BY <1>2, <1>3, <1>4, <1>5 DEF IInv

-----------------------------------------------------------------------------
(* The invariant of the whole.                                               *)

LEMMA InitInvariant == Init => IInv
  <1> SUFFICES ASSUME Init PROVE IInv
    OBVIOUS
  <1>1. /\ txStream = [tail |-> 0, mid |-> 0, head |-> 0, front |-> 0]
        /\ ucArray = [i \in Index |-> Garbage]
        /\ window = [segs |-> <<>>, open |-> FALSE, xTxQueue |-> <<>>,
                     xPriorityQueue |-> <<>>, xWaitQueue |-> <<>>,
                     current |-> SeqOf(0), highest |-> SeqOf(0),
                     next |-> SeqOf(0), limit |-> TxWindow]
        /\ peerWindow \in Windows /\ state = "ESTABLISHED"
        /\ shutdown = FALSE /\ keepAlives = 0
        /\ burst = [left |-> 0, old |-> 0, timer |-> FALSE]
        /\ owner = [at |-> "idle", count |-> 0]
        /\ written = 0 /\ released = 0 /\ wire = {} /\ held = {}
        /\ owes = FALSE
    BY DEF Init, vStreamBufferClear, NoBurst, Idle
  <1>2. /\ 0 \in Index /\ Garbage \in 0 .. StreamLength
        /\ SeqOf(0) \in Seqs /\ TxWindow \in Nat /\ 0 <= SegCount
        /\ 0 \in 0 .. SendSize /\ 0 \in 0 .. MaxKeepAlives + 1
        /\ 0 \in 0 .. SEND_REPEATED_COUNT + 1
        /\ 0 \in 0 .. StreamLength /\ 0 \in 0 .. 0
    <2>1. 0 \in 0 .. StreamLength + 1
      BY Sizes, SMT
    <2>2. SeqOf(0) \in Seqs
      BY <2>1, SeqOfIs
    <2>3. /\ 0 \in Index /\ Garbage \in 0 .. StreamLength
          /\ 0 <= SegCount /\ 0 \in 0 .. StreamLength
          /\ 0 \in 0 .. SendSize /\ 0 \in 0 .. MaxKeepAlives + 1
          /\ 0 \in 0 .. SEND_REPEATED_COUNT + 1 /\ 0 \in 0 .. 0
      BY Sizes, TransmitAssumption, SMT DEF Index, Garbage
    <2> QED  BY <2>2, <2>3, TransmitAssumption
  <1>3. /\ uxStreamBufferDistance(txStream.tail, txStream.mid) = 0
        /\ uxStreamBufferGetSize(txStream) = 0
    <2>1. uxStreamBufferDistance(0, 0) = 0
      BY LengthAssumption, SMT DEF uxStreamBufferDistance, Wrap
    <2> QED  BY <1>1, <2>1 DEF uxStreamBufferGetSize
  <1>4. Mid = 0
    BY <1>1, <1>3 DEF Mid
  <1>5. <<>> \in Seq(SegmentType) /\ <<>> \in Seq(Seqs) /\ Len(<<>>) = 0
        /\ 1 .. Len(<<>>) = {}
    BY EmptySeq, SMT
  <1>6. window \in WindowType
    BY <1>1, <1>2, <1>5 DEF WindowType
  <1>7. TypeOK
    <2>1. txStream \in Markers
      BY <1>1, <1>2 DEF Markers
    <2> QED  BY <1>1, <1>2, <1>5, <1>6, <2>1 DEF TypeOK, WindowType
  <1>8. StreamInv
    <2>1. 0 .. 0 - 1 = {} /\ 0 <= 0 /\ 0 = 0 + 0
      BY SMT
    <2> QED  BY <1>1, <1>3, <2>1 DEF StreamInv
  <1>9. OwnerInv
    BY <1>1 DEF OwnerInv
  <1>10. Good(window, released, Mid, txStream.tail, released, held)
    <2>1. Chained(window.segs, 0, 0)
      BY <1>1, <1>2, <1>5 DEF Chained
    <2>2. Placed(window.segs, txStream.tail, 0)
          /\ AckedAreHeld(window.segs, held)
      BY <1>1, <1>5 DEF Placed, AckedAreHeld
    <2>3. Queues(window)
      <3>1. /\ Members(window.xPriorityQueue) = {}
            /\ Members(window.xWaitQueue) = {}
        BY <1>1, <1>5 DEF Members
      <3>2. {k \in 1 .. SentCount(window) : ~ window.segs[k].acked} = {}
        <4>1. SentCount(window) = 0
          BY <1>1, <1>5, SMT DEF SentCount
        <4>2. 1 .. 0 = {}
          BY SMT
        <4> QED  BY <4>1, <4>2
      <3>3. Waiting(window) = {window.segs[k].seq :
               k \in {k \in 1 .. SentCount(window) : ~ window.segs[k].acked}}
        BY <3>1, <3>2 DEF Waiting
      <3>4. Once(window.xPriorityQueue) /\ Once(window.xWaitQueue)
        BY <1>1, <1>5 DEF Once
      <3>5. Len(window.xTxQueue) <= Len(window.segs) /\ ~ window.open
            /\ 1 .. Len(window.xTxQueue) = {}
        BY <1>1, <1>5, SMT
      <3> QED  BY <3>1, <3>3, <3>4, <3>5 DEF Queues
    <2>4. /\ window.current = SeqOf(0) /\ window.next = SeqOf(0)
          /\ Len(window.segs) <= SegCount
      BY <1>1, <1>2, <1>5
    <2> QED  BY <1>1, <1>4, <1>6, <2>1, <2>2, <2>3, <2>4 DEF Good
  <1>11. NetworkInv
    <2>1. 0 .. 0 - 1 = {}
      BY SMT
    <2> QED  BY <1>1, <2>1 DEF NetworkInv
  <1>12. BurstInv
    <2>1. 0 \in 0 .. Len(window.xWaitQueue)
      BY <1>1, <1>2, <1>5
    <2>2. ~ Sending
      BY <1>1, SMT DEF Sending
    <2> QED  BY <1>1, <2>1, <2>2 DEF BurstInv
  <1> QED  BY <1>7, <1>8, <1>9, <1>10, <1>11, <1>12 DEF IInv

LEMMA StutterStep == IInv /\ UNCHANGED vars => IInv'
  <1> SUFFICES ASSUME IInv, UNCHANGED vars PROVE IInv'
    OBVIOUS
  <1> USE DEF vars
  <1>1. StreamInv' /\ Mid' = Mid
    BY StreamSame
  <1>2. OwnerInv'
    BY OwnerSame
  <1>3. NetworkInv' /\ Good(window, released, Mid, txStream.tail, released, held)'
    BY RestSame
  <1>4. TypeOK'
    BY DEF IInv, TypeOK
  <1>5. BurstInv'
    BY <1>1 DEF IInv, BurstInv, Sending
  <1> QED  BY <1>1, <1>2, <1>3, <1>4, <1>5 DEF IInv

LEMMA NextInvariant == IInv /\ [Next]_vars => IInv'
  <1> SUFFICES ASSUME IInv, [Next]_vars PROVE IInv'
    OBVIOUS
  <1>1. CASE PrepareSend
    BY <1>1, SendPriorityStep, SendExpiredStep, SendNewStep, SendFinStep,
       SendKeepAliveStep, SendNothingStep, GiveUpStep DEF PrepareSend
  <1>2. CASE \E old \in 0 .. SegCount : xTCPSocketCheck(old)
    BY <1>2, SocketCheckStep
  <1>3. CASE SendCopy
    BY <1>3, SendCopyStep
  <1>4. CASE SendMove
    BY <1>4, SendMoveStep
  <1>5. CASE Shutdown
    BY <1>5, ShutdownStep
  <1>6. CASE \E p \in wire : Deliver(p)
    BY <1>6, DeliverStep
  <1>7. CASE Lose
    BY <1>7, LoseStep
  <1>8. CASE \E win \in Windows, old \in 0 .. SegCount, s \in Sacks :
                Answer(win, s[1], s[2], old)
    BY <1>8, AnswerStep
  <1>9. CASE \E win \in Windows, old \in 0 .. SegCount,
                ack \in 0 .. StreamLength : StaleAnswer(ack, win, old)
    BY <1>9, StaleAnswerStep
  <1>10. CASE UNCHANGED vars
    BY <1>10, StutterStep
  <1> QED  BY <1>1, <1>2, <1>3, <1>4, <1>5, <1>6, <1>7, <1>8, <1>9, <1>10
           DEF Next, IPTask, Owner, Network

LEMMA Invariant == Spec => []IInv
  <1>1. IInv /\ [Next]_vars => IInv'
    BY NextInvariant
  <1> QED  BY <1>1, InitInvariant, PTL DEF Spec

-----------------------------------------------------------------------------
(* What the invariant says of the segments, the queues and the packets.      *)

\* The transmit queue names the segments that were not sent, none of them
\* twice and none that waits for an acknowledgement.
LEMMA QueuedIs ==
    ASSUME NEW w \in WindowType, NEW left, NEW mid,
           Chained(w.segs, left, mid), Queues(w)
    PROVE  LET queued == w.xTxQueue \o w.xPriorityQueue \o w.xWaitQueue
           IN  /\ queued \in Seq(Seqs) /\ Once(queued)
               /\ Members(queued) = {w.segs[k].seq :
                     k \in {k \in 1 .. Len(w.segs) : ~ w.segs[k].acked}}
  <1> DEFINE tx == w.xTxQueue
             pr == w.xPriorityQueue
             wt == w.xWaitQueue
             segs == w.segs
             c == SentCount(w)
             both == tx \o pr
             queued == both \o wt
             Open(n) == {k \in 1 .. n : ~ segs[k].acked}
  <1>1. /\ segs \in Seq(SegmentType) /\ tx \in Seq(Seqs) /\ pr \in Seq(Seqs)
        /\ wt \in Seq(Seqs) /\ Len(segs) \in Nat /\ Len(tx) \in Nat
    BY WindowIs
  <1>2. /\ Len(tx) <= Len(segs)
        /\ \A k \in 1 .. Len(tx) : /\ tx[k] = segs[c + k].seq
                                   /\ ~ segs[c + k].acked
        /\ Once(pr) /\ Once(wt) /\ Members(pr) \cap Members(wt) = {}
        /\ Members(pr) \cup Members(wt) = {segs[k].seq : k \in Open(c)}
    BY DEF Queues, Waiting
  <1>3. c = Len(segs) - Len(tx)
    BY DEF SentCount
  <1> HIDE DEF tx, pr, wt, segs, c
  <1>4. /\ c \in Nat /\ c <= Len(segs)
        /\ \A k \in 1 .. Len(tx) : c + k \in 1 .. Len(segs) /\ ~ (c + k <= c)
        /\ \A j, k \in 1 .. Len(tx) : c + j = c + k => j = k
        /\ \A k \in 1 .. c : k \in 1 .. Len(segs) /\ k <= c
        /\ \A k \in 1 .. Len(segs) : k \in 1 .. c \/ k - c \in 1 .. Len(tx)
        /\ \A k \in 1 .. Len(segs) : c + (k - c) = k
    BY <1>1, <1>2, <1>3, SMT
  <1>5. ASSUME NEW j \in 1 .. Len(segs), NEW k \in 1 .. Len(segs),
               segs[j].seq = segs[k].seq
        PROVE  j = k
    BY <1>1, <1>5, ChainApart DEF segs
  <1>6. Once(tx)
    <2> SUFFICES ASSUME NEW j \in 1 .. Len(tx), NEW k \in 1 .. Len(tx),
                        tx[j] = tx[k]
                 PROVE  j = k
      BY DEF Once
    <2>1. segs[c + j].seq = segs[c + k].seq
      BY <1>2
    <2>2. c + j = c + k
      BY <1>4, <1>5, <2>1
    <2> QED  BY <1>4, <2>2
  <1>7. ASSUME NEW x \in Members(tx), NEW y \in {segs[k].seq : k \in Open(c)}
        PROVE  x # y
    <2>1. PICK j \in 1 .. Len(tx) : x = tx[j]
      BY DEF Members
    <2>2. PICK k \in 1 .. c : y = segs[k].seq
      OBVIOUS
    <2>3. c + j # k
      BY <1>4
    <2>4. c + j \in 1 .. Len(segs) /\ k \in 1 .. Len(segs)
      BY <1>4
    <2>5. x = segs[c + j].seq
      BY <1>2, <2>1
    <2> QED  BY <1>5, <2>2, <2>3, <2>4, <2>5
  <1>8. /\ Members(tx) \cap Members(pr) = {}
        /\ (Members(tx) \cup Members(pr)) \cap Members(wt) = {}
    <2>1. Members(tx) \cap (Members(pr) \cup Members(wt)) = {}
      BY <1>2, <1>7
    <2> QED  BY <1>2, <2>1
  <1>9. both \in Seq(Seqs) /\ Once(both)
        /\ Members(both) = Members(tx) \cup Members(pr)
    BY <1>1, <1>2, <1>6, <1>8, ConcatIs
  <1> HIDE DEF both
  <1>10. queued \in Seq(Seqs) /\ Once(queued)
         /\ Members(queued) = Members(both) \cup Members(wt)
    BY <1>1, <1>2, <1>8, <1>9, ConcatIs
  <1> HIDE DEF queued
  <1>11. Members(tx) \cup {segs[k].seq : k \in Open(c)}
            = {segs[k].seq : k \in Open(Len(segs))}
    <2>1. ASSUME NEW x \in Members(tx)
          PROVE  x \in {segs[k].seq : k \in Open(Len(segs))}
      <3>1. PICK j \in 1 .. Len(tx) : x = tx[j]
        BY DEF Members
      <3>2. /\ c + j \in 1 .. Len(segs) /\ ~ segs[c + j].acked
            /\ x = segs[c + j].seq
        BY <1>2, <1>4, <3>1
      <3> QED  BY <3>2
    <2>2. ASSUME NEW k \in Open(c) PROVE k \in Open(Len(segs))
      BY <1>4
    <2>3. ASSUME NEW k \in Open(Len(segs)), k \notin 1 .. c
          PROVE  segs[k].seq \in Members(tx)
      <3>1. k - c \in 1 .. Len(tx) /\ c + (k - c) = k
        BY <1>4, <2>3
      <3>2. tx[k - c] = segs[k].seq
        BY <1>2, <3>1
      <3> QED  BY <3>1, <3>2 DEF Members
    <2> QED  BY <2>1, <2>2, <2>3
  <1>12. Members(queued) = {segs[k].seq : k \in Open(Len(segs))}
    BY <1>2, <1>9, <1>10, <1>11
  <1> QED  BY <1>10, <1>12 DEF queued, both, tx, pr, wt, segs

LEMMA InvariantCovers == IInv => SegmentsCoverStream
  <1> SUFFICES ASSUME IInv PROVE SegmentsCoverStream
    OBVIOUS
  <1> DEFINE segs == window.segs
             d == uxStreamBufferDistance(txStream.tail, txStream.mid)
  <1>1. /\ released \in Nat /\ Mid \in Nat /\ Mid = released + d /\ d \in Nat
        /\ Mid <= StreamLength
        /\ Good(window, released, Mid, txStream.tail, released, held)
    <2>1. written <= StreamLength /\ Mid <= written /\ written \in Nat
      BY Facts
    <2>2. Mid <= StreamLength
      BY <2>1, Facts, Sizes, SMT
    <2> QED  BY <2>2, Facts
  <1>2. /\ window \in WindowType
        /\ window.current = SeqOf(released) /\ window.next = SeqOf(Mid)
        /\ Chained(segs, released, Mid)
        /\ Placed(segs, txStream.tail, released) /\ Queues(window)
    BY <1>1 DEF Good
  <1>3. /\ segs \in Seq(SegmentType) /\ DOMAIN segs = 1 .. Len(segs)
        /\ Len(segs) \in Nat
    BY <1>2, WindowIs
  <1> HIDE DEF d
  <1>4. window.next = Plus(window.current, d)
    <2>1. released \in 0 .. StreamLength + 1 /\ released + d <= StreamLength + 1
      BY <1>1, Sizes, SMT
    <2> QED  BY <1>1, <1>2, <2>1, PlusIs
  <1> HIDE DEF segs
  <1>5. ASSUME NEW k \in 1 .. Len(segs)
        PROVE  /\ At(segs[k]) \in 0 .. StreamLength + 1
               /\ segs[k].seq = SeqOf(At(segs[k]))
               /\ segs[k].len \in Nat /\ released <= At(segs[k])
               /\ Behind(segs[k]) = At(segs[k]) + segs[k].len
               /\ Plus(segs[k].seq, segs[k].len) = SeqOf(Behind(segs[k]))
               /\ Minus(segs[k].seq, window.current) = At(segs[k]) - released
    <2>1. /\ At(segs[k]) \in 0 .. StreamLength
          /\ segs[k].seq = SeqOf(At(segs[k])) /\ released <= At(segs[k])
          /\ Behind(segs[k]) = At(segs[k]) + segs[k].len
          /\ Behind(segs[k]) \in 0 .. StreamLength
      BY <1>2, <1>3, ChainIs
    <2>2. segs[k].len \in Nat
      BY <1>3, SegmentIs
    <2> DEFINE a == At(segs[k])
               n == segs[k].len
    <2>3. a + n \in 0 .. StreamLength
      BY <2>1
    <2> HIDE DEF a, n
    <2>4. /\ a \in 0 .. StreamLength + 1 /\ a + n <= StreamLength + 1
          /\ released \in 0 .. StreamLength + 1 /\ a >= released
      BY <1>1, <2>1, <2>3, Sizes, SMT DEF a
    <2>5. Plus(SeqOf(a), n) = SeqOf(a + n)
      BY <2>2, <2>4, PlusIs DEF n
    <2>6. Minus(SeqOf(a), SeqOf(released)) = a - released
      BY <2>4, MinusIs
    <2> QED  BY <1>2, <2>1, <2>2, <2>4, <2>5, <2>6 DEF a, n
  <1>6. ASSUME NEW k \in 1 .. Len(segs)
        PROVE  segs[k].seq = IF k = 1 THEN window.current
                             ELSE Plus(segs[k - 1].seq, segs[k - 1].len)
    <2>1. At(segs[k]) = IF k = 1 THEN released ELSE Behind(segs[k - 1])
      BY <1>2 DEF Chained
    <2>2. CASE k = 1
      BY <1>2, <1>5, <2>1, <2>2
    <2>3. CASE k # 1
      <3>1. k - 1 \in 1 .. Len(segs)
        BY <1>3, <2>3, SMT
      <3>2. /\ Plus(segs[k - 1].seq, segs[k - 1].len)
                  = SeqOf(Behind(segs[k - 1]))
            /\ segs[k].seq = SeqOf(At(segs[k]))
        BY <1>5, <3>1
      <3> QED  BY <2>1, <2>3, <3>2
    <2> QED  BY <2>2, <2>3
  <1>7. ASSUME NEW k \in 1 .. Len(segs)
        PROVE  segs[k].pos
                  = Wrap(txStream.tail + Minus(segs[k].seq, window.current))
    BY <1>2, <1>5 DEF Placed
  <1>8. window.next = IF segs = <<>> THEN window.current
                      ELSE Plus(segs[Len(segs)].seq, segs[Len(segs)].len)
    <2>1. CASE segs = <<>>
      BY <1>2, <2>1 DEF Chained
    <2>2. CASE segs # <<>>
      <3>1. Len(segs) \in 1 .. Len(segs)
        <4>1. Len(segs) # 0
          BY <1>3, <2>2
        <4> QED  BY <1>3, <4>1, SMT
      <3>2. Behind(segs[Len(segs)]) = Mid
        BY <1>2, <3>1 DEF Chained
      <3> QED  BY <1>2, <1>5, <2>2, <3>1, <3>2
    <2> QED  BY <2>1, <2>2
  <1>9. /\ Queued \in Seq(Seqs) /\ Once(Queued)
        /\ Members(Queued) = {segs[k].seq :
              k \in {k \in 1 .. Len(segs) : ~ segs[k].acked}}
    BY <1>2, QueuedIs DEF Queued, segs
  <1>10. DOMAIN Queued = 1 .. Len(Queued)
    BY <1>9
  <1> QED  BY <1>1, <1>2, <1>3, <1>4, <1>6, <1>7, <1>8, <1>9, <1>10
           DEF SegmentsCoverStream, segs, d, Once, Members

\* The segments cover the stream from the first byte not acknowledged to the
\* mid marker, each where its bytes lie, and each that is not acknowledged
\* waits in exactly one queue: whatever the peer acknowledges, in whatever
\* order, and however few segments the other connections leave
\* (prvTCPWindowTxCheckAck, prvTCPWindowFastRetransmit, lTCPWindowTxAdd).
THEOREM TransmitInvariant == Spec => []TransmitInv
  <1>1. IInv => TransmitInv
    BY InvariantCovers DEF TransmitInv, IInv
  <1> QED  BY <1>1, Invariant, PTL

\* A packet carries at each number the byte the owner wrote there, sent for
\* the first time or again (ulTCPWindowTxGet, prvTCPPrepareSend).
THEOREM SendsWhatWasWritten == Spec => []SentAsWritten
  <1>1. IInv => SentAsWritten
    <2> SUFFICES ASSUME IInv, NEW p \in wire, NEW k \in DOMAIN p.data
                 PROVE  /\ p.data[k] < written
                        /\ SeqOf(p.data[k]) = Plus(p.seq, k - 1)
      BY DEF SentAsWritten
    <2>1. Carries(p, SentUpTo(window, Mid))
      BY DEF IInv, NetworkInv
    <2>2. CASE p = Question
      BY <2>2 DEF Question
    <2>3. CASE p # Question
      <3>1. PICK a \in 0 .. StreamLength, n \in 0 .. MSS :
               /\ a + n <= SentUpTo(window, Mid)
               /\ p = [seq |-> SeqOf(a), data |-> [j \in 1 .. n |-> a + j - 1]]
        BY <2>1, <2>3 DEF Carries
      <3> DEFINE x == SentUpTo(window, Mid)
      <3>2. /\ x \in released .. Mid /\ released \in Nat /\ Mid \in Nat
            /\ Mid <= written /\ written \in Nat /\ written <= StreamLength
            /\ a + n <= x
        BY <3>1, Facts
      <3>3. k \in 1 .. n /\ p.data[k] = a + k - 1
        BY <3>1
      <3> HIDE DEF x
      <3>4. /\ k - 1 \in Nat /\ a + k - 1 = a + (k - 1) /\ a + k - 1 < written
            /\ a \in 0 .. StreamLength + 1 /\ a + (k - 1) <= StreamLength + 1
        BY <3>2, <3>3, Sizes, PoolSizes, SMT
      <3>5. Plus(SeqOf(a), k - 1) = SeqOf(a + (k - 1))
        BY <3>4, PlusIs
      <3> QED  BY <3>1, <3>3, <3>4, <3>5
    <2> QED  BY <2>2, <2>3
  <1> QED  BY <1>1, Invariant, PTL

-----------------------------------------------------------------------------
(* What the owner is promised.                                               *)

\* Nothing leaves the stream that the peer does not hold.
LEMMA ReleasesHeld ==
    ASSUME IInv, NEW ack \in 0 .. StreamLength,
           \A i \in 0 .. ack - 1 : i \in held,
           NEW first, NEW last, Names(first, last, released, held),
           NEW win, NEW old, Receive(ack, win, first, last, old)
    PROVE  /\ released' \in Nat /\ released <= released'
           /\ 0 .. released' - 1 \subseteq held
           /\ written' = written /\ state' = state
  <1> DEFINE r == Acknowledge(ack, first, last)
             new == released + r.count
  <1>1. released' = new /\ written' = written /\ state' = state
    BY DEF Receive, ownerVars
  <1>2. Ready(r.window, TailMoved(txStream, r.count), new)
    BY AcknowledgedIsReady
  <1>3. new \in released .. Mid /\ \A i \in 0 .. new - 1 : i \in held
    BY <1>2 DEF Ready, HeldBefore
  <1>4. released \in Nat /\ Mid \in Nat
    BY Facts
  <1> HIDE DEF new
  <1>5. new \in Nat /\ released <= new
    BY <1>3, <1>4, SMT
  <1> QED  BY <1>1, <1>3, <1>5

\* The FIN follows the last byte: when there are segments for everyone,
\* the last of them is gone only when every byte was acknowledged.
LEMMA FinishedIs ==
    ASSUME IInv, Borrowers < SegCount, SendFin
    PROVE  state = "ESTABLISHED" /\ released = written
  <1>1. Sending /\ window.segs = <<>>
    BY DEF SendFin, xTCPWindowTxDone
  <1>2. state = "ESTABLISHED" /\ Mid = written
    BY <1>1 DEF IInv, BurstInv
  <1>3. Mid = released
    BY <1>1 DEF IInv, Good, Chained
  <1> QED  BY <1>2, <1>3

\* Every step is one of the transfer, or leaves it as it is.
LEMMA TransferStep ==
    ASSUME IInv, Borrowers < SegCount, [Next]_vars
    PROVE  [Transfer!Next]_<<written, held, released, outcome>>
  <1> DEFINE Same == /\ written' = written /\ held' = held
                     /\ released' = released /\ state' = state
             Goal == [Transfer!Next]_<<written, held, released, outcome>>
  <1>0. Same => Goal
    BY DEF outcome
  <1> SUFFICES Goal
    OBVIOUS
  <1> HIDE DEF Goal
  <1>1. CASE SendPriority \/ SendExpired \/ SendNew
    <2>1. Same
      BY <1>1 DEF SendPriority, SendExpired, SendNew, Transmit, ownerVars,
                  peerVars
    <2> QED  BY <1>0, <2>1
  <1>2. CASE SendFin
    <2>1. state = "ESTABLISHED" /\ released = written
      BY <1>2, FinishedIs
    <2>2. /\ state' = "FIN_WAIT_1" /\ written' = written /\ held' = held
          /\ released' = released
      BY <1>2 DEF SendFin, peerVars
    <2>3. Transfer!Finish
      BY <2>1, <2>2 DEF Transfer!Finish, outcome
    <2> QED  BY <2>3 DEF Transfer!Next, Goal
  <1>3. CASE SendKeepAlive \/ SendNothing
    <2>1. Same
      BY <1>3 DEF SendKeepAlive, SendNothing, ownerVars, peerVars
    <2> QED  BY <1>0, <2>1
  <1>4. CASE GiveUp
    <2>1. state = "ESTABLISHED"
      BY <1>4 DEF GiveUp, IInv, BurstInv
    <2>2. /\ state' = "CLOSE_WAIT" /\ written' = written /\ held' = held
          /\ released' = released
      BY <1>4 DEF GiveUp, ownerVars, peerVars
    <2>3. Transfer!GiveUp
      BY <2>1, <2>2 DEF Transfer!GiveUp, outcome
    <2> QED  BY <2>3 DEF Transfer!Next, Goal
  <1>5. CASE \E old \in 0 .. SegCount : xTCPSocketCheck(old)
    <2>1. Same
      BY <1>5 DEF xTCPSocketCheck, ownerVars, peerVars
    <2> QED  BY <1>0, <2>1
  <1>6. CASE SendCopy \/ Shutdown \/ Lose
    <2>1. Same
      BY <1>6 DEF SendCopy, Shutdown, Lose, ownerVars, peerVars
    <2> QED  BY <1>0, <2>1
  <1>7. CASE SendMove
    <2> DEFINE c == owner.count
               size == uxStreamBufferGetSize(txStream)
    <2>1. /\ owner.at = "move" /\ written' = written + c /\ held' = held
          /\ released' = released /\ state' = state
      BY <1>7 DEF SendMove, peerVars
    <2>2. c <= uxStreamBufferGetSpace(txStream) /\ state # "FIN_WAIT_1"
      BY <2>1 DEF IInv, OwnerInv
    <2>3. /\ uxStreamBufferGetSpace(txStream) = LENGTH - 1 - size
          /\ size \in Nat /\ written = released + size
          /\ released \in Nat /\ written \in Nat
      BY Facts, SizeAndSpace
    <2>4. c \in Nat
      <3>1. c \in 0 .. SendSize
        BY DEF IInv, TypeOK
      <3> HIDE DEF c
      <3> QED  BY <3>1, TransmitAssumption, SMT
    <2>5. written + c \in written .. released + (LENGTH - 1)
      <3>1. c <= LENGTH - 1 - size
        BY <2>2, <2>3
      <3> HIDE DEF c, size
      <3> QED  BY <2>3, <2>4, <3>1, LengthAssumption, SMT
    <2>6. outcome # "finished" /\ outcome' = outcome
      <3>1. state \in {"ESTABLISHED", "FIN_WAIT_1", "CLOSE_WAIT"}
        BY DEF IInv, TypeOK
      <3> QED  BY <2>1, <2>2, <3>1 DEF outcome
    <2>7. Transfer!Write
      BY <2>1, <2>5, <2>6 DEF Transfer!Write
    <2> QED  BY <2>7 DEF Transfer!Next, Goal
  <1>8. CASE \E p \in wire : Deliver(p)
    <2>1. /\ held \subseteq held' /\ written' = written
          /\ released' = released /\ state' = state
          /\ \A i \in held' :
                \/ i \in held
                \/ i \in Bytes /\ \E p \in wire : \E k \in DOMAIN p.data :
                                                SeqOf(i) = Plus(p.seq, k - 1)
      BY <1>8 DEF Deliver, ownerVars
    <2>2. ASSUME NEW i \in held' PROVE i \in 0 .. written' - 1
      <3> DEFINE x == SentUpTo(window, Mid)
      <3>1. /\ x \in released .. Mid /\ released \in Nat /\ Mid \in Nat
            /\ Mid <= written /\ written \in Nat /\ held \subseteq Bytes
        BY Facts
      <3>2. /\ \A q \in wire : Carries(q, x)
            /\ \A j \in held : j < x
        BY DEF IInv, NetworkInv
      <3> HIDE DEF x
      <3>3. x \in Nat
        BY <3>1, SMT
      <3>4. i < x
        <4>1. CASE i \in held
          BY <3>2, <4>1
        <4>2. CASE i \notin held
          <5>1. PICK p \in wire :
                   /\ i \in Bytes
                   /\ \E k \in DOMAIN p.data : SeqOf(i) = Plus(p.seq, k - 1)
            BY <2>1, <4>2
          <5>2. PICK k \in DOMAIN p.data : SeqOf(i) = Plus(p.seq, k - 1)
            BY <5>1
          <5>3. Carries(p, x)
            BY <3>2
          <5> QED  BY <3>3, <5>1, <5>2, <5>3, CarriedBytes
        <4> QED  BY <4>1, <4>2
      <3>5. i \in Bytes
        BY <2>1, <3>1
      <3> QED  BY <2>1, <3>1, <3>4, <3>5, Sizes, SMT DEF Bytes
    <2>3. Transfer!Carry
      BY <2>1, <2>2 DEF Transfer!Carry, outcome
    <2> QED  BY <2>3 DEF Transfer!Next, Goal
  <1>9. ASSUME NEW ack \in 0 .. StreamLength, \A i \in 0 .. ack - 1 : i \in held,
               NEW first, NEW last, Names(first, last, released, held),
               NEW win, NEW old, Receive(ack, win, first, last, old),
               held' = held
        PROVE  Goal
    <2>1. /\ released' \in Nat /\ released <= released'
          /\ 0 .. released' - 1 \subseteq held
          /\ written' = written /\ state' = state
      BY <1>9, ReleasesHeld
    <2>2. CASE released' = released
      BY <1>0, <1>9, <2>1, <2>2
    <2>3. CASE released' # released
      <3>1. released' > released
        BY <2>1, <2>3, Facts, SMT
      <3>2. Transfer!Release
        BY <1>9, <2>1, <3>1 DEF Transfer!Release, outcome
      <3> QED  BY <3>2 DEF Transfer!Next, Goal
    <2> QED  BY <2>2, <2>3
  <1>10. CASE \E win \in Windows, old \in 0 .. SegCount, s \in Sacks :
                 Answer(win, s[1], s[2], old)
    <2>1. PICK win \in Windows, old \in 0 .. SegCount, s \in Sacks :
             Answer(win, s[1], s[2], old)
      BY <1>10
    <2>2. Receive(Contiguous, win, s[1], s[2], old) /\ held' = held
      BY <2>1 DEF Answer
    <2>3. /\ Contiguous \in 0 .. StreamLength
          /\ \A i \in 0 .. Contiguous - 1 : i \in held
      BY Facts, ContiguousIs
    <2>4. Names(s[1], s[2], released, held)
      BY SackNames
    <2> QED  BY <1>9, <2>2, <2>3, <2>4
  <1>11. CASE \E win \in Windows, old \in 0 .. SegCount,
                 ack \in 0 .. StreamLength : StaleAnswer(ack, win, old)
    <2>1. PICK win \in Windows, old \in 0 .. SegCount,
               ack \in 0 .. StreamLength : StaleAnswer(ack, win, old)
      BY <1>11
    <2>2. ack <= Contiguous /\ Receive(ack, win, 0, 0, old) /\ held' = held
      BY <2>1 DEF StaleAnswer, peerVars
    <2>3. \A i \in 0 .. ack - 1 : i \in held
      <3>1. /\ Contiguous \in 0 .. StreamLength
            /\ \A i \in 0 .. Contiguous - 1 : i \in held
        BY Facts, ContiguousIs
      <3>2. \A i \in 0 .. ack - 1 : i \in 0 .. Contiguous - 1
        BY <2>2, <3>1, Sizes, SMT
      <3> QED  BY <3>1, <3>2
    <2>4. Names(0, 0, released, held)
      BY DEF Names
    <2> QED  BY <1>9, <2>2, <2>3, <2>4
  <1>12. CASE UNCHANGED vars
    BY <1>0, <1>12 DEF vars
  <1>13. Goal
    BY <1>1, <1>2, <1>3, <1>4, <1>5, <1>6, <1>7, <1>8, <1>10, <1>11, <1>12
       DEF Next, IPTask, PrepareSend, Owner, Network
  <1> QED  BY <1>13 DEF Goal

\* Every byte the owner writes reaches the peer before it leaves the stream,
\* and the FIN goes out after the last of them, when the pool cannot be
\* emptied by the other connections alone (prvTCPAddTxData, xTCPWindowTxDone).
THEOREM TransferImplemented ==
    Borrowers < SegCount => (Spec => ImplementsTransfer)
  <1> SUFFICES ASSUME Borrowers < SegCount PROVE Spec => ImplementsTransfer
    OBVIOUS
  <1>1. Init => Transfer!Init
    BY DEF Init, Transfer!Init, outcome
  <1>2. IInv /\ [Next]_vars
           => [Transfer!Next]_<<written, held, released, outcome>>
    BY TransferStep
  <1> QED  BY <1>1, <1>2, Invariant, PTL
           DEF Spec, ImplementsTransfer, Transfer!Spec
=============================================================================
