-------------------------- MODULE TcpReceive_proofs --------------------------
(* Proofs about the receiving half of a connection, for every stream, every  *)
(* buffer and every segmentation the peer may choose.                        *)
EXTENDS TcpReceive, FiniteSetTheorems, SequenceTheorems,
        WellFoundedInduction, TLAPS

-----------------------------------------------------------------------------
(* The invariant.                                                            *)

(* The peer cuts its stream once: what it sends again begins and ends where  *)
(* it did before.  (FreeRTOS_TCP_WIN.c:828 confirms one stored segment only, *)
(* so that a piece which covers two of them would be passed on twice.)       *)
Data == {p \in Packets : p.len > 0}

Apart(p, q) == p.at + p.len <= q.at \/ q.at + q.len <= p.at

OneSegmentation ==
    \A p, q \in Data : (p.at = q.at /\ p.len = q.len) \/ Apart(p, q)

\* Stored segments are pieces; At is the first byte of one.
SegmentOf(p) == [seq |-> SeqOf(p.at), len |-> p.len]
Cut(segments) == segments \subseteq {SegmentOf(p) : p \in Data}
At(s) == Minus(s.seq, FirstSeq)

\* A place between two pieces, or the beginning of the stream.
Border(e) == e \in 0 .. StreamLength
             /\ (e = 0 \/ \E p \in Data : e = p.at + p.len)

\* The owner takes no more than it copied, and no more than there is.
OwnerInv ==
    /\ owner.count <= uxStreamBufferGetSize(rxStream)
    /\ owner.count <= Len(got)
    /\ owner.at # "take" => owner.count = 0

\* current stands where the bytes without a gap end, which is between two
\* pieces, or after the FIN.
WindowInv ==
    /\ Border(Received)
    /\ \/ window.current = SeqOf(Received)
       \/ state # "ESTABLISHED" /\ window.current = SeqOf(StreamLength + 1)
    /\ \E h \in 0 .. StreamLength : window.highest = SeqOf(h)

\* What a word of flags says, the one shared and the one the owner loaded.
BitsInv(b) ==
    /\ state = "ESTABLISHED" => ~ b.bFinSent /\ ~ b.bFinAcked
    /\ b.bFinRecv => window.fin = SeqOf(StreamLength)
    /\ b.bFinAccepted => Received = StreamLength

StoredInv ==
    /\ IsFiniteSet(xRxSegments)
    /\ Cut(xRxSegments)
    /\ \A s \in xRxSegments :
          /\ At(s) > Received
          /\ \A i \in At(s) .. At(s) + s.len - 1 : Held(i)

OptionsInv ==
    options # <<>> =>
       \E a, b \in 0 .. StreamLength :
          /\ options = <<SeqOf(a), SeqOf(b)>>
          /\ \A i \in a .. b - 1 : Held(i)

IInv ==
    /\ OneSegmentation
    /\ TypeOK
    /\ OwnerInv
    /\ StreamIntact
    /\ WindowInv
    /\ BitsInv(bits) /\ BitsInv(owner.bits)
    /\ StoredInv
    /\ OptionsInv
-----------------------------------------------------------------------------
(* Sequence numbers: while the stream and the window are less than half of   *)
(* the numbers, what is computed with them is what holds of the bytes.       *)

LEMMA Sizes ==
    /\ SeqSpace \in Nat /\ FirstSeq \in 0 .. SeqSpace - 1
    /\ StreamLength \in Nat /\ LENGTH \in Nat /\ LENGTH >= 2
    /\ 2 * (StreamLength + 2) < SeqSpace
  BY SeqSpaceAssumption, LengthAssumption, ReceiveAssumption, SMT DEF Seqs

LEMMA Modulo ==
    ASSUME NEW n \in Nat, n > 0, NEW x \in Int
    PROVE  /\ x % n \in 0 .. n - 1
           /\ x >= 0 /\ x < n => x % n = x
           /\ x >= n /\ x < 2 * n => x % n = x - n
           /\ x < 0 /\ x >= 0 - n => x % n = x + n
  BY SMT

LEMMA SeqOfIs ==
    ASSUME NEW i \in 0 .. StreamLength + 1
    PROVE  /\ SeqOf(i) \in Seqs
           /\ SeqOf(i) = IF FirstSeq + i < SeqSpace THEN FirstSeq + i
                         ELSE FirstSeq + i - SeqSpace
  <1>1. /\ FirstSeq + i \in Int /\ FirstSeq + i >= 0
        /\ FirstSeq + i < 2 * SeqSpace /\ SeqSpace > 0
    BY Sizes, SMT
  <1> QED  BY <1>1, Sizes, Modulo, SMT DEF SeqOf, Seqs

LEMMA SameNumber ==
    ASSUME NEW i \in 0 .. StreamLength + 1, NEW j \in 0 .. StreamLength + 1
    PROVE  SeqOf(i) = SeqOf(j) <=> i = j
  BY Sizes, SeqOfIs, SMT

LEMMA PlusIs ==
    ASSUME NEW i \in 0 .. StreamLength + 1, NEW n \in Nat,
           i + n <= StreamLength + 1
    PROVE  Plus(SeqOf(i), n) = SeqOf(i + n)
  <1>1. i + n \in 0 .. StreamLength + 1
    BY Sizes, SMT
  <1>2. /\ SeqOf(i) + n \in Int /\ SeqOf(i) + n >= 0 /\ SeqSpace > 0
        /\ SeqOf(i) + n < 2 * SeqSpace
    BY Sizes, SeqOfIs, SMT DEF Seqs
  <1>3. Plus(SeqOf(i), n) = IF SeqOf(i) + n < SeqSpace THEN SeqOf(i) + n
                            ELSE SeqOf(i) + n - SeqSpace
    BY <1>2, Sizes, SeqOfIs, Modulo, SMT DEF Plus, Seqs
  <1> QED  BY <1>1, <1>3, Sizes, SeqOfIs, SMT

LEMMA MinusIs ==
    ASSUME NEW i \in 0 .. StreamLength + 1, NEW j \in 0 .. StreamLength + 1
    PROVE  Minus(SeqOf(i), SeqOf(j)) = IF i >= j THEN i - j
                                       ELSE i - j + SeqSpace
  <1>1. /\ SeqOf(i) - SeqOf(j) \in Int /\ SeqOf(i) - SeqOf(j) >= 0 - SeqSpace
        /\ SeqOf(i) - SeqOf(j) < SeqSpace /\ SeqSpace > 0
    BY Sizes, SeqOfIs, SMT DEF Seqs
  <1>2. Minus(SeqOf(i), SeqOf(j)) = IF SeqOf(i) >= SeqOf(j)
                                    THEN SeqOf(i) - SeqOf(j)
                                    ELSE SeqOf(i) - SeqOf(j) + SeqSpace
    BY <1>1, Sizes, SeqOfIs, Modulo, SMT DEF Minus, Seqs
  <1> QED  BY <1>2, Sizes, SeqOfIs, SMT

LEMMA SignedIs ==
    ASSUME NEW i \in 0 .. StreamLength + 1, NEW j \in 0 .. StreamLength + 1
    PROVE  Signed(SeqOf(i), SeqOf(j)) = i - j
  BY Sizes, MinusIs, SMT DEF Signed

LEMMA FirstByte ==
    ASSUME NEW i \in 0 .. StreamLength + 1
    PROVE  Minus(SeqOf(i), FirstSeq) = i
  <1>1. 0 \in 0 .. StreamLength + 1 /\ SeqOf(0) = FirstSeq
    BY Sizes, SeqOfIs, SMT
  <1> QED  BY <1>1, MinusIs, Sizes, SMT

LEMMA Compared ==
    ASSUME NEW i \in 0 .. StreamLength, NEW j \in 0 .. StreamLength
    PROVE  /\ xSequenceLessThan(SeqOf(i), SeqOf(j)) <=> i < j
           /\ xSequenceGreaterThanOrEqual(SeqOf(i), SeqOf(j)) <=> i >= j
  <1>1. /\ i + 1 \in 0 .. StreamLength + 1 /\ i \in 0 .. StreamLength + 1
        /\ j \in 0 .. StreamLength + 1
    BY Sizes, SMT
  <1>2. Plus(SeqOf(i), 1) = SeqOf(i + 1)
    BY <1>1, PlusIs, Sizes, SMT
  <1>3. Minus(SeqOf(j), SeqOf(i + 1)) = IF j >= i + 1 THEN j - (i + 1)
                                        ELSE j - (i + 1) + SeqSpace
    BY <1>1, MinusIs
  <1>4. Minus(SeqOf(i), SeqOf(j)) = IF i >= j THEN i - j ELSE i - j + SeqSpace
    BY <1>1, MinusIs
  <1> QED  BY <1>2, <1>3, <1>4, Sizes, SMT
           DEF xSequenceLessThan, xSequenceGreaterThanOrEqual

LEMMA PlusInSeqs ==
    ASSUME NEW a \in Seqs, NEW n \in Nat
    PROVE  Plus(a, n) \in Seqs
  <1>1. a + n \in Int /\ SeqSpace > 0
    BY Sizes, SMT DEF Seqs
  <1> QED  BY <1>1, Sizes, Modulo DEF Plus, Seqs

-----------------------------------------------------------------------------
(* The walk over the stored segments.                                        *)

\* A set of numbers has a least one.
LEMMA LeastNumber ==
    ASSUME NEW T \in SUBSET Nat, T # {}
    PROVE  \E n \in T : \A k \in T : n <= k
  <1>1. IsWellFoundedOn(OpToRel(<, Nat), Nat)
    BY NatLessThanWellFounded
  <1>2. PICK n \in T : \A k \in T : ~ (<<k, n>> \in OpToRel(<, Nat))
    BY <1>1, WFMin
  <1>3. \A k \in T : <<k, n>> \in OpToRel(<, Nat) <=> k < n
    BY DEF OpToRel
  <1>4. \A k \in T : ~ (k < n) /\ k \in Nat /\ n \in Nat
    BY <1>2, <1>3
  <1> QED  BY <1>4, SMT

\* f[k] is what k steps make of first.
Repeats(f, first, step, n) ==
    \A k \in 0 .. n : f[k] = IF k = 0 THEN first ELSE step[f[k - 1]]

\* A step can be repeated any number of times.
LEMMA Repeated ==
    ASSUME NEW D, NEW first \in D, NEW step \in [D -> D], NEW n \in Nat
    PROVE  \E f \in [0 .. n -> D] : Repeats(f, first, step, n)
  <1> USE DEF Repeats
  <1> DEFINE Walks(m) == {f \in [0 .. m -> D] : \A k \in 0 .. m :
                             f[k] = IF k = 0 THEN first ELSE step[f[k - 1]]}
             T == {m \in Nat : Walks(m) = {}}
  <1>1. SUFFICES ASSUME T # {} PROVE FALSE
    OBVIOUS
  <1>2. T \in SUBSET Nat
    OBVIOUS
  <1>3. PICK m \in T : \A k \in T : m <= k
    BY <1>1, <1>2, LeastNumber
  <1>4. m \in Nat /\ Walks(m) = {}
    OBVIOUS
  <1>5. CASE m = 0
    <2>1. [k \in 0 .. 0 |-> first] \in Walks(0)
      <3>1. [k \in 0 .. 0 |-> first] \in [0 .. 0 -> D]
        OBVIOUS
      <3>2. \A k \in 0 .. 0 : k = 0
        BY SMT
      <3> QED  BY <3>1, <3>2
    <2> QED  BY <1>4, <1>5, <2>1
  <1>6. CASE m # 0
    <2>1. m - 1 \in Nat /\ ~ (m <= m - 1)
      BY <1>4, <1>6, SMT
    <2>2. Walks(m - 1) # {}
      BY <1>3, <2>1
    <2>3. PICK g : g \in Walks(m - 1)
      BY <2>2
    <2> DEFINE f == [k \in 0 .. m |-> IF k = m THEN step[g[m - 1]] ELSE g[k]]
    <2>4. /\ \A k \in 0 .. m - 1 : k \in 0 .. m /\ k # m /\ g[k] \in D
          /\ m - 1 \in 0 .. m - 1
      BY <1>4, <2>1, <2>3, SMT
    <2>5. step[g[m - 1]] \in D
      BY <2>4
    <2>6. f \in [0 .. m -> D]
      <3>1. \A k \in 0 .. m : k # m => k \in 0 .. m - 1
        BY <1>4, SMT
      <3> QED  BY <2>4, <2>5, <3>1
    <2>7. ASSUME NEW k \in 0 .. m
          PROVE  f[k] = IF k = 0 THEN first ELSE step[f[k - 1]]
      <3>1. CASE k = m
        BY <1>6, <2>4, <3>1
      <3>2. CASE k # m
        <4>1. /\ k \in 0 .. m - 1
              /\ k # 0 => k - 1 \in 0 .. m /\ k - 1 # m
          BY <1>4, <3>2, SMT
        <4>2. g[k] = IF k = 0 THEN first ELSE step[g[k - 1]]
          BY <2>3, <4>1
        <4>3. k # 0 => f[k - 1] = g[k - 1]
          BY <4>1
        <4> QED  BY <3>2, <4>2, <4>3
      <3> QED  BY <3>1, <3>2
    <2>8. f \in Walks(m)
      BY <2>6, <2>7
    <2> QED  BY <1>4, <2>8
  <1> QED  BY <1>5, <1>6

\* A piece of the stream and the segment it is stored as.
LEMMA PieceIs ==
    ASSUME NEW p \in Data
    PROVE  /\ p \in Packets /\ p.at \in Nat /\ p.len \in Nat \ {0}
           /\ p.fin \in BOOLEAN
           /\ p.at + p.len <= StreamLength
           /\ p.fin => p.at + p.len = StreamLength
           /\ Border(p.at + p.len)
           /\ SegmentOf(p).seq = SeqOf(p.at) /\ SegmentOf(p).len = p.len
           /\ At(SegmentOf(p)) = p.at
  <1>1. /\ p \in Packets /\ p.at \in Nat /\ p.len \in Nat /\ p.fin \in BOOLEAN
        /\ p.at + p.len <= StreamLength
        /\ p.fin => p.at + p.len = StreamLength
        /\ p.len > 0
    BY ReceiveAssumption DEF Data
  <1>2. p.at \in 0 .. StreamLength + 1 /\ p.at + p.len \in 0 .. StreamLength
    BY <1>1, Sizes, SMT
  <1>3. p.len \in Nat \ {0}
    BY <1>1, SMT
  <1>4. SegmentOf(p).seq = SeqOf(p.at) /\ SegmentOf(p).len = p.len
    BY DEF SegmentOf
  <1>5. At(SegmentOf(p)) = p.at
    BY <1>2, <1>4, FirstByte DEF At
  <1> QED  BY <1>1, <1>2, <1>3, <1>4, <1>5 DEF Border

\* What is stored, as bytes of the stream.
LEMMA StoredIs ==
    ASSUME NEW segments, Cut(segments), NEW s \in segments
    PROVE  /\ At(s) \in Nat /\ s.len \in Nat \ {0}
           /\ At(s) + s.len <= StreamLength
           /\ s.seq = SeqOf(At(s))
           /\ Border(At(s) + s.len)
           /\ \E p \in Data : s = SegmentOf(p) /\ p.at = At(s) /\ p.len = s.len
  <1>1. PICK p \in Data : s = SegmentOf(p)
    BY DEF Cut
  <1> QED  BY <1>1, PieceIs

\* Two segments are the same one or have no byte in common.
LEMMA Separate ==
    ASSUME OneSegmentation, NEW segments, Cut(segments), NEW s \in segments,
           NEW p \in Data
    PROVE  s = SegmentOf(p) \/ At(s) + s.len <= p.at \/ p.at + p.len <= At(s)
  <1>1. PICK q \in Data : s = SegmentOf(q) /\ q.at = At(s) /\ q.len = s.len
    BY StoredIs
  <1>2. (q.at = p.at /\ q.len = p.len) \/ Apart(q, p)
    BY DEF OneSegmentation
  <1> QED  BY <1>1, <1>2 DEF Apart, SegmentOf

\* A border lies in no piece.
LEMMA BorderOutside ==
    ASSUME OneSegmentation, NEW e, Border(e), NEW p \in Data
    PROVE  e <= p.at \/ p.at + p.len <= e
  <1>1. CASE e = 0
    BY <1>1, PieceIs, SMT
  <1>2. CASE e # 0
    <2>1. PICK q \in Data : e = q.at + q.len
      BY <1>2 DEF Border
    <2>2. (q.at = p.at /\ q.len = p.len) \/ Apart(q, p)
      BY DEF OneSegmentation
    <2>3. /\ q.at \in Nat /\ q.len \in Nat \ {0}
          /\ p.at \in Nat /\ p.len \in Nat \ {0}
      BY PieceIs
    <2> QED  BY <2>1, <2>2, <2>3, SMT DEF Apart
  <1> QED  BY <1>1, <1>2

\* One turn of the walk: over the segment that begins where the last ended.
Turn(w) ==
    LET found == xTCPWindowRxFind(w.left, w.end)
    IN  IF found = {} THEN w
        ELSE LET s == CHOOSE s \in found : TRUE
             IN  [end |-> Plus(w.end, s.len), left |-> w.left \ {s}]

Covered(segments, i) == \E s \in segments : At(s) <= i /\ i < At(s) + s.len

\* What the walk from byte e has found after k turns.
Walked(segments, e, w, k) ==
    /\ w.left \subseteq segments
    /\ \E b \in 0 .. StreamLength :
          /\ e <= b /\ Border(b) /\ w.end = SeqOf(b)
          /\ \A i \in e .. b - 1 : Covered(segments \ w.left, i)
    /\ \/ xTCPWindowRxFind(w.left, w.end) = {}
       \/ Cardinality(w.left) = Cardinality(segments) - k

LEMMA WalkBegins ==
    ASSUME NEW segments, NEW e, Border(e), Cardinality(segments) \in Nat
    PROVE  Walked(segments, e, [end |-> SeqOf(e), left |-> segments], 0)
  <1>1. e \in 0 .. StreamLength /\ e <= e
    BY Sizes, SMT DEF Border
  <1>2. \A i \in e .. e - 1 : FALSE
    BY <1>1, SMT
  <1>3. Cardinality(segments) - 0 = Cardinality(segments)
    BY SMT
  <1> QED  BY <1>1, <1>2, <1>3 DEF Walked

LEMMA WalkGoesOn ==
    ASSUME NEW segments, Cut(segments), IsFiniteSet(segments), NEW e, Border(e),
           NEW k \in Nat, NEW w, Walked(segments, e, w, k)
    PROVE  Walked(segments, e, Turn(w), k + 1)
  <1>1. /\ w.left \subseteq segments
        /\ \/ xTCPWindowRxFind(w.left, w.end) = {}
           \/ Cardinality(w.left) = Cardinality(segments) - k
    BY DEF Walked
  <1>2. PICK b \in 0 .. StreamLength :
           /\ e <= b /\ Border(b) /\ w.end = SeqOf(b)
           /\ \A i \in e .. b - 1 : Covered(segments \ w.left, i)
    BY DEF Walked
  <1>3. CASE xTCPWindowRxFind(w.left, w.end) = {}
    <2>1. Turn(w) = w
      BY <1>3 DEF Turn
    <2> QED  BY <1>3, <2>1 DEF Walked
  <1>4. CASE xTCPWindowRxFind(w.left, w.end) # {}
    <2> DEFINE s == CHOOSE s \in xTCPWindowRxFind(w.left, w.end) : TRUE
    <2>1. s \in w.left /\ s.seq = w.end
      BY <1>4 DEF xTCPWindowRxFind
    <2>2. Turn(w) = [end |-> Plus(w.end, s.len), left |-> w.left \ {s}]
      BY <1>4 DEF Turn
    <2> HIDE DEF s
    <2>3. /\ At(s) \in Nat /\ s.len \in Nat \ {0}
          /\ At(s) + s.len <= StreamLength
          /\ s.seq = SeqOf(At(s)) /\ Border(At(s) + s.len)
      BY <1>1, <2>1, StoredIs
    <2>4. At(s) = b
      <3>1. At(s) \in 0 .. StreamLength + 1 /\ b \in 0 .. StreamLength + 1
        BY <1>2, <2>3, Sizes, SMT
      <3> QED  BY <1>2, <2>1, <2>3, <3>1, SameNumber
    <2> DEFINE c == b + s.len
    <2>5. /\ c \in 0 .. StreamLength /\ e <= c /\ Border(c)
          /\ Turn(w).end = SeqOf(c)
      <3>1. c \in 0 .. StreamLength /\ e <= c
        <4>1. e \in Nat /\ b \in Nat /\ s.len \in Nat /\ b + s.len <= StreamLength
          BY <1>2, <2>3, <2>4, Sizes, SMT DEF Border
        <4> QED  BY <1>2, <4>1, Sizes, SMT
      <3>2. Plus(w.end, s.len) = SeqOf(c)
        <4>1. /\ b \in 0 .. StreamLength + 1 /\ s.len \in Nat
              /\ b + s.len <= StreamLength + 1
          BY <1>2, <2>3, <2>4, Sizes, SMT
        <4> QED  BY <1>2, <4>1, PlusIs
      <3> QED  BY <2>2, <2>3, <2>4, <3>1, <3>2
    <2>6. ASSUME NEW i \in e .. c - 1
          PROVE  Covered(segments \ Turn(w).left, i)
      <3>1. CASE i < b
        <4>1. i \in e .. b - 1
          BY <1>2, <3>1, SMT DEF Border
        <4> QED  BY <1>2, <2>2, <4>1 DEF Covered
      <3>2. CASE ~ (i < b)
        <4>1. At(s) <= i /\ i < At(s) + s.len
          BY <1>2, <2>3, <2>4, <3>2, SMT DEF Border
        <4>2. s \in segments \ Turn(w).left
          BY <1>1, <2>1, <2>2
        <4> QED  BY <4>1, <4>2 DEF Covered
      <3> QED  BY <3>1, <3>2
    <2>7. Cardinality(w.left \ {s}) = Cardinality(segments) - (k + 1)
      <3>1. IsFiniteSet(w.left) /\ Cardinality(segments) \in Nat
        BY <1>1, FS_Subset, FS_CardinalityType
      <3>2. Cardinality(w.left \ {s}) = Cardinality(w.left) - 1
        BY <2>1, <3>1, FS_RemoveElement
      <3> QED  BY <1>1, <1>4, <3>1, <3>2, SMT
    <2>8. Turn(w).left = w.left \ {s} /\ Turn(w).left \subseteq segments
      BY <1>1, <2>2
    <2> HIDE DEF c
    <2>9. \E x \in 0 .. StreamLength :
             /\ e <= x /\ Border(x) /\ Turn(w).end = SeqOf(x)
             /\ \A i \in e .. x - 1 : Covered(segments \ Turn(w).left, i)
      BY <2>5, <2>6
    <2>10. Cardinality(Turn(w).left) = Cardinality(segments) - (k + 1)
      BY <2>7, <2>8
    <2> HIDE DEF Turn
    <2> QED  BY <2>8, <2>9, <2>10, Zenon DEF Walked
  <1> QED  BY <1>3, <1>4

\* The walk is the repetition of its turns.
LEMMA WalkIs ==
    ASSUME NEW seq \in Seqs, NEW segments, \A s \in segments : s.len \in Nat
    PROVE  \E walk \in [0 .. SegCount -> [end : Seqs, left : SUBSET segments]] :
              /\ Following(seq, segments) = walk[SegCount]
              /\ walk[0] = [end |-> seq, left |-> segments]
              /\ \A k \in 1 .. SegCount : walk[k] = Turn(walk[k - 1])
  <1> DEFINE D == [end : Seqs, left : SUBSET segments]
             first == [end |-> seq, left |-> segments]
             step == [w \in D |-> Turn(w)]
             IsWalk(f) == f = [k \in 0 .. SegCount |->
                                 IF k = 0 THEN first ELSE Turn(f[k - 1])]
             walk == CHOOSE f : IsWalk(f)
  <1>1. SegCount \in Nat
    BY ReceiveAssumption
  <1>2. first \in D
    OBVIOUS
  <1>3. step \in [D -> D]
    <2> SUFFICES ASSUME NEW w \in D PROVE Turn(w) \in D
      OBVIOUS
    <2>1. CASE xTCPWindowRxFind(w.left, w.end) = {}
      BY <2>1 DEF Turn
    <2>2. CASE xTCPWindowRxFind(w.left, w.end) # {}
      <3> DEFINE s == CHOOSE s \in xTCPWindowRxFind(w.left, w.end) : TRUE
      <3>1. s \in w.left
        BY <2>2 DEF xTCPWindowRxFind
      <3>2. Turn(w) = [end |-> Plus(w.end, s.len), left |-> w.left \ {s}]
        BY <2>2 DEF Turn
      <3> HIDE DEF s
      <3>3. s.len \in Nat
        BY <3>1
      <3>4. Plus(w.end, s.len) \in Seqs
        BY <3>3, PlusInSeqs
      <3> QED  BY <3>2, <3>4
    <2> QED  BY <2>1, <2>2
  <1>4. \E f \in [0 .. SegCount -> D] : IsWalk(f)
    <2> HIDE DEF first, step, D
    <2>1. PICK f \in [0 .. SegCount -> D] : Repeats(f, first, step, SegCount)
      BY <1>1, <1>2, <1>3, Repeated
    <2>2. ASSUME NEW k \in 0 .. SegCount
          PROVE  f[k] = IF k = 0 THEN first ELSE Turn(f[k - 1])
      <3>1. CASE k # 0
        <4>1. k - 1 \in 0 .. SegCount
          BY <1>1, <3>1, SMT
        <4>2. f[k - 1] \in D
          BY <4>1
        <4>3. step[f[k - 1]] = Turn(f[k - 1])
          BY <4>2 DEF step
        <4> QED  BY <2>1, <3>1, <4>3 DEF Repeats
      <3> QED  BY <2>1, <3>1 DEF Repeats
    <2>3. f = [k \in 0 .. SegCount |-> f[k]]
      OBVIOUS
    <2> QED  BY <2>2, <2>3
  <1>5. IsWalk(walk)
    BY <1>4
  <1>6. Following(seq, segments) = walk[SegCount]
    BY DEF Following, Turn
  <1> HIDE DEF walk, first, step
  <1>7. walk \in [0 .. SegCount -> D]
    <2> HIDE DEF D
    <2>1. PICK f \in [0 .. SegCount -> D] : IsWalk(f)
      BY <1>4
    <2> DEFINE T == {k \in 0 .. SegCount : walk[k] # f[k]}
    <2>2. T = {}
      <3> SUFFICES ASSUME T # {} PROVE FALSE
        OBVIOUS
      <3>1. T \in SUBSET Nat
        BY <1>1, SMT
      <3>2. PICK n \in T : \A k \in T : n <= k
        BY <3>1, LeastNumber
      <3>3. n \in 0 .. SegCount /\ walk[n] # f[n]
        OBVIOUS
      <3>4. n # 0 => n - 1 \in 0 .. SegCount /\ ~ (n <= n - 1)
        BY <1>1, <3>3, SMT
      <3>5. n # 0 => walk[n - 1] = f[n - 1]
        BY <3>2, <3>4
      <3>6. walk[n] = IF n = 0 THEN first ELSE Turn(walk[n - 1])
        BY <1>5, <3>3
      <3>7. f[n] = IF n = 0 THEN first ELSE Turn(f[n - 1])
        BY <2>1, <3>3
      <3> QED  BY <3>3, <3>5, <3>6, <3>7
    <2>3. walk = [k \in 0 .. SegCount |-> walk[k]]
      BY <1>5
    <2>4. f = [k \in 0 .. SegCount |-> f[k]]
      OBVIOUS
    <2>5. walk = f
      BY <2>2, <2>3, <2>4
    <2> QED  BY <2>5
  <1>8. /\ walk[0] = first
        /\ \A k \in 1 .. SegCount : walk[k] = Turn(walk[k - 1])
    <2>1. \A k \in 1 .. SegCount : k \in 0 .. SegCount /\ k # 0
      BY <1>1, SMT
    <2>2. 0 \in 0 .. SegCount
      BY <1>1, SMT
    <2> QED  BY <1>5, <2>1, <2>2
  <1> QED  BY <1>6, <1>7, <1>8 DEF first

\* The walk ends behind the last of the segments that follow one another: the
\* bytes up to there are stored, and nothing that is left begins there.
LEMMA FollowingIs ==
    ASSUME OneSegmentation, NEW segments, Cut(segments), IsFiniteSet(segments),
           Cardinality(segments) <= SegCount, NEW e, Border(e)
    PROVE  \E b \in 0 .. StreamLength :
              /\ e <= b /\ Border(b)
              /\ Following(SeqOf(e), segments).end = SeqOf(b)
              /\ \A i \in e .. b - 1 : Covered(segments, i)
              /\ Following(SeqOf(e), segments).left \subseteq segments
              /\ \A s \in Following(SeqOf(e), segments).left :
                    At(s) >= e => At(s) > b
  <1> DEFINE first == [end |-> SeqOf(e), left |-> segments]
  <1>1. SegCount \in Nat /\ Cardinality(segments) \in Nat
    BY ReceiveAssumption, FS_CardinalityType
  <1>2. SeqOf(e) \in Seqs
    <2>1. e \in 0 .. StreamLength + 1
      BY Sizes, SMT DEF Border
    <2> QED  BY <2>1, SeqOfIs
  <1>3. \A s \in segments : s.len \in Nat
    BY StoredIs
  <1>4. PICK walk \in [0 .. SegCount -> [end : Seqs, left : SUBSET segments]] :
           /\ Following(SeqOf(e), segments) = walk[SegCount]
           /\ walk[0] = first
           /\ \A k \in 1 .. SegCount : walk[k] = Turn(walk[k - 1])
    BY <1>2, <1>3, WalkIs
  <1>5. Following(SeqOf(e), segments) = walk[SegCount]
    BY <1>4
  <1>6. /\ walk[0] = first
        /\ \A k \in 1 .. SegCount : walk[k] = Turn(walk[k - 1])
    BY <1>4
  <1> HIDE DEF first
  <1> DEFINE T == {k \in 0 .. SegCount : ~ Walked(segments, e, walk[k], k)}
  <1>8. T = {}
    <2> SUFFICES ASSUME T # {} PROVE FALSE
      OBVIOUS
    <2>1. T \in SUBSET Nat
      BY <1>1, SMT
    <2>2. PICK n \in T : \A k \in T : n <= k
      BY <2>1, LeastNumber
    <2>3. n \in 0 .. SegCount /\ ~ Walked(segments, e, walk[n], n)
      OBVIOUS
    <2>4. n # 0
      BY <1>1, <1>6, <2>3, WalkBegins DEF first
    <2>5. /\ n - 1 \in Nat /\ n - 1 \in 0 .. SegCount /\ ~ (n <= n - 1)
          /\ (n - 1) + 1 = n /\ n \in 1 .. SegCount
      BY <1>1, <2>3, <2>4, SMT
    <2>6. Walked(segments, e, walk[n - 1], n - 1)
      BY <2>2, <2>5
    <2>7. Walked(segments, e, Turn(walk[n - 1]), (n - 1) + 1)
      BY <2>5, <2>6, WalkGoesOn
    <2> QED  BY <1>6, <2>3, <2>5, <2>7
  <1>9. Walked(segments, e, walk[SegCount], SegCount)
    BY <1>1, <1>8, SMT
  <1> DEFINE w == walk[SegCount]
  <1> HIDE DEF T
  <1>10. PICK b \in 0 .. StreamLength :
            /\ e <= b /\ Border(b) /\ w.end = SeqOf(b)
            /\ \A i \in e .. b - 1 : Covered(segments \ w.left, i)
    BY <1>9 DEF Walked
  <1>11. w.left \subseteq segments
    BY <1>9 DEF Walked
  <1> HIDE DEF w
  <1>12. xTCPWindowRxFind(w.left, w.end) = {}
    <2>1. SUFFICES ASSUME Cardinality(w.left) = Cardinality(segments) - SegCount
                   PROVE  xTCPWindowRxFind(w.left, w.end) = {}
      BY <1>9 DEF Walked, w
    <2>2. IsFiniteSet(w.left) /\ Cardinality(w.left) \in Nat
      BY <1>11, FS_Subset, FS_CardinalityType
    <2>3. Cardinality(w.left) = 0
      BY <1>1, <2>1, <2>2, SMT
    <2>4. w.left = {}
      BY <2>2, <2>3, FS_EmptySet
    <2> QED  BY <2>4 DEF xTCPWindowRxFind
  <1>13. ASSUME NEW s \in w.left, At(s) >= e
         PROVE  At(s) > b
    <2>1. /\ At(s) \in Nat /\ s.len \in Nat \ {0} /\ s.seq = SeqOf(At(s))
          /\ At(s) + s.len <= StreamLength
      BY <1>11, StoredIs
    <2>2. At(s) # b
      BY <1>10, <1>12, <2>1 DEF xTCPWindowRxFind
    <2>3. ~ (At(s) < b)
      <3> SUFFICES ASSUME At(s) < b PROVE FALSE
        OBVIOUS
      <3>1. At(s) \in e .. b - 1
        BY <1>10, <1>13, <2>1, SMT DEF Border
      <3>2. PICK t \in segments \ w.left : At(t) <= At(s) /\ At(s) < At(t) + t.len
        BY <1>10, <3>1 DEF Covered
      <3>3. PICK p \in Data : s = SegmentOf(p) /\ p.at = At(s) /\ p.len = s.len
        BY <1>11, StoredIs
      <3>4. t = s \/ At(t) + t.len <= At(s) \/ At(s) + s.len <= At(t)
        BY <3>3, Separate
      <3>5. t # s /\ At(t) \in Nat /\ t.len \in Nat
        BY <3>2, StoredIs
      <3> QED  BY <2>1, <3>2, <3>4, <3>5, SMT
    <2> QED  BY <1>10, <2>1, <2>2, <2>3, SMT
  <1>14. \A i \in e .. b - 1 : Covered(segments, i)
    BY <1>10 DEF Covered
  <1> QED  BY <1>5, <1>10, <1>11, <1>13, <1>14 DEF w

-----------------------------------------------------------------------------
(* What the window makes of a packet (lTCPWindowRxCheck).                    *)

\* Nothing stored begins inside the piece that is next in turn.
LEMMA NothingConfirmed ==
    ASSUME OneSegmentation, Cut(xRxSegments), NEW p \in Data,
           \A s \in xRxSegments : At(s) > p.at
    PROVE  xTCPWindowRxConfirm(SeqOf(p.at), p.len) = {}
  <1> SUFFICES ASSUME NEW s \in xRxSegments,
                      xSequenceLessThan(s.seq, Plus(SeqOf(p.at), p.len))
               PROVE  FALSE
    BY DEF xTCPWindowRxConfirm
  <1>1. /\ At(s) \in Nat /\ s.len \in Nat \ {0}
        /\ At(s) + s.len <= StreamLength /\ s.seq = SeqOf(At(s))
    BY StoredIs
  <1>2. /\ p.at \in Nat /\ p.len \in Nat \ {0}
        /\ p.at + p.len <= StreamLength
    BY PieceIs
  <1>3. s = SegmentOf(p) \/ At(s) + s.len <= p.at \/ p.at + p.len <= At(s)
    BY Separate
  <1>4. At(SegmentOf(p)) = p.at
    BY PieceIs
  <1>5. p.at + p.len <= At(s)
    BY <1>1, <1>2, <1>3, <1>4, SMT
  <1>6. Plus(SeqOf(p.at), p.len) = SeqOf(p.at + p.len)
    <2>1. /\ p.at \in 0 .. StreamLength + 1 /\ p.len \in Nat
          /\ p.at + p.len <= StreamLength + 1
      BY <1>2, Sizes, SMT
    <2> QED  BY <2>1, PlusIs
  <1>7. At(s) \in 0 .. StreamLength /\ p.at + p.len \in 0 .. StreamLength
    BY <1>1, <1>2, Sizes, SMT
  <1>8. At(s) < p.at + p.len
    BY <1>1, <1>6, <1>7, Compared
  <1> QED  BY <1>1, <1>2, <1>5, <1>8, SMT

\* The forms its answer may take.
IsInTurn(p, r) ==
    /\ p.at = Received
    /\ p.len <= uxStreamBufferGetSpace(rxStream)
    /\ \E b \in 0 .. StreamLength :
          /\ p.at + p.len <= b /\ Border(b)
          /\ r.offset = 0 /\ r.current = SeqOf(b)
          /\ r.more = b - (p.at + p.len)
          /\ r.sack = <<>>
          /\ \A i \in p.at + p.len .. b - 1 : Covered(xRxSegments, i)
          /\ r.stored \subseteq xRxSegments
          /\ \A s \in r.stored : At(s) > b

\* A selective acknowledgement from p on.
IsSack(p, sack) ==
    \E b \in 0 .. StreamLength :
       /\ p.at + p.len <= b
       /\ sack = <<SeqOf(p.at), SeqOf(b)>>
       /\ \A i \in p.at + p.len .. b - 1 : Covered(xRxSegments, i)

IsKnown(p, r) ==
    /\ SegmentOf(p) \in xRxSegments
    /\ \E sack : r = [Refused EXCEPT !.sack = sack] /\ IsSack(p, sack)

IsAhead(p, r) ==
    /\ p.at > Received
    /\ (p.at + p.len) - Received <= uxStreamBufferGetSpace(rxStream)
    /\ window.current = SeqOf(Received)
    /\ Cardinality(xRxSegments) < SegCount
    /\ r.offset = p.at - Received
    /\ r.current = window.current
    /\ r.stored = xRxSegments \cup {SegmentOf(p)}
    /\ r.more = 0
    /\ IsSack(p, r.sack)

\* The branches of lTCPWindowRxCheck, by name.
LEMMA CheckBranches ==
    ASSUME NEW seq, NEW len \in Int, NEW space \in Int
    PROVE  LET r == lTCPWindowRxCheck(seq, len, space)
               run == Following(Plus(seq, len), xRxSegments)
               distance == Signed(Plus(seq, len), window.current)
               sack == <<seq, run.end>>
               again == xTCPWindowRxFind(xRxSegments, seq) # {}
           IN  \/ r = Refused
               \/ /\ seq = window.current /\ len <= space
                  /\ xTCPWindowRxConfirm(seq, len) = {} =>
                       r = [offset |-> 0, current |-> run.end,
                            stored |-> run.left,
                            more |-> Minus(run.end, Plus(seq, len)),
                            sack |-> <<>>]
               \/ /\ ~ (distance <= 0 \/ distance > space)
                  /\ again /\ r = [Refused EXCEPT !.sack = sack]
               \/ /\ ~ (distance <= 0 \/ distance > space)
                  /\ seq # window.current
                  /\ ~ again /\ Cardinality(xRxSegments) < SegCount
                  /\ r = [offset |-> Signed(seq, window.current),
                          current |-> window.current,
                          stored |-> xRxSegments
                                        \cup {[seq |-> seq, len |-> len]},
                          more |-> 0, sack |-> sack]
  <1> DEFINE r == lTCPWindowRxCheck(seq, len, space)
             confirmed == xTCPWindowRxConfirm(seq, len)
             again == xTCPWindowRxFind(xRxSegments, seq) # {}
             room == Cardinality(xRxSegments) < SegCount
             distance == Signed(Plus(seq, len), window.current)
             small == distance <= 0 \/ distance > space
  <1>0. ~ (len > space) <=> len <= space
    BY SMT
  <1>1. CASE seq = window.current /\ len > space
    <2>1. r = Refused
      BY <1>0, <1>1 DEF lTCPWindowRxCheck
    <2> QED  BY <2>1
  <1>2. CASE seq = window.current /\ len <= space
    <2>1. CASE confirmed = {}
      <3>1. xRxSegments \ confirmed = xRxSegments
        BY <2>1
      <3> QED  BY <1>0, <1>2, <2>1, <3>1 DEF lTCPWindowRxCheck
    <2> QED  BY <1>2, <2>1
  <1>3. CASE seq # window.current /\ window.current = Plus(seq, 1)
    BY <1>3 DEF lTCPWindowRxCheck
  <1>4. CASE seq # window.current /\ window.current # Plus(seq, 1)
    <2>1. r = IF small \/ (~ again /\ ~ room) THEN Refused
              ELSE IF again
              THEN [Refused EXCEPT !.sack =
                       <<seq, Following(Plus(seq, len), xRxSegments).end>>]
              ELSE [offset |-> Signed(seq, window.current),
                    current |-> window.current,
                    stored |-> xRxSegments \cup {[seq |-> seq, len |-> len]},
                    more |-> 0,
                    sack |-> <<seq, Following(Plus(seq, len), xRxSegments).end>>]
      BY <1>4 DEF lTCPWindowRxCheck
    <2> HIDE DEF r, again, room, small
    <2> QED  BY <1>4, <2>1 DEF r, again, room, small
  <1> QED  BY <1>0, <1>1, <1>2, <1>3, <1>4

\* What is known of the window when it is asked.
LEMMA WindowFacts ==
    ASSUME IInv
    PROVE  /\ OneSegmentation /\ Cut(xRxSegments) /\ IsFiniteSet(xRxSegments)
           /\ Cardinality(xRxSegments) <= SegCount
           /\ Border(Received) /\ Received \in 0 .. StreamLength
           /\ \A s \in xRxSegments : At(s) > Received
           /\ \/ window.current = SeqOf(Received)
              \/ /\ state # "ESTABLISHED"
                 /\ window.current = SeqOf(StreamLength + 1)
           /\ rxStream \in Markers
           /\ uxStreamBufferGetSpace(rxStream) \in 0 .. LENGTH - 1
  <1>1. rxStream \in Markers
    BY DEF IInv, TypeOK
  <1>2. uxStreamBufferGetSpace(rxStream) \in 0 .. LENGTH - 1
    BY <1>1, LengthAssumption, SMT
    DEF Markers, Index, uxStreamBufferGetSpace, uxStreamBufferSpace, Wrap
  <1>3. OneSegmentation /\ Cardinality(xRxSegments) <= SegCount
    BY DEF IInv, TypeOK
  <1>4. /\ Border(Received)
        /\ \/ window.current = SeqOf(Received)
           \/ /\ state # "ESTABLISHED"
              /\ window.current = SeqOf(StreamLength + 1)
    BY DEF IInv, WindowInv
  <1>5. /\ Cut(xRxSegments) /\ IsFiniteSet(xRxSegments)
        /\ \A s \in xRxSegments : At(s) > Received
    BY DEF IInv, StoredInv
  <1>6. Received \in 0 .. StreamLength
    BY <1>4 DEF Border
  <1> QED  BY <1>1, <1>2, <1>3, <1>4, <1>5, <1>6

\* A piece is refused, stored already, next in turn, or stored ahead of it.
LEMMA CheckedIs ==
    ASSUME IInv, NEW p \in Packets
    PROVE  \/ Checked(p) = Refused
           \/ p \in Data /\ IsKnown(p, Checked(p))
           \/ p \in Data /\ IsInTurn(p, Checked(p))
           \/ p \in Data /\ IsAhead(p, Checked(p))
  <1>1. CASE p \notin Data
    <2>1. p.len = 0
      BY <1>1, ReceiveAssumption, SMT DEF Data
    <2> QED  BY <2>1 DEF Checked
  <1>2. CASE p \in Data
    <2> DEFINE R == Received
               e == p.at + p.len
               seq == SeqOf(p.at)
               space == uxStreamBufferGetSpace(rxStream)
               r == lTCPWindowRxCheck(seq, p.len, space)
               run == Following(SeqOf(e), xRxSegments)
               distance == Signed(SeqOf(e), window.current)
    <2>1. /\ p.at \in Nat /\ p.len \in Nat \ {0} /\ e <= StreamLength
          /\ Border(e) /\ e \in 0 .. StreamLength
          /\ p.at \in 0 .. StreamLength + 1 /\ e \in 0 .. StreamLength + 1
          /\ StreamLength + 1 \in 0 .. StreamLength + 1
      <3>1. /\ p.at \in Nat /\ p.len \in Nat \ {0} /\ e <= StreamLength
            /\ Border(e)
        BY <1>2, PieceIs
      <3> QED  BY <3>1, Sizes, SMT
    <2>2. Plus(seq, p.len) = SeqOf(e)
      <3>1. p.len \in Nat /\ e <= StreamLength + 1
        BY <2>1, Sizes, SMT
      <3> QED  BY <2>1, <3>1, PlusIs
    <2>3. R \in 0 .. StreamLength /\ R \in 0 .. StreamLength + 1
      BY WindowFacts, Sizes, SMT
    <2>4. Checked(p) = r
      BY <2>1 DEF Checked
    <2>5. PICK b \in 0 .. StreamLength :
             /\ e <= b /\ Border(b) /\ run.end = SeqOf(b)
             /\ \A i \in e .. b - 1 : Covered(xRxSegments, i)
             /\ run.left \subseteq xRxSegments
             /\ \A s \in run.left : At(s) >= e => At(s) > b
      <3>1. OneSegmentation /\ Cut(xRxSegments) /\ IsFiniteSet(xRxSegments)
            /\ Cardinality(xRxSegments) <= SegCount
        BY WindowFacts
      <3> QED  BY <2>1, <3>1, FollowingIs
    <2>6. IsSack(p, <<seq, run.end>>)
      BY <2>5 DEF IsSack
    <2>7. \/ window.current = SeqOf(R) /\ distance = e - R
          \/ window.current = SeqOf(StreamLength + 1) /\ distance <= 0
      <3>1. CASE window.current = SeqOf(R)
        BY <2>1, <2>3, <3>1, SignedIs
      <3>2. CASE window.current = SeqOf(StreamLength + 1)
        <4>1. distance = e - (StreamLength + 1)
          BY <2>1, <3>2, SignedIs
        <4> QED  BY <2>1, <3>2, <4>1, Sizes, SMT
      <3> QED  BY <3>1, <3>2, WindowFacts
    <2>8. seq = window.current => window.current = SeqOf(R) /\ p.at = R
      <3> SUFFICES ASSUME seq = window.current
                   PROVE  window.current = SeqOf(R) /\ p.at = R
        OBVIOUS
      <3>1. p.at # StreamLength + 1
        BY <2>1, Sizes, SMT
      <3>2. window.current # SeqOf(StreamLength + 1)
        BY <2>1, <3>1, SameNumber
      <3>3. window.current = SeqOf(R)
        BY <2>7, <3>2
      <3> QED  BY <2>1, <2>3, <3>3, SameNumber
    <2>9. space \in Int /\ p.len \in Int
      BY <2>1, WindowFacts, SMT
    <2> HIDE DEF R, e, seq, space, r, run, distance
    <2>10. CASE r = Refused
      BY <2>4, <2>10
    <2>11. CASE /\ seq = window.current /\ p.len <= space
                /\ xTCPWindowRxConfirm(seq, p.len) = {} =>
                     r = [offset |-> 0, current |-> run.end,
                          stored |-> run.left,
                          more |-> Minus(run.end, SeqOf(e)), sack |-> <<>>]
      <3>1. p.at = R /\ window.current = SeqOf(R)
        BY <2>8, <2>11
      <3>2. \A s \in xRxSegments : At(s) > p.at
        BY <3>1, WindowFacts DEF R
      <3>3. xTCPWindowRxConfirm(seq, p.len) = {}
        BY <1>2, <3>2, NothingConfirmed, WindowFacts DEF seq
      <3>4. r = [offset |-> 0, current |-> run.end, stored |-> run.left,
                 more |-> Minus(run.end, SeqOf(e)), sack |-> <<>>]
        BY <2>11, <3>3
      <3>5. Minus(run.end, SeqOf(e)) = b - e
        <4>1. b \in 0 .. StreamLength + 1
          BY <2>5, Sizes, SMT
        <4>2. Minus(run.end, SeqOf(e)) = IF b >= e THEN b - e
                                         ELSE b - e + SeqSpace
          BY <2>1, <2>5, <4>1, MinusIs
        <4> QED  BY <2>1, <2>5, <4>2, SMT
      <3>6. ASSUME NEW s \in run.left
            PROVE  At(s) > b
        <4>1. s \in xRxSegments /\ At(s) > p.at
          BY <2>5, <3>2
        <4>2. /\ At(s) \in Nat /\ s.len \in Nat \ {0}
              /\ s = SegmentOf(p) \/ At(s) + s.len <= p.at \/ e <= At(s)
          BY <1>2, <4>1, StoredIs, Separate, WindowFacts DEF e
        <4>3. At(SegmentOf(p)) = p.at
          BY <1>2, PieceIs
        <4>4. At(s) >= e
          BY <2>1, <4>1, <4>2, <4>3, SMT
        <4> QED  BY <2>5, <4>4
      <3>7. IsInTurn(p, r)
        BY <2>5, <2>11, <3>1, <3>4, <3>5, <3>6 DEF IsInTurn, R, e, space
      <3> QED  BY <1>2, <2>4, <3>7
    <2>12. CASE /\ ~ (distance <= 0 \/ distance > space)
                /\ xTCPWindowRxFind(xRxSegments, seq) # {}
                /\ r = [Refused EXCEPT !.sack = <<seq, run.end>>]
      <3>1. PICK s \in xRxSegments : s.seq = seq
        BY <2>12 DEF xTCPWindowRxFind
      <3>2. /\ At(s) \in Nat /\ s.len \in Nat \ {0} /\ s.seq = SeqOf(At(s))
            /\ At(s) + s.len <= StreamLength
            /\ s = SegmentOf(p) \/ At(s) + s.len <= p.at \/ e <= At(s)
        BY <1>2, StoredIs, Separate, WindowFacts DEF e
      <3>3. At(s) \in 0 .. StreamLength + 1
        BY <3>2, Sizes, SMT
      <3>4. At(s) = p.at
        BY <2>1, <3>1, <3>2, <3>3, SameNumber DEF seq
      <3>5. s = SegmentOf(p)
        BY <2>1, <3>2, <3>4, SMT DEF e
      <3> QED  BY <1>2, <2>4, <2>6, <2>12, <3>5 DEF IsKnown
    <2>13. CASE /\ ~ (distance <= 0 \/ distance > space)
                /\ seq # window.current
                /\ ~ (xTCPWindowRxFind(xRxSegments, seq) # {})
                /\ Cardinality(xRxSegments) < SegCount
                /\ r = [offset |-> Signed(seq, window.current),
                        current |-> window.current,
                        stored |-> xRxSegments
                                      \cup {[seq |-> seq, len |-> p.len]},
                        more |-> 0, sack |-> <<seq, run.end>>]
      <3>1. window.current = SeqOf(R) /\ distance = e - R
        BY <2>7, <2>13
      <3>2. Signed(seq, window.current) = p.at - R
        BY <2>1, <2>3, <3>1, SignedIs DEF seq
      <3>3. p.at # R
        BY <2>13, <3>1 DEF seq
      <3>4. R <= p.at \/ e <= R
        BY <1>2, BorderOutside, WindowFacts DEF R, e
      <3>5. ~ (e - R <= 0) /\ e - R <= space
        BY <2>1, <2>3, <2>9, <2>13, <3>1, SMT
      <3>6. p.at > R
        BY <2>1, <2>3, <3>3, <3>4, <3>5, SMT
      <3>7. [seq |-> seq, len |-> p.len] = SegmentOf(p)
        BY DEF SegmentOf, seq
      <3>8. /\ r.offset = p.at - R /\ r.current = window.current
            /\ r.stored = xRxSegments \cup {SegmentOf(p)} /\ r.more = 0
            /\ r.sack = <<seq, run.end>>
        BY <2>13, <3>2, <3>7
      <3>9. IsSack(p, r.sack)
        BY <2>6, <3>8
      <3>10. Cardinality(xRxSegments) < SegCount
        BY <2>13
      <3>11. /\ p.at > Received /\ r.offset = p.at - Received
             /\ window.current = SeqOf(Received)
        BY <3>1, <3>6, <3>8 DEF R
      <3>12. (p.at + p.len) - Received <= uxStreamBufferGetSpace(rxStream)
        BY <3>5 DEF R, e, space
      <3>13. IsAhead(p, r)
        BY <3>8, <3>9, <3>10, <3>11, <3>12 DEF IsAhead
      <3> QED  BY <1>2, <2>4, <3>13
    <2>14. \/ r = Refused
           \/ /\ seq = window.current /\ p.len <= space
              /\ xTCPWindowRxConfirm(seq, p.len) = {} =>
                   r = [offset |-> 0, current |-> run.end,
                        stored |-> run.left,
                        more |-> Minus(run.end, SeqOf(e)), sack |-> <<>>]
           \/ /\ ~ (distance <= 0 \/ distance > space)
              /\ xTCPWindowRxFind(xRxSegments, seq) # {}
              /\ r = [Refused EXCEPT !.sack = <<seq, run.end>>]
           \/ /\ ~ (distance <= 0 \/ distance > space)
              /\ seq # window.current
              /\ ~ (xTCPWindowRxFind(xRxSegments, seq) # {})
              /\ Cardinality(xRxSegments) < SegCount
              /\ r = [offset |-> Signed(seq, window.current),
                      current |-> window.current,
                      stored |-> xRxSegments
                                    \cup {[seq |-> seq, len |-> p.len]},
                      more |-> 0, sack |-> <<seq, run.end>>]
      BY <2>2, <2>9, CheckBranches DEF r, run, distance
    <2> QED  BY <2>10, <2>11, <2>12, <2>13, <2>14
  <1> QED  BY <1>1, <1>2

-----------------------------------------------------------------------------
(* The circular buffer.                                                      *)

\* What a buffer can take together with what it holds fills it but for one
\* byte.
LEMMA SizeAndSpace ==
    ASSUME NEW m \in Markers
    PROVE  /\ uxStreamBufferGetSize(m) \in 0 .. LENGTH - 1
           /\ uxStreamBufferGetSpace(m) = LENGTH - 1 - uxStreamBufferGetSize(m)
  BY LengthAssumption, SMT
  DEF Markers, Index, uxStreamBufferGetSize, uxStreamBufferGetSpace,
      uxStreamBufferDistance, uxStreamBufferSpace, Wrap

\* What fits is added in full; at the head it can be read at once.
LEMMA AddIs ==
    ASSUME NEW m \in Markers, NEW offset \in Nat, NEW n \in Nat,
           offset + n <= uxStreamBufferGetSpace(m)
    PROVE  LET a == uxStreamBufferAdd(m, offset, n)
           IN  /\ AddCount(m, offset, n) = n
               /\ a \in Markers
               /\ a.tail = m.tail
               /\ uxStreamBufferGetSize(a) =
                     IF offset = 0 THEN uxStreamBufferGetSize(m) + n
                     ELSE uxStreamBufferGetSize(m)
  <1> DEFINE a == uxStreamBufferAdd(m, offset, n)
             at == Wrap(m.head + offset)
             next == IF offset = 0 THEN Wrap(at + n) ELSE at
             moved == IF offset = 0 THEN [m EXCEPT !.head = next] ELSE m
  <1>1. AddCount(m, offset, n) = n
    BY SizeAndSpace, LengthAssumption, SMT DEF AddCount, Fits, Least
  <1>2. CASE n = 0
    <2>1. a = m
      BY <1>1, <1>2 DEF uxStreamBufferAdd
    <2>2. uxStreamBufferGetSize(m) + n = uxStreamBufferGetSize(m)
      BY <1>2, SizeAndSpace, LengthAssumption, SMT
    <2> QED  BY <1>1, <2>1, <2>2
  <1>3. CASE n # 0
    <2>1. /\ m.tail \in Index /\ m.head \in Index /\ m.front \in Index
      BY DEF Markers
    <2>2. offset + n <= LENGTH - 1 - uxStreamBufferGetSize(m)
      BY SizeAndSpace
    <2>3. /\ next \in Index
          /\ offset = 0 => uxStreamBufferDistance(m.tail, next) =
                               uxStreamBufferGetSize(m) + n
      BY <1>3, <2>1, <2>2, LengthAssumption, SMT
      DEF Index, Wrap, uxStreamBufferDistance, uxStreamBufferGetSize
    <2>4. /\ moved \in Markers /\ moved.tail = m.tail
          /\ moved.head = IF offset = 0 THEN next ELSE m.head
      BY <2>3 DEF Markers
    <2> HIDE DEF next, moved
    <2>5. a = moved \/ a = [moved EXCEPT !.front = next]
      BY <1>1, <1>3 DEF uxStreamBufferAdd, next, moved
    <2>6. /\ a \in Markers /\ a.tail = m.tail
          /\ a.head = IF offset = 0 THEN next ELSE m.head
      BY <2>3, <2>4, <2>5 DEF Markers
    <2> HIDE DEF a
    <2>7. uxStreamBufferGetSize(a) =
             IF offset = 0 THEN uxStreamBufferGetSize(m) + n
             ELSE uxStreamBufferGetSize(m)
      BY <2>3, <2>6 DEF uxStreamBufferGetSize
    <2> QED  BY <1>1, <2>6, <2>7 DEF a
  <1> QED  BY <1>2, <1>3

\* Where a byte lies, counted from the tail, does not depend on the head.
LEMMA PlaceIs ==
    ASSUME NEW m \in Markers, NEW x \in 0 .. LENGTH - 1,
           x >= uxStreamBufferGetSize(m)
    PROVE  Wrap(m.head + (x - uxStreamBufferGetSize(m))) = Wrap(m.tail + x)
  BY LengthAssumption, SMT
  DEF Markers, Index, Wrap, uxStreamBufferDistance, uxStreamBufferGetSize

IsWritten(after, before, i, byte, first, n, x) ==
    after[i] = IF first <= x /\ x < first + n THEN byte[x - first] ELSE before[i]

\* A write that fits changes the bytes it is for and no others.
LEMMA WriteIs ==
    ASSUME NEW m \in Markers, NEW offset \in Nat, NEW n \in Nat,
           offset + n <= uxStreamBufferGetSpace(m),
           NEW array, NEW byte, NEW x \in 0 .. LENGTH - 1,
           NEW first, first = uxStreamBufferGetSize(m) + offset
    PROVE  IsWritten(WrittenTo(array, m, offset, n, byte), array,
                     Wrap(m.tail + x), byte, first, n, x)
  <1> DEFINE at == Wrap(m.head + offset)
             i == Wrap(m.tail + x)
             k == uxStreamBufferDistance(at, i)
  <1>1. m.tail \in Index /\ m.head \in Index
    BY DEF Markers
  <1>2. offset + n <= LENGTH - 1 - uxStreamBufferGetSize(m)
    BY SizeAndSpace
  <1>3. uxStreamBufferGetSize(m) \in 0 .. LENGTH - 1
    BY SizeAndSpace
  <1>4. i \in Index
    BY <1>1, LengthAssumption, SMT DEF Index, Wrap
  <1>5. k = IF x >= first THEN x - first ELSE x - first + LENGTH
    BY <1>1, <1>2, <1>3, LengthAssumption, SMT
    DEF Index, Wrap, uxStreamBufferDistance, uxStreamBufferGetSize
  <1>6. AddCount(m, offset, n) = n
    BY AddIs
  <1>7. WrittenTo(array, m, offset, n, byte)[i] =
           IF k < n THEN byte[k] ELSE array[i]
    BY <1>4, <1>6 DEF WrittenTo
  <1>8. first \in Nat /\ first + n <= LENGTH - 1
    BY <1>2, <1>3, LengthAssumption, SMT
  <1> HIDE DEF k, i
  <1>9. CASE first <= x /\ x < first + n
    <2>1. k < n /\ k = x - first
      BY <1>5, <1>8, <1>9, LengthAssumption, SMT
    <2> QED  BY <1>7, <1>9, <2>1 DEF i, IsWritten
  <1>10. CASE ~ (first <= x /\ x < first + n)
    <2>1. ~ (k < n)
      BY <1>5, <1>8, <1>10, LengthAssumption, SMT
    <2> QED  BY <1>7, <1>10, <2>1 DEF i, IsWritten
  <1> QED  BY <1>9, <1>10

-----------------------------------------------------------------------------
(* Where the bytes of the peer are.                                          *)

\* Byte i lies where it will be read.
InArray(i) == /\ i - Taken \in 0 .. LENGTH - 2
              /\ ucArray[Wrap(rxStream.tail + (i - Taken))] = i

Basis ==
    /\ rxStream \in Markers
    /\ ucArray \in [Index -> 0 .. StreamLength]
    /\ owner.count \in 0 .. BufferLength
    /\ got \in Seq(0 .. StreamLength)
    /\ OwnerInv

LEMMA BasisFacts ==
    ASSUME Basis
    PROVE  /\ rxStream \in Markers /\ rxStream.tail \in Index
           /\ uxStreamBufferGetSize(rxStream) \in 0 .. LENGTH - 1
           /\ uxStreamBufferGetSpace(rxStream) =
                 LENGTH - 1 - uxStreamBufferGetSize(rxStream)
           /\ Len(got) \in Nat /\ owner.count \in Nat
           /\ Taken \in Nat /\ Received \in Nat
           /\ Received = Taken + uxStreamBufferGetSize(rxStream)
  <1>1. rxStream \in Markers /\ got \in Seq(0 .. StreamLength)
    BY DEF Basis
  <1>2. rxStream.tail \in Index
    BY <1>1 DEF Markers
  <1>3. owner.count \in 0 .. BufferLength
    BY DEF Basis
  <1>4. Len(got) \in Nat
    BY <1>1
  <1>5. owner.count \in Nat /\ owner.count <= Len(got)
    BY <1>3, ReceiveAssumption, SMT DEF Basis, OwnerInv
  <1>6. Taken \in Nat
    BY <1>4, <1>5, SMT DEF Taken
  <1>7. /\ uxStreamBufferGetSize(rxStream) \in 0 .. LENGTH - 1
        /\ uxStreamBufferGetSpace(rxStream) =
              LENGTH - 1 - uxStreamBufferGetSize(rxStream)
    BY <1>1, SizeAndSpace
  <1>8. Received \in Nat
    BY <1>6, <1>7, LengthAssumption, SMT DEF Received
  <1> QED  BY <1>1, <1>2, <1>4, <1>5, <1>6, <1>7, <1>8 DEF Received

\* A byte is held if and only if the owner is done with it or it lies there.
LEMMA HeldIs ==
    Basis /\ StreamIntact =>
       \A i \in Nat : Held(i) <=> (i < Taken \/ InArray(i))
  <1> SUFFICES ASSUME Basis, StreamIntact, NEW i \in Nat
               PROVE  Held(i) <=> (i < Taken \/ InArray(i))
    OBVIOUS
  <1> DEFINE size == uxStreamBufferGetSize(rxStream)
             x == i - Taken
  <1>1. /\ Taken \in Nat /\ Received = Taken + size /\ size \in 0 .. LENGTH - 1
        /\ rxStream \in Markers
        /\ uxStreamBufferGetSpace(rxStream) = LENGTH - 1 - size
        /\ LENGTH \in Nat
    BY BasisFacts, LengthAssumption
  <1>2. CASE i < Taken
    BY <1>1, <1>2, SMT DEF Held
  <1>3. CASE ~ (i < Taken) /\ i < Received
    <2>1. x \in 0 .. size - 1 /\ x \in 0 .. LENGTH - 2 /\ Taken + x = i
      BY <1>1, <1>3, SMT
    <2>2. ucArray[Wrap(rxStream.tail + x)] = Taken + x
      BY <2>1 DEF StreamIntact
    <2> QED  BY <1>3, <2>1, <2>2 DEF Held, InArray
  <1>4. CASE ~ (i < Received)
    <2>1. /\ x >= size /\ i - Received = x - size /\ ~ (i < Taken)
          /\ x - size < LENGTH - 1 - size <=> x \in 0 .. LENGTH - 2
          /\ x \in 0 .. LENGTH - 2 => x \in 0 .. LENGTH - 1
      BY <1>1, <1>4, SMT
    <2>2. CASE x \in 0 .. LENGTH - 2
      <3>1. Wrap(rxStream.head + (x - size)) = Wrap(rxStream.tail + x)
        BY <1>1, <2>1, <2>2, PlaceIs
      <3> QED  BY <1>1, <1>4, <2>1, <2>2, <3>1 DEF Held, InArray
    <2>3. CASE x \notin 0 .. LENGTH - 2
      BY <1>1, <1>4, <2>1, <2>3 DEF Held, InArray
    <2> QED  BY <2>2, <2>3
  <1> QED  BY <1>2, <1>3, <1>4

LEMMA HeldIsNext ==
    (Basis /\ StreamIntact)' =>
       (\A i \in Nat : Held(i) <=> (i < Taken \/ InArray(i)))'
  BY HeldIs, PTL

\* The bytes of a write that fits are in the array afterwards, and the bytes
\* that were in it still are.
LEMMA StoreEffect ==
    ASSUME Basis, NEW p \in Data, NEW r, r.offset \in Nat, r.more \in Nat,
           p.at = Received + r.offset,
           r.offset + p.len + r.more <= uxStreamBufferGetSpace(rxStream),
           r.offset # 0 => r.more = 0,
           prvStoreRxData(p, r), owner' = owner, got' = got
    PROVE  /\ rxStream' \in Markers /\ rxStream'.tail = rxStream.tail
           /\ ucArray' \in [Index -> 0 .. StreamLength]
           /\ Taken' = Taken
           /\ uxStreamBufferGetSize(rxStream') =
                 uxStreamBufferGetSize(rxStream)
                    + (IF r.offset = 0 THEN p.len + r.more ELSE 0)
           /\ \A i : InArray(i) => InArray(i)'
           /\ \A i \in p.at .. p.at + p.len - 1 : InArray(i)'
  <1> DEFINE size == uxStreamBufferGetSize(rxStream)
             o == r.offset
             n == p.len
             more == r.more
             m1 == uxStreamBufferAdd(rxStream, o, n)
             m2 == uxStreamBufferAdd(m1, 0, more)
             byte == [k \in 0 .. n - 1 |-> p.at + k]
             first == size + o
  <1>1. /\ rxStream \in Markers /\ rxStream.tail \in Index
        /\ size \in 0 .. LENGTH - 1 /\ Taken \in Nat /\ LENGTH \in Nat
        /\ LENGTH >= 2
        /\ uxStreamBufferGetSpace(rxStream) = LENGTH - 1 - size
        /\ Received = Taken + size
    BY BasisFacts, LengthAssumption
  <1>2. p.at \in Nat /\ n \in Nat \ {0} /\ p.at + n <= StreamLength
    BY PieceIs
  <1>3. o \in Nat /\ more \in Nat /\ o + n + more <= LENGTH - 1 - size
    BY <1>1
  <1>4. p.at = Taken + first
    BY <1>1, <1>2, <1>3, SMT
  <1>5. /\ m1 \in Markers /\ m1.tail = rxStream.tail
        /\ uxStreamBufferGetSize(m1) = IF o = 0 THEN size + n ELSE size
    <2>1. n \in Nat /\ o + n <= uxStreamBufferGetSpace(rxStream)
      BY <1>1, <1>2, <1>3, SMT
    <2> QED  BY <1>1, <1>3, <2>1, AddIs
  <1> HIDE DEF m1
  <1>6. /\ m2 \in Markers /\ m2.tail = rxStream.tail
        /\ uxStreamBufferGetSize(m2) = uxStreamBufferGetSize(m1) + more
    <2>1. 0 + more <= uxStreamBufferGetSpace(m1)
      <3>1. uxStreamBufferGetSpace(m1) = LENGTH - 1 - uxStreamBufferGetSize(m1)
        BY <1>5, SizeAndSpace
      <3> QED  BY <1>1, <1>2, <1>3, <1>5, <3>1, SMT
    <2> QED  BY <1>3, <1>5, <2>1, AddIs
  <1>7. /\ rxStream' = m2
        /\ ucArray' = WrittenTo(ucArray, rxStream, o, n, byte)
    <2>1. ~ (o < 0)
      BY <1>3, SMT
    <2> QED  BY <2>1 DEF prvStoreRxData, m1
  <1>8. Taken' = Taken
    BY DEF Taken
  <1>9. uxStreamBufferGetSize(m2) = size + (IF o = 0 THEN n + more ELSE 0)
    BY <1>1, <1>2, <1>3, <1>5, <1>6, SMT
  <1> HIDE DEF m2
  <1>10. ASSUME NEW x \in 0 .. LENGTH - 1
         PROVE  ucArray'[Wrap(rxStream'.tail + x)] =
                   IF first <= x /\ x < first + n THEN Taken + x
                   ELSE ucArray[Wrap(rxStream.tail + x)]
    <2>1. n \in Nat /\ o + n <= uxStreamBufferGetSpace(rxStream)
      BY <1>1, <1>2, <1>3, SMT
    <2> HIDE DEF byte, o, n, first
    <2>0. first = uxStreamBufferGetSize(rxStream) + o
      BY DEF first
    <2>2. ucArray'[Wrap(rxStream.tail + x)] =
             IF first <= x /\ x < first + n THEN byte[x - first]
             ELSE ucArray[Wrap(rxStream.tail + x)]
      <3>1. o \in Nat /\ rxStream \in Markers
        BY <1>1, <1>3
      <3>2. IsWritten(WrittenTo(ucArray, rxStream, o, n, byte), ucArray,
                      Wrap(rxStream.tail + x), byte, first, n, x)
        BY <2>0, <2>1, <3>1, WriteIs
      <3> QED  BY <1>7, <3>2 DEF IsWritten
    <2>3. first <= x /\ x < first + n => byte[x - first] = Taken + x
      <3> SUFFICES ASSUME first <= x, x < first + n
                   PROVE  byte[x - first] = Taken + x
        OBVIOUS
      <3>1. x - first \in 0 .. n - 1 /\ p.at + (x - first) = Taken + x
        BY <1>1, <1>2, <1>3, <1>4, SMT DEF first, n, o
      <3> QED  BY <3>1 DEF byte, first, n
    <2> QED  BY <1>6, <1>7, <2>2, <2>3
  <1>11. ASSUME NEW i, InArray(i)
         PROVE  InArray(i)'
    <2>1. /\ i - Taken \in 0 .. LENGTH - 2 /\ i - Taken \in 0 .. LENGTH - 1
          /\ ucArray[Wrap(rxStream.tail + (i - Taken))] = i
      BY <1>1, <1>11, SMT DEF InArray
    <2>2. Taken + (i - Taken) = i
      <3>1. ucArray[Wrap(rxStream.tail + (i - Taken))] \in 0 .. StreamLength
        <4>1. Wrap(rxStream.tail + (i - Taken)) \in Index
          BY <1>1, <2>1, SMT DEF Wrap, Index
        <4> QED  BY <4>1 DEF Basis
      <3>2. i \in Int
        BY <2>1, <3>1, Sizes, SMT
      <3> QED  BY <1>1, <3>2, SMT
    <2>3. ucArray'[Wrap(rxStream'.tail + (i - Taken))] = i
      BY <1>10, <2>1, <2>2
    <2> QED  BY <1>8, <2>1, <2>3 DEF InArray
  <1>12. ASSUME NEW i \in p.at .. p.at + p.len - 1
         PROVE  InArray(i)'
    <2>1. /\ i - Taken \in 0 .. LENGTH - 2 /\ i - Taken \in 0 .. LENGTH - 1
          /\ first <= i - Taken /\ i - Taken < first + n
          /\ Taken + (i - Taken) = i
      BY <1>1, <1>2, <1>3, <1>4, SMT
    <2>2. ucArray'[Wrap(rxStream'.tail + (i - Taken))] = i
      BY <1>10, <2>1
    <2> QED  BY <1>8, <2>1, <2>2 DEF InArray
  <1>13. ucArray' \in [Index -> 0 .. StreamLength]
    <2>1. ucArray \in [Index -> 0 .. StreamLength]
      BY DEF Basis
    <2>2. ASSUME NEW i \in Index, NEW k, k = uxStreamBufferDistance(
                    Wrap(rxStream.head + o), i)
          PROVE  (IF k < AddCount(rxStream, o, n) THEN byte[k] ELSE ucArray[i])
                    \in 0 .. StreamLength
      <3>1. k < AddCount(rxStream, o, n) => k \in 0 .. n - 1
        <4>1. n \in Nat /\ o + n <= uxStreamBufferGetSpace(rxStream)
          BY <1>1, <1>2, <1>3, SMT
        <4>2. AddCount(rxStream, o, n) = n
          BY <1>1, <1>3, <4>1, AddIs
        <4>3. k \in Nat
          <5>1. rxStream.head \in 0 .. LENGTH - 1 /\ o < LENGTH /\ o \in Nat
            BY <1>1, <1>2, <1>3, SMT DEF Markers, Index
          <5> QED  BY <1>1, <2>2, <5>1, SMT
                   DEF Index, Wrap, uxStreamBufferDistance
        <4> QED  BY <1>2, <4>2, <4>3, SMT
      <3>2. k \in 0 .. n - 1 => byte[k] \in 0 .. StreamLength
        BY <1>2, Sizes, SMT
      <3> QED  BY <2>1, <3>1, <3>2
    <2> QED  BY <1>7, <2>2 DEF WrittenTo
  <1> QED  BY <1>6, <1>7, <1>8, <1>9, <1>11, <1>12, <1>13

-----------------------------------------------------------------------------
(* A packet is stored (prvStoreRxData).                                      *)

\* What holds after it, r being what the window made of the packet.
StoredWell(r) ==
    /\ Basis' /\ StreamIntact' /\ StoredInv' /\ OptionsInv'
    /\ Border(Received') /\ Received <= Received'
    /\ xRxSegments' \subseteq [seq : Seqs, len : 1 .. StreamLength]
    /\ Cardinality(xRxSegments') <= SegCount
    /\ options' = <<>> \/ options' \in Seqs \X Seqs
    /\ \/ r.current = SeqOf(Received')
       \/ state # "ESTABLISHED" /\ r.current = SeqOf(StreamLength + 1)

LEMMA BasisHolds == IInv => Basis
  BY DEF IInv, TypeOK, Basis

\* Bytes that segments cover are held.
LEMMA CoveredHeld ==
    ASSUME StoredInv, NEW i, Covered(xRxSegments, i), i \in Int
    PROVE  Held(i)
  <1>1. PICK s \in xRxSegments : At(s) <= i /\ i < At(s) + s.len
    BY DEF Covered
  <1>2. At(s) \in Nat /\ s.len \in Nat \ {0}
    BY StoredIs DEF StoredInv
  <1>3. i \in At(s) .. At(s) + s.len - 1
    BY <1>1, <1>2, SMT
  <1> QED  BY <1>3 DEF StoredInv

\* Segments have the type they are given.
LEMMA SegmentsTyped ==
    ASSUME NEW segments, Cut(segments)
    PROVE  segments \subseteq [seq : Seqs, len : 1 .. StreamLength]
  <1> SUFFICES ASSUME NEW s \in segments
               PROVE  s \in [seq : Seqs, len : 1 .. StreamLength]
    OBVIOUS
  <1>1. PICK p \in Data : s = SegmentOf(p)
    BY DEF Cut
  <1>2. p.at \in Nat /\ p.len \in Nat \ {0} /\ p.at + p.len <= StreamLength
    BY PieceIs
  <1>3. p.at \in 0 .. StreamLength + 1 /\ p.len \in 1 .. StreamLength
    BY <1>2, Sizes, SMT
  <1>4. SeqOf(p.at) \in Seqs
    BY <1>3, SeqOfIs
  <1> QED  BY <1>1, <1>3, <1>4 DEF SegmentOf

LEMMA SackTyped ==
    ASSUME NEW p \in Data, NEW sack, IsSack(p, sack)
    PROVE  sack \in Seqs \X Seqs
  <1>1. PICK b \in 0 .. StreamLength : sack = <<SeqOf(p.at), SeqOf(b)>>
    BY DEF IsSack
  <1>2. p.at \in Nat /\ p.len \in Nat \ {0} /\ p.at + p.len <= StreamLength
    BY PieceIs
  <1>3. p.at \in 0 .. StreamLength + 1 /\ b \in 0 .. StreamLength + 1
    BY <1>2, Sizes, SMT
  <1> QED  BY <1>1, <1>3, SeqOfIs

\* A selective acknowledgement names bytes that are held.
LEMMA SackHeld ==
    ASSUME NEW p \in Data, IsSack(p, options'),
           \A i \in p.at .. p.at + p.len - 1 : Held(i)',
           \A i \in Nat : Covered(xRxSegments, i) => Held(i)'
    PROVE  OptionsInv'
  <1>1. PICK b \in 0 .. StreamLength :
           /\ p.at + p.len <= b
           /\ options' = <<SeqOf(p.at), SeqOf(b)>>
           /\ \A i \in p.at + p.len .. b - 1 : Covered(xRxSegments, i)
    BY DEF IsSack
  <1>2. p.at \in Nat /\ p.len \in Nat \ {0} /\ p.at + p.len <= StreamLength
    BY PieceIs
  <1>3. p.at \in 0 .. StreamLength
    BY <1>2, Sizes, SMT
  <1>4. ASSUME NEW i \in p.at .. b - 1
        PROVE  Held(i)'
    <2>1. CASE i < p.at + p.len
      <3>1. i \in p.at .. p.at + p.len - 1
        BY <1>2, <2>1, SMT
      <3> QED  BY <3>1
    <2>2. CASE ~ (i < p.at + p.len)
      <3>1. i \in p.at + p.len .. b - 1 /\ i \in Nat
        BY <1>2, <2>2, SMT
      <3> QED  BY <1>1, <3>1
    <2> QED  BY <2>1, <2>2
  <1>5. \E a, c \in 0 .. StreamLength :
           /\ options' = <<SeqOf(a), SeqOf(c)>>
           /\ \A i \in a .. c - 1 : Held(i)'
    BY <1>1, <1>3, <1>4
  <1> QED  BY <1>5 DEF OptionsInv

\* Nothing is written: a packet refused, or one that was stored before.
LEMMA NothingStored ==
    ASSUME IInv, NEW p \in Packets, NEW r, prvStoreRxData(p, r),
           owner' = owner, got' = got,
           r.offset = -1, r.stored = xRxSegments, r.current = window.current,
           \/ r.sack = <<>>
           \/ p \in Data /\ SegmentOf(p) \in xRxSegments /\ IsSack(p, r.sack)
    PROVE  StoredWell(r)
  <1>1. /\ rxStream' = rxStream /\ ucArray' = ucArray
        /\ xRxSegments' = xRxSegments /\ options' = r.sack
    <2>1. r.offset < 0
      BY SMT
    <2> QED  BY <2>1 DEF prvStoreRxData
  <1>2. Taken' = Taken /\ Received' = Received
    BY <1>1 DEF Taken, Received
  <1>3. \A i : Held(i)' <=> Held(i)
    BY <1>1, <1>2 DEF Held
  <1>4. Basis' /\ StreamIntact'
    BY <1>1, <1>2, BasisHolds DEF Basis, OwnerInv, IInv, StreamIntact
  <1>5. StoredInv'
    BY <1>1, <1>2, <1>3 DEF IInv, StoredInv
  <1>6. OptionsInv'
    <2>1. CASE r.sack = <<>>
      BY <1>1, <2>1 DEF OptionsInv
    <2>2. CASE p \in Data /\ SegmentOf(p) \in xRxSegments /\ IsSack(p, r.sack)
      <3>1. \A i \in p.at .. p.at + p.len - 1 : Held(i)'
        <4>1. At(SegmentOf(p)) = p.at /\ SegmentOf(p).len = p.len
          BY <2>2, PieceIs
        <4> QED  BY <1>3, <2>2, <4>1 DEF IInv, StoredInv
      <3>2. \A i \in Nat : Covered(xRxSegments, i) => Held(i)'
        BY <1>3, CoveredHeld DEF IInv
      <3> QED  BY <1>1, <2>2, <3>1, <3>2, SackHeld
    <2> QED  BY <2>1, <2>2
  <1>7. options' = <<>> \/ options' \in Seqs \X Seqs
    BY <1>1, SackTyped
  <1>8. /\ Border(Received') /\ Received <= Received'
        /\ \/ r.current = SeqOf(Received')
           \/ state # "ESTABLISHED" /\ r.current = SeqOf(StreamLength + 1)
    <2>1. Received \in 0 .. StreamLength
      BY WindowFacts
    <2>2. Received <= Received
      BY <2>1, SMT
    <2> QED  BY <1>2, <2>2, WindowFacts
  <1>9. /\ xRxSegments' \subseteq [seq : Seqs, len : 1 .. StreamLength]
        /\ Cardinality(xRxSegments') <= SegCount
    BY <1>1 DEF IInv, TypeOK
  <1> QED  BY <1>4, <1>5, <1>6, <1>7, <1>8, <1>9 DEF StoredWell

\* What was held still is when the array keeps what it had.
LEMMA StaysHeld ==
    ASSUME Basis, StreamIntact, Basis', StreamIntact', Taken' = Taken,
           \A i : InArray(i) => InArray(i)'
    PROVE  \A i \in Nat : /\ Held(i) => Held(i)'
                          /\ InArray(i)' => Held(i)'
  <1> SUFFICES ASSUME NEW i \in Nat
               PROVE  /\ Held(i) => Held(i)'
                      /\ InArray(i)' => Held(i)'
    OBVIOUS
  <1>1. Held(i) <=> (i < Taken \/ InArray(i))
    BY HeldIs
  <1>2. Held(i)' <=> (i < Taken' \/ InArray(i)')
    BY HeldIsNext
  <1> QED  BY <1>1, <1>2

\* The piece that is next in turn is written at the head, and the head moves
\* on over the pieces that follow it.
LEMMA InTurnStored ==
    ASSUME IInv, NEW p \in Data, NEW r, prvStoreRxData(p, r),
           owner' = owner, got' = got, IsInTurn(p, r)
    PROVE  StoredWell(r)
  <1> DEFINE size == uxStreamBufferGetSize(rxStream)
             space == uxStreamBufferGetSpace(rxStream)
             e == p.at + p.len
  <1>1. /\ Basis /\ rxStream \in Markers /\ size \in 0 .. LENGTH - 1
        /\ space = LENGTH - 1 - size /\ Taken \in Nat /\ LENGTH \in Nat
        /\ Received = Taken + size /\ Received \in Nat
    BY BasisHolds, BasisFacts, LengthAssumption
  <1>2. PICK b \in 0 .. StreamLength :
           /\ e <= b /\ Border(b)
           /\ r.offset = 0 /\ r.current = SeqOf(b) /\ r.more = b - e
           /\ r.sack = <<>>
           /\ \A i \in e .. b - 1 : Covered(xRxSegments, i)
           /\ r.stored \subseteq xRxSegments
           /\ \A s \in r.stored : At(s) > b
    BY DEF IsInTurn
  <1>3. p.at = Received /\ p.len <= space
    BY DEF IsInTurn
  <1>4. /\ p.at \in Nat /\ p.len \in Nat \ {0} /\ e <= StreamLength
        /\ p.fin \in BOOLEAN /\ b \in Nat
    BY PieceIs, Sizes, SMT
  <1> HIDE DEF size, space
  <1>5. ASSUME NEW i \in e .. b - 1
        PROVE  i \in Nat /\ Held(i)
    <2>1. i \in Nat /\ i \in Int
      BY <1>4, SMT
    <2> QED  BY <1>2, <2>1, CoveredHeld DEF IInv
  <1>6. r.offset \in Nat /\ r.more \in Nat /\ p.at = Received + r.offset
    BY <1>1, <1>2, <1>3, <1>4, SMT
  <1>7. b - Received <= space
    <2>1. CASE b = e
      BY <1>1, <1>3, <1>4, <2>1, SMT
    <2>2. CASE b # e
      <3>1. b - 1 \in e .. b - 1 /\ ~ (b - 1 < Received)
        BY <1>1, <1>2, <1>3, <1>4, <2>2, SMT
      <3>2. (b - 1) - Received < space
        BY <1>5, <3>1 DEF Held, space
      <3>3. space \in Int
        BY <1>1, SMT
      <3> QED  BY <1>1, <1>4, <3>2, <3>3, SMT
    <2> QED  BY <2>1, <2>2
  <1>8. r.offset + p.len + r.more <= space
    <2>1. space \in Int
      BY <1>1, SMT
    <2> QED  BY <1>1, <1>2, <1>3, <1>4, <1>7, <2>1, SMT
  <1>9. /\ rxStream' \in Markers /\ rxStream'.tail = rxStream.tail
        /\ ucArray' \in [Index -> 0 .. StreamLength]
        /\ Taken' = Taken
        /\ uxStreamBufferGetSize(rxStream') = size + (p.len + r.more)
        /\ \A i : InArray(i) => InArray(i)'
        /\ \A i \in p.at .. p.at + p.len - 1 : InArray(i)'
    BY <1>1, <1>2, <1>6, <1>8, StoreEffect DEF size, space
  <1>10. Received' = b
    <2>1. Received' = Taken + (size + (p.len + r.more))
      BY <1>9 DEF Received
    <2> QED  BY <1>1, <1>2, <1>3, <1>4, <2>1, SMT
  <1>11. Basis'
    <2>1. /\ owner'.count \in 0 .. BufferLength
          /\ got' \in Seq(0 .. StreamLength)
      BY <1>1 DEF Basis
    <2>2. OwnerInv'
      <3>1. /\ owner.count <= size /\ owner.count <= Len(got)
            /\ owner.at # "take" => owner.count = 0
        BY DEF IInv, OwnerInv, size
      <3>2. owner.count \in Nat
        BY <1>1, BasisFacts
      <3>3. owner.count <= uxStreamBufferGetSize(rxStream')
        BY <1>1, <1>4, <1>6, <1>9, <3>1, <3>2, SMT
      <3> QED  BY <3>1, <3>3 DEF OwnerInv
    <2> QED  BY <1>9, <2>1, <2>2 DEF Basis
  <1>12. StreamIntact'
    <2>1. \A i \in 1 .. Len(got') : got'[i] = i - 1
      BY DEF IInv, StreamIntact
    <2>2. ASSUME NEW k \in 0 .. uxStreamBufferGetSize(rxStream') - 1
          PROVE  ucArray'[Wrap(rxStream'.tail + k)] = Taken' + k
      <3> DEFINE i == Taken + k
      <3>1. k \in Nat /\ k < size + (p.len + r.more)
        BY <1>1, <1>4, <1>6, <1>9, SMT
      <3>2. i \in Nat /\ i < b /\ ~ (i < Taken) /\ i - Taken = k
        BY <1>1, <1>2, <1>3, <1>4, <3>1, SMT
      <3>3. InArray(i)'
        <4>1. CASE i < Received
          <5>1. Held(i)
            BY <4>1 DEF Held
          <5> QED  BY <1>1, <1>9, <3>2, <5>1, HeldIs DEF IInv
        <4>2. CASE ~ (i < Received) /\ i < e
          <5>1. i \in p.at .. p.at + p.len - 1
            BY <1>3, <1>4, <3>2, <4>2, SMT
          <5> QED  BY <1>9, <5>1
        <4>3. CASE ~ (i < e)
          <5>1. i \in e .. b - 1
            BY <1>4, <3>2, <4>3, SMT
          <5>2. Held(i)
            BY <1>5, <5>1
          <5> QED  BY <1>1, <1>9, <3>2, <5>2, HeldIs DEF IInv
        <4> QED  BY <4>1, <4>2, <4>3
      <3> QED  BY <1>9, <3>2, <3>3 DEF InArray
    <2> QED  BY <2>1, <2>2 DEF StreamIntact
  <1>13. \A i \in Nat : Held(i) => Held(i)'
    BY <1>1, <1>9, <1>11, <1>12, StaysHeld DEF IInv
  <1>14. xRxSegments' = r.stored /\ options' = <<>>
    BY <1>2 DEF prvStoreRxData
  <1>15. Cut(xRxSegments') /\ IsFiniteSet(xRxSegments')
         /\ Cardinality(xRxSegments') <= SegCount
    <2>1. /\ Cut(xRxSegments) /\ IsFiniteSet(xRxSegments)
          /\ Cardinality(xRxSegments) <= SegCount /\ SegCount \in Nat
      BY ReceiveAssumption DEF IInv, StoredInv, TypeOK
    <2>2. /\ IsFiniteSet(r.stored)
          /\ Cardinality(r.stored) <= Cardinality(xRxSegments)
          /\ Cardinality(r.stored) \in Nat /\ Cardinality(xRxSegments) \in Nat
      BY <1>2, <2>1, FS_Subset, FS_CardinalityType
    <2>3. Cardinality(r.stored) <= SegCount
      BY <2>1, <2>2, SMT
    <2> QED  BY <1>2, <1>14, <2>1, <2>2, <2>3 DEF Cut
  <1>16. StoredInv'
    <2>1. ASSUME NEW s \in xRxSegments'
          PROVE  /\ At(s) > Received'
                 /\ \A i \in At(s) .. At(s) + s.len - 1 : Held(i)'
      <3>1. s \in xRxSegments /\ At(s) > Received'
        BY <1>2, <1>10, <1>14
      <3>2. At(s) \in Nat /\ s.len \in Nat
        BY <1>15, StoredIs
      <3>3. \A i \in At(s) .. At(s) + s.len - 1 : i \in Nat /\ Held(i)
        BY <3>1, <3>2, SMT DEF IInv, StoredInv
      <3> QED  BY <1>13, <3>1, <3>3
    <2> QED  BY <1>15, <2>1 DEF StoredInv
  <1>17. OptionsInv'
    BY <1>14 DEF OptionsInv
  <1>18. Border(Received') /\ Received <= Received' /\ r.current = SeqOf(Received')
    <2>1. Received <= b
      BY <1>1, <1>2, <1>3, <1>4, SMT
    <2> QED  BY <1>2, <1>10, <2>1
  <1> QED  BY <1>11, <1>12, <1>14, <1>15, <1>16, <1>17, <1>18, SegmentsTyped
           DEF StoredWell

\* A piece that comes ahead of its turn is written where it will be read.
LEMMA AheadStored ==
    ASSUME IInv, NEW p \in Data, NEW r, prvStoreRxData(p, r),
           owner' = owner, got' = got, IsAhead(p, r)
    PROVE  StoredWell(r)
  <1> DEFINE size == uxStreamBufferGetSize(rxStream)
             space == uxStreamBufferGetSpace(rxStream)
  <1>1. /\ Basis /\ rxStream \in Markers /\ size \in 0 .. LENGTH - 1
        /\ space = LENGTH - 1 - size /\ Taken \in Nat /\ LENGTH \in Nat
        /\ Received = Taken + size /\ Received \in Nat
    BY BasisHolds, BasisFacts, LengthAssumption
  <1>2. /\ p.at > Received /\ (p.at + p.len) - Received <= space
        /\ window.current = SeqOf(Received)
        /\ Cardinality(xRxSegments) < SegCount
        /\ r.offset = p.at - Received /\ r.current = window.current
        /\ r.stored = xRxSegments \cup {SegmentOf(p)} /\ r.more = 0
        /\ IsSack(p, r.sack)
    BY DEF IsAhead
  <1>3. p.at \in Nat /\ p.len \in Nat \ {0}
    BY PieceIs
  <1> HIDE DEF size, space
  <1>4. /\ r.offset \in Nat /\ r.more \in Nat /\ p.at = Received + r.offset
        /\ r.offset # 0 /\ r.offset + p.len + r.more <= space
    <2>1. space \in Int
      BY <1>1, SMT
    <2> QED  BY <1>1, <1>2, <1>3, <2>1, SMT
  <1>5. /\ rxStream' \in Markers /\ rxStream'.tail = rxStream.tail
        /\ ucArray' \in [Index -> 0 .. StreamLength]
        /\ Taken' = Taken
        /\ uxStreamBufferGetSize(rxStream') = size + 0
        /\ \A i : InArray(i) => InArray(i)'
        /\ \A i \in p.at .. p.at + p.len - 1 : InArray(i)'
    BY <1>1, <1>2, <1>4, StoreEffect DEF size, space
  <1>6. uxStreamBufferGetSize(rxStream') = size
    BY <1>1, <1>5, SMT
  <1>7. Received' = Received
    BY <1>1, <1>5, <1>6 DEF Received
  <1>8. Basis'
    BY <1>1, <1>5, <1>6 DEF Basis, OwnerInv, size
  <1>9. StreamIntact'
    <2>1. \A i \in 1 .. Len(got') : got'[i] = i - 1
      BY DEF IInv, StreamIntact
    <2>2. ASSUME NEW k \in 0 .. uxStreamBufferGetSize(rxStream') - 1
          PROVE  ucArray'[Wrap(rxStream'.tail + k)] = Taken' + k
      <3> DEFINE i == Taken + k
      <3>1. /\ i \in Nat /\ i < Received /\ ~ (i < Taken) /\ i - Taken = k
        BY <1>1, <1>6, SMT
      <3>2. Held(i)
        BY <3>1 DEF Held
      <3>3. InArray(i)'
        BY <1>1, <1>5, <3>1, <3>2, HeldIs DEF IInv
      <3> QED  BY <1>5, <3>1, <3>3 DEF InArray
    <2> QED  BY <2>1, <2>2 DEF StreamIntact
  <1>10. \A i \in Nat : (Held(i) => Held(i)') /\ (InArray(i)' => Held(i)')
    BY <1>1, <1>5, <1>8, <1>9, StaysHeld DEF IInv
  <1>11. \A i \in p.at .. p.at + p.len - 1 : Held(i)'
    <2>1. \A i \in p.at .. p.at + p.len - 1 : i \in Nat
      BY <1>3, SMT
    <2> QED  BY <1>5, <1>10, <2>1
  <1>12. xRxSegments' = xRxSegments \cup {SegmentOf(p)} /\ options' = r.sack
    BY <1>2 DEF prvStoreRxData
  <1>13. /\ Cut(xRxSegments) /\ IsFiniteSet(xRxSegments)
         /\ SegCount \in Nat
    BY ReceiveAssumption DEF IInv, StoredInv
  <1>14. Cut(xRxSegments') /\ IsFiniteSet(xRxSegments')
         /\ Cardinality(xRxSegments') <= SegCount
    <2>1. /\ IsFiniteSet(xRxSegments \cup {SegmentOf(p)})
          /\ Cardinality(xRxSegments) \in Nat
          /\ \/ Cardinality(xRxSegments \cup {SegmentOf(p)}) = Cardinality(xRxSegments)
             \/ Cardinality(xRxSegments \cup {SegmentOf(p)}) =
                   Cardinality(xRxSegments) + 1
      BY <1>13, FS_AddElement, FS_CardinalityType
    <2>2. Cardinality(xRxSegments \cup {SegmentOf(p)}) <= SegCount
      BY <1>2, <1>13, <2>1, SMT
    <2> QED  BY <1>12, <1>13, <2>1, <2>2 DEF Cut
  <1>15. StoredInv'
    <2>1. ASSUME NEW s \in xRxSegments'
          PROVE  /\ At(s) > Received'
                 /\ \A i \in At(s) .. At(s) + s.len - 1 : Held(i)'
      <3>1. CASE s \in xRxSegments
        <4>1. At(s) > Received'
          BY <1>7, <3>1 DEF IInv, StoredInv
        <4>2. At(s) \in Nat /\ s.len \in Nat
          BY <1>14, StoredIs
        <4>3. \A i \in At(s) .. At(s) + s.len - 1 : i \in Nat /\ Held(i)
          BY <3>1, <4>2, SMT DEF IInv, StoredInv
        <4> QED  BY <1>10, <4>1, <4>3
      <3>2. CASE s = SegmentOf(p)
        <4>1. At(s) = p.at /\ s.len = p.len
          BY <3>2, PieceIs
        <4> QED  BY <1>2, <1>7, <1>11, <4>1
      <3> QED  BY <1>12, <3>1, <3>2
    <2> QED  BY <1>14, <2>1 DEF StoredInv
  <1>16. OptionsInv'
    <2>1. \A i \in Nat : Covered(xRxSegments, i) => Held(i)'
      <3>1. ASSUME NEW i \in Nat, Covered(xRxSegments, i)
            PROVE  Held(i)'
        <4>1. Held(i)
          BY <3>1, CoveredHeld DEF IInv
        <4> QED  BY <1>10, <4>1
      <3> QED  BY <3>1
    <2> QED  BY <1>2, <1>11, <1>12, <2>1, SackHeld
  <1>17. options' = <<>> \/ options' \in Seqs \X Seqs
    BY <1>2, <1>12, SackTyped
  <1>18. /\ Border(Received') /\ Received <= Received'
         /\ r.current = SeqOf(Received')
    <2>1. Received <= Received
      BY <1>1, SMT
    <2> QED  BY <1>2, <1>7, <2>1, WindowFacts
  <1> QED  BY <1>8, <1>9, <1>14, <1>15, <1>16, <1>17, <1>18, SegmentsTyped
           DEF StoredWell

\* Whatever the window makes of it, a packet is stored as it should be.
LEMMA StoreStep ==
    ASSUME IInv, NEW p \in Packets, prvStoreRxData(p, Checked(p)),
           owner' = owner, got' = got
    PROVE  StoredWell(Checked(p))
  <1> DEFINE r == Checked(p)
  <1>1. CASE r = Refused
    <2>1. /\ r.offset = -1 /\ r.stored = xRxSegments
          /\ r.current = window.current /\ r.sack = <<>>
      BY <1>1 DEF Refused
    <2> HIDE DEF r
    <2> QED  BY <2>1, NothingStored DEF r
  <1>2. CASE p \in Data /\ IsKnown(p, r)
    <2>1. /\ r.offset = -1 /\ r.stored = xRxSegments
          /\ r.current = window.current
          /\ SegmentOf(p) \in xRxSegments /\ IsSack(p, r.sack)
      BY <1>2 DEF IsKnown, Refused
    <2> HIDE DEF r
    <2> QED  BY <1>2, <2>1, NothingStored DEF r
  <1>3. CASE p \in Data /\ IsInTurn(p, r)
    BY <1>3, InTurnStored
  <1>4. CASE p \in Data /\ IsAhead(p, r)
    BY <1>4, AheadStored
  <1> QED  BY <1>1, <1>2, <1>3, <1>4, CheckedIs

-----------------------------------------------------------------------------
(* The window, the flags and the state after a packet.                       *)

\* What the handling of a packet p begins with: the window w, the flags b.
Prepared(p, w, b) ==
    /\ w \in [current : Seqs, highest : Seqs, fin : Seqs]
    /\ \/ w.current = SeqOf(Received')
       \/ state # "ESTABLISHED" /\ w.current = SeqOf(StreamLength + 1)
    /\ \E h \in 0 .. StreamLength : /\ w.highest = SeqOf(h)
                                    /\ p.at + p.len <= h
    /\ b \in Bits
    /\ b.bFinRecv \/ owner.bits.bFinRecv => w.fin = SeqOf(StreamLength)
    /\ p.fin => b.bFinRecv
    /\ b.bFinAccepted \/ owner.bits.bFinAccepted => Received' = StreamLength
    /\ state = "ESTABLISHED" => ~ b.bFinSent /\ ~ b.bFinAcked

\* ... and ends with.
HandledWell ==
    /\ window' \in [current : Seqs, highest : Seqs, fin : Seqs]
    /\ state' \in States /\ bits' \in Bits
    /\ \/ window'.current = SeqOf(Received')
       \/ state' # "ESTABLISHED" /\ window'.current = SeqOf(StreamLength + 1)
    /\ \E h \in 0 .. StreamLength : window'.highest = SeqOf(h)
    /\ BitsInv(bits)' /\ BitsInv(owner.bits)'

\* The highest number after a packet is the highest of the two.
LEMMA HighIs ==
    ASSUME NEW h \in 0 .. StreamLength, NEW e \in 0 .. StreamLength
    PROVE  \E g \in 0 .. StreamLength :
              /\ e <= g
              /\ (IF Signed(SeqOf(e), SeqOf(h)) > 0 THEN SeqOf(e)
                  ELSE SeqOf(h)) = SeqOf(g)
  <1>1. h \in 0 .. StreamLength + 1 /\ e \in 0 .. StreamLength + 1
    BY Sizes, SMT
  <1>2. Signed(SeqOf(e), SeqOf(h)) = e - h
    BY <1>1, SignedIs
  <1>3. CASE e - h > 0
    <2>1. e <= e
      BY <1>1, SMT
    <2> QED  BY <1>2, <1>3, <2>1
  <1>4. CASE ~ (e - h > 0)
    <2>1. e <= h
      BY <1>1, <1>4, SMT
    <2> QED  BY <1>2, <1>4, <2>1
  <1> QED  BY <1>3, <1>4

LEMMA PacketIs ==
    ASSUME NEW p \in Packets
    PROVE  /\ p.at \in Nat /\ p.len \in Nat /\ p.fin \in BOOLEAN
           /\ p.at + p.len \in 0 .. StreamLength
           /\ p.fin => p.at + p.len = StreamLength
           /\ Plus(SeqOf(p.at), p.len) = SeqOf(p.at + p.len)
  <1>1. /\ p.at \in Nat /\ p.len \in Nat /\ p.fin \in BOOLEAN
        /\ p.at + p.len <= StreamLength
        /\ p.fin => p.at + p.len = StreamLength
    BY ReceiveAssumption
  <1>2. /\ p.at \in 0 .. StreamLength + 1
        /\ p.at + p.len <= StreamLength + 1
        /\ p.at + p.len \in 0 .. StreamLength
    BY <1>1, Sizes, SMT
  <1> QED  BY <1>1, <1>2, PlusIs

\* The end of the peer's stream (prvTCPHandleFin).
LEMMA FinStep ==
    ASSUME NEW p \in Packets, NEW acked \in BOOLEAN, NEW w, NEW b,
           Prepared(p, w, b), HandleFin(p, acked, w, b),
           state \in States, owner' = owner
    PROVE  HandledWell
  <1> DEFINE b1 == IF b.bFinSent
                   THEN [b EXCEPT !.bFinAcked = b.bFinAcked \/ acked]
                   ELSE [b EXCEPT !.bFinSent = TRUE]
  <1>1. b \in Bits
    BY DEF Prepared
  <1>2. /\ b1 \in Bits
        /\ b1.bFinRecv = b.bFinRecv /\ b1.bFinAccepted = b.bFinAccepted
    BY <1>1 DEF Bits
  <1>3. state = "ESTABLISHED" => ~ b1.bFinAcked
    BY <1>1 DEF Prepared, Bits
  <1> HIDE DEF b1
  <1>4. /\ window' = IF p.fin THEN [w EXCEPT !.current = Plus(w.fin, 1)] ELSE w
        /\ bits' = b1
        /\ state' = IF ~ b1.bFinAcked THEN "LAST_ACK"
                    ELSE IF b1.bFinRecv THEN "CLOSE_WAIT"
                    ELSE state
    BY DEF HandleFin, b1
  <1>5. state' \in States /\ state' # "ESTABLISHED"
    BY <1>3, <1>4 DEF States
  <1>6. /\ window' \in [current : Seqs, highest : Seqs, fin : Seqs]
        /\ window'.highest = w.highest /\ window'.fin = w.fin
        /\ window'.current = w.current \/ window'.current = SeqOf(StreamLength + 1)
    <2>1. CASE p.fin
      <3>1. w.fin = SeqOf(StreamLength)
        BY <2>1 DEF Prepared
      <3>2. /\ StreamLength \in 0 .. StreamLength + 1 /\ 1 \in Nat
            /\ StreamLength + 1 <= StreamLength + 1
            /\ StreamLength + 1 \in 0 .. StreamLength + 1
        BY Sizes, SMT
      <3>3. Plus(w.fin, 1) = SeqOf(StreamLength + 1)
        BY <3>1, <3>2, PlusIs
      <3>4. SeqOf(StreamLength + 1) \in Seqs
        BY <3>2, SeqOfIs
      <3> QED  BY <1>4, <2>1, <3>3, <3>4 DEF Prepared
    <2>2. CASE ~ p.fin
      BY <1>4, <2>2 DEF Prepared
    <2> QED  BY <2>1, <2>2
  <1>7. BitsInv(bits)' /\ BitsInv(owner.bits)'
    BY <1>2, <1>4, <1>5, <1>6 DEF BitsInv, Prepared
  <1>8. \/ window'.current = SeqOf(Received')
        \/ state' # "ESTABLISHED" /\ window'.current = SeqOf(StreamLength + 1)
    BY <1>5, <1>6 DEF Prepared
  <1>9. \E h \in 0 .. StreamLength : window'.highest = SeqOf(h)
    BY <1>6 DEF Prepared
  <1> QED  BY <1>2, <1>4, <1>5, <1>6, <1>7, <1>8, <1>9 DEF HandledWell

\* The owner's end of the stream (prvTCPPrepareSend).
LEMMA SendStep ==
    ASSUME NEW p, NEW txDone \in BOOLEAN, NEW w, NEW b,
           Prepared(p, w, b), window' = w, PrepareSend(b, txDone),
           state \in States, owner' = owner, BitsInv(owner.bits)
    PROVE  HandledWell
  <1>1. b \in Bits
    BY DEF Prepared
  <1>2. CASE state = "ESTABLISHED" /\ b.bUserShutdown /\ txDone
    <2>1. /\ bits' = [b EXCEPT !.bUserShutdown = FALSE, !.bFinSent = TRUE]
          /\ state' = "FIN_WAIT_1"
      BY <1>2 DEF PrepareSend
    <2>2. /\ bits' \in Bits /\ bits'.bFinRecv = b.bFinRecv
          /\ bits'.bFinAccepted = b.bFinAccepted
      BY <1>1, <2>1 DEF Bits
    <2>3. BitsInv(bits)' /\ BitsInv(owner.bits)'
      BY <2>1, <2>2 DEF BitsInv, Prepared
    <2> QED  BY <2>1, <2>2, <2>3 DEF HandledWell, Prepared, States
  <1>3. CASE ~ (state = "ESTABLISHED" /\ b.bUserShutdown /\ txDone)
    <2>1. bits' = b /\ state' = state
      BY <1>3 DEF PrepareSend
    <2>2. BitsInv(bits)' /\ BitsInv(owner.bits)'
      BY <2>1 DEF BitsInv, Prepared
    <2> QED  BY <1>1, <2>1, <2>2 DEF HandledWell, Prepared
  <1> QED  BY <1>2, <1>3

\* In ESTABLISHED the end is accepted when all bytes have come in.
LEMMA EstablishedStep ==
    ASSUME NEW p \in Packets, NEW txDone \in BOOLEAN, NEW acked \in BOOLEAN,
           NEW w, NEW b, Prepared(p, w, b),
           HandleEstablished(p, txDone, acked, w, b), state = "ESTABLISHED",
           owner' = owner, BitsInv(owner.bits), Border(Received')
    PROVE  HandledWell
  <1>1. state \in States
    BY DEF States
  <1>2. b \in Bits /\ ~ b.bFinSent
    BY DEF Prepared
  <1>3. CASE /\ b.bFinAccepted \/ p.fin
             /\ xTCPWindowRxEmpty(w, xRxSegments')
             /\ HandleFin(p, acked, w, [b EXCEPT !.bFinAccepted = TRUE])
    <2> DEFINE c == [b EXCEPT !.bFinAccepted = TRUE]
    <2>1. Received' = StreamLength
      <3>1. CASE b.bFinAccepted
        BY <3>1 DEF Prepared
      <3>2. CASE p.fin
        <4>1. p.at + p.len = StreamLength
          BY <3>2, PacketIs
        <4>2. PICK h \in 0 .. StreamLength : /\ w.highest = SeqOf(h)
                                            /\ p.at + p.len <= h
          BY DEF Prepared
        <4>3. w.current = SeqOf(Received') /\ Received' \in 0 .. StreamLength
          BY DEF Prepared, Border
        <4>4. Received' >= h
          BY <1>3, <4>2, <4>3, Compared DEF xTCPWindowRxEmpty
        <4> QED  BY <4>1, <4>2, <4>3, <4>4, Sizes, SMT
      <3> QED  BY <1>3, <3>1, <3>2
    <2>2. /\ c \in Bits /\ c.bFinRecv = b.bFinRecv /\ c.bFinSent = b.bFinSent
          /\ c.bFinAcked = b.bFinAcked
      BY <1>2 DEF Bits
    <2> HIDE DEF c
    <2>3. Prepared(p, w, c)
      BY <2>1, <2>2 DEF Prepared
    <2>4. HandleFin(p, acked, w, c)
      BY <1>3 DEF c
    <2> QED  BY <1>1, <2>3, <2>4, FinStep
  <1>4. CASE window' = w /\ PrepareSend(b, txDone)
    BY <1>1, <1>4, SendStep
  <1>5. CASE window' = w /\ bits' = b /\ state' = state
    <2>1. BitsInv(bits)' /\ BitsInv(owner.bits)'
      BY <1>5 DEF BitsInv, Prepared
    <2> QED  BY <1>1, <1>2, <1>5, <2>1 DEF HandledWell, Prepared
  <1> QED  BY <1>2, <1>3, <1>4, <1>5 DEF HandleEstablished

\* A packet of the peer.
LEMMA ReceiveStep ==
    ASSUME IInv, NEW p \in Packets, NEW txDone \in BOOLEAN, NEW acked \in BOOLEAN,
           Receive(p, txDone, acked)
    PROVE  IInv'
  <1> DEFINE r == Checked(p)
             e == p.at + p.len
             high == IF Signed(SeqOf(e), window.highest) > 0 THEN SeqOf(e)
                     ELSE window.highest
             fin == IF p.fin /\ ~ bits.bFinRecv THEN SeqOf(e) ELSE window.fin
             w == [current |-> r.current, highest |-> high, fin |-> fin]
             b == [bits EXCEPT !.bFinRecv = bits.bFinRecv \/ p.fin,
                               !.bLowWater = \/ bits.bLowWater
                                             \/ ReachesLowWater(r)]
  <1>1. /\ p.at \in Nat /\ p.len \in Nat /\ p.fin \in BOOLEAN
        /\ e \in 0 .. StreamLength
        /\ p.fin => e = StreamLength
        /\ Plus(SeqOf(p.at), p.len) = SeqOf(e)
    BY PacketIs
  <1>2. /\ prvStoreRxData(p, r)
        /\ Handled(p, txDone, acked, w, b)
        /\ owner' = owner /\ got' = got
    BY <1>1 DEF Receive
  <1>3. StoredWell(r)
    BY <1>2, StoreStep
  <1>4. /\ bits \in Bits /\ state \in States
        /\ owner \in [at : {"idle", "take", "check", "clear", "cleared", "shut",
                            "shutting"},
                      count : 0 .. BufferLength, bits : Bits]
        /\ window \in [current : Seqs, highest : Seqs, fin : Seqs]
    BY DEF IInv, TypeOK
  <1>5. Border(Received') /\ Received' \in 0 .. StreamLength
        /\ Received <= Received' /\ Received \in 0 .. StreamLength
    BY <1>3, WindowFacts DEF StoredWell, Border
  <1>6. BitsInv(bits) /\ BitsInv(owner.bits)
    BY DEF IInv
  <1>7. Prepared(p, w, b)
    <2>1. /\ r.current \in Seqs
          /\ \/ r.current = SeqOf(Received')
             \/ state # "ESTABLISHED" /\ r.current = SeqOf(StreamLength + 1)
      <3>1. \/ r.current = SeqOf(Received')
            \/ state # "ESTABLISHED" /\ r.current = SeqOf(StreamLength + 1)
        BY <1>3 DEF StoredWell
      <3>2. /\ Received' \in 0 .. StreamLength + 1
            /\ StreamLength + 1 \in 0 .. StreamLength + 1
        BY <1>5, Sizes, SMT
      <3> QED  BY <3>1, <3>2, SeqOfIs
    <2>2. \E h \in 0 .. StreamLength : high = SeqOf(h) /\ e <= h
      <3>1. PICK h \in 0 .. StreamLength : window.highest = SeqOf(h)
        BY DEF IInv, WindowInv
      <3> QED  BY <1>1, <3>1, HighIs
    <2>3. high \in Seqs /\ fin \in Seqs
      <3>1. e \in 0 .. StreamLength + 1
        BY <1>1, Sizes, SMT
      <3>2. SeqOf(e) \in Seqs
        BY <3>1, SeqOfIs
      <3> QED  BY <1>4, <3>2
    <2>4. /\ bits.bFinRecv \/ owner.bits.bFinRecv \/ p.fin =>
                fin = SeqOf(StreamLength)
      BY <1>1, <1>6 DEF BitsInv
    <2>5. bits.bFinAccepted \/ owner.bits.bFinAccepted =>
             Received' = StreamLength
      <3>1. bits.bFinAccepted \/ owner.bits.bFinAccepted =>
               Received = StreamLength
        BY <1>6 DEF BitsInv
      <3> QED  BY <1>5, <3>1, SMT
    <2>6. (bits.bLowWater \/ ReachesLowWater(r)) \in BOOLEAN
      BY <1>4 DEF Bits, ReachesLowWater
    <2>7. /\ b \in Bits
          /\ b.bFinRecv = (bits.bFinRecv \/ p.fin)
          /\ b.bFinAccepted = bits.bFinAccepted
          /\ b.bFinSent = bits.bFinSent /\ b.bFinAcked = bits.bFinAcked
      BY <1>1, <1>4, <2>6, Zenon DEF Bits
    <2> HIDE DEF b, high, fin, r
    <2>8. /\ w \in [current : Seqs, highest : Seqs, fin : Seqs]
          /\ w.current = r.current /\ w.highest = high /\ w.fin = fin
      BY <2>1, <2>3
    <2> HIDE DEF w
    <2>9. /\ b.bFinRecv \/ owner.bits.bFinRecv => w.fin = SeqOf(StreamLength)
          /\ p.fin => b.bFinRecv
          /\ b.bFinAccepted \/ owner.bits.bFinAccepted =>
                Received' = StreamLength
      BY <2>4, <2>5, <2>7, <2>8
    <2>10. state = "ESTABLISHED" => ~ b.bFinSent /\ ~ b.bFinAcked
      BY <1>6, <2>7 DEF BitsInv
    <2>11. \E h \in 0 .. StreamLength : w.highest = SeqOf(h) /\ p.at + p.len <= h
      BY <2>2, <2>8
    <2> QED  BY <2>1, <2>7, <2>8, <2>9, <2>10, <2>11 DEF Prepared
  <1> HIDE DEF r, w, b
  <1>8. HandledWell
    <2>1. CASE HandleEstablished(p, txDone, acked, w, b) /\ state = "ESTABLISHED"
      BY <1>2, <1>5, <1>6, <1>7, <2>1, EstablishedStep
    <2>2. CASE HandleFin(p, acked, w, b)
      BY <1>2, <1>4, <1>7, <2>2, FinStep
    <2> QED  BY <1>2, <2>1, <2>2 DEF Handled
  <1>9. TypeOK'
    BY <1>2, <1>3, <1>4, <1>8 DEF TypeOK, StoredWell, HandledWell, Basis
  <1>10. OneSegmentation
    BY DEF IInv
  <1>11. WindowInv'
    BY <1>3, <1>8 DEF StoredWell, HandledWell, WindowInv
  <1> QED  BY <1>3, <1>8, <1>9, <1>10, <1>11
           DEF IInv, StoredWell, HandledWell, Basis

-----------------------------------------------------------------------------
(* The other steps.                                                          *)

\* What a step keeps that leaves the stream, the window and what was read
\* alone.
LEMMA DataUnchanged ==
    ASSUME IInv, rxStream' = rxStream, ucArray' = ucArray, got' = got,
           xRxSegments' = xRxSegments, options' = options, window' = window,
           owner'.count = owner.count, owner'.at # "take" => owner'.count = 0,
           state # "ESTABLISHED" => state' # "ESTABLISHED"
    PROVE  /\ Received' = Received /\ Taken' = Taken
           /\ OwnerInv' /\ StreamIntact' /\ WindowInv' /\ StoredInv'
           /\ OptionsInv'
  <1>1. Taken' = Taken /\ Received' = Received
    BY DEF Taken, Received
  <1>2. \A i : Held(i)' <=> Held(i)
    BY <1>1 DEF Held
  <1>3. OwnerInv'
    BY DEF IInv, OwnerInv
  <1>4. StreamIntact'
    BY <1>1 DEF IInv, StreamIntact
  <1>5. WindowInv'
    BY <1>1 DEF IInv, WindowInv
  <1>6. StoredInv'
    BY <1>1, <1>2 DEF IInv, StoredInv
  <1>7. OptionsInv'
    BY <1>2 DEF IInv, OptionsInv
  <1> QED  BY <1>1, <1>3, <1>4, <1>5, <1>6, <1>7

LEMMA SocketCheckStep == IInv /\ SocketCheck => IInv'
  <1> SUFFICES ASSUME IInv, SocketCheck PROVE IInv'
    OBVIOUS
  <1>1. /\ rxStream' = rxStream /\ ucArray' = ucArray /\ got' = got
        /\ xRxSegments' = xRxSegments /\ options' = options /\ window' = window
        /\ owner' = owner /\ PrepareSend(bits, TRUE)
    BY DEF SocketCheck
  <1>2. /\ owner.at # "take" => owner.count = 0
        /\ TypeOK /\ BitsInv(bits) /\ BitsInv(owner.bits)
    BY DEF IInv, OwnerInv
  <1>3. bits \in Bits /\ state \in States
    BY <1>2 DEF TypeOK
  <1>4. \/ bits' = bits /\ state' = state
        \/ /\ bits' = [bits EXCEPT !.bUserShutdown = FALSE, !.bFinSent = TRUE]
           /\ state' = "FIN_WAIT_1"
    BY <1>1 DEF PrepareSend
  <1>5. /\ bits' \in Bits /\ state' \in States
        /\ bits'.bFinRecv = bits.bFinRecv
        /\ bits'.bFinAccepted = bits.bFinAccepted
        /\ state # "ESTABLISHED" => state' # "ESTABLISHED"
        /\ state' = "ESTABLISHED" => bits' = bits /\ state' = state
    BY <1>3, <1>4 DEF Bits, States
  <1>6. /\ Received' = Received /\ Taken' = Taken
        /\ OwnerInv' /\ StreamIntact' /\ WindowInv' /\ StoredInv' /\ OptionsInv'
    BY <1>1, <1>2, <1>5, DataUnchanged
  <1>7. BitsInv(bits)' /\ BitsInv(owner.bits)'
    BY <1>1, <1>2, <1>5, <1>6 DEF BitsInv
  <1>8. TypeOK'
    BY <1>1, <1>2, <1>5 DEF TypeOK
  <1> QED  BY <1>6, <1>7, <1>8 DEF IInv

LEMMA StatusAgeCheckStep == IInv /\ StatusAgeCheck => IInv'
  <1> SUFFICES ASSUME IInv, StatusAgeCheck PROVE IInv'
    OBVIOUS
  <1>1. /\ rxStream' = rxStream /\ ucArray' = ucArray /\ got' = got
        /\ xRxSegments' = xRxSegments /\ options' = options /\ window' = window
        /\ owner' = owner /\ bits' = bits /\ state' = "CLOSE_WAIT"
    BY DEF StatusAgeCheck
  <1>2. /\ owner.at # "take" => owner.count = 0
        /\ TypeOK /\ BitsInv(bits) /\ BitsInv(owner.bits)
    BY DEF IInv, OwnerInv
  <1>3. /\ Received' = Received /\ Taken' = Taken
        /\ OwnerInv' /\ StreamIntact' /\ WindowInv' /\ StoredInv' /\ OptionsInv'
    BY <1>1, <1>2, DataUnchanged
  <1>4. BitsInv(bits)' /\ BitsInv(owner.bits)'
    BY <1>1, <1>2, <1>3 DEF BitsInv
  <1>5. TypeOK'
    BY <1>1, <1>2 DEF TypeOK, States
  <1> QED  BY <1>3, <1>4, <1>5 DEF IInv

\* Steps of the owner that only change where it is and the flags.
LEMMA OwnerMoves ==
    ASSUME IInv, rxStream' = rxStream, ucArray' = ucArray, got' = got,
           xRxSegments' = xRxSegments, options' = options, window' = window,
           state' = state,
           owner' \in [at : {"idle", "take", "check", "clear", "cleared", "shut",
                             "shutting"},
                       count : 0 .. BufferLength, bits : Bits],
           owner'.count = owner.count, owner'.at # "take" => owner'.count = 0,
           bits' \in Bits, BitsInv(bits'), BitsInv(owner'.bits)
    PROVE  IInv'
  <1>1. /\ Received' = Received /\ Taken' = Taken
        /\ OwnerInv' /\ StreamIntact' /\ WindowInv' /\ StoredInv' /\ OptionsInv'
    BY DataUnchanged
  <1>2. BitsInv(bits)' /\ BitsInv(owner.bits)'
    BY <1>1 DEF BitsInv
  <1>3. TypeOK'
    BY DEF TypeOK, IInv
  <1> QED  BY <1>1, <1>2, <1>3 DEF IInv

LEMMA IdleIs ==
    /\ NoBits \in Bits /\ Idle.at = "idle" /\ Idle.count = 0
    /\ Idle.bits = NoBits
    /\ Idle \in [at : {"idle", "take", "check", "clear", "cleared", "shut",
                       "shutting"},
                 count : 0 .. BufferLength, bits : Bits]
    /\ BitsInv(NoBits)
  <1>1. 0 \in 0 .. BufferLength
    BY ReceiveAssumption, SMT
  <1> QED  BY <1>1 DEF NoBits, Idle, Bits, BitsInv

LEMMA OwnerStep ==
    IInv /\ (RecvCheck \/ Shutdown \/ LoadBits \/ StoreBits) => IInv'
  <1> SUFFICES ASSUME IInv, RecvCheck \/ Shutdown \/ LoadBits \/ StoreBits
               PROVE  IInv'
    OBVIOUS
  <1>1. /\ owner \in [at : {"idle", "take", "check", "clear", "cleared", "shut",
                            "shutting"},
                      count : 0 .. BufferLength, bits : Bits]
        /\ bits \in Bits /\ BitsInv(bits) /\ BitsInv(owner.bits)
        /\ owner.at # "take" => owner.count = 0
    BY DEF IInv, TypeOK, OwnerInv
  <1>2. CASE RecvCheck
    <2>1. owner.count = 0
      BY <1>1, <1>2 DEF RecvCheck
    <2>2. owner' = [owner EXCEPT !.at = "clear"] \/ owner' = Idle
      BY <1>2 DEF RecvCheck
    <2>3. /\ owner' \in [at : {"idle", "take", "check", "clear", "cleared",
                               "shut", "shutting"},
                         count : 0 .. BufferLength, bits : Bits]
          /\ owner'.count = owner.count /\ owner'.count = 0
          /\ owner'.bits = owner.bits \/ owner'.bits = NoBits
      BY <1>1, <2>1, <2>2, IdleIs
    <2>4. BitsInv(owner'.bits)
      BY <1>1, <2>3, IdleIs
    <2> QED  BY <1>1, <1>2, <2>3, <2>4, OwnerMoves DEF RecvCheck
  <1>3. CASE Shutdown
    <2>1. owner' = [owner EXCEPT !.at = "shut"] /\ owner.count = 0
      BY <1>1, <1>3 DEF Shutdown
    <2>2. /\ owner' \in [at : {"idle", "take", "check", "clear", "cleared",
                               "shut", "shutting"},
                         count : 0 .. BufferLength, bits : Bits]
          /\ owner'.count = owner.count /\ owner'.count = 0
          /\ owner'.bits = owner.bits
      BY <1>1, <2>1
    <2> QED  BY <1>1, <1>3, <2>2, OwnerMoves DEF Shutdown
  <1>4. CASE LoadBits
    <2>1. owner' = [owner EXCEPT !.at = IF owner.at = "clear" THEN "cleared"
                                        ELSE "shutting",
                                 !.bits = bits] /\ owner.count = 0
      BY <1>1, <1>4 DEF LoadBits
    <2>2. /\ owner' \in [at : {"idle", "take", "check", "clear", "cleared",
                               "shut", "shutting"},
                         count : 0 .. BufferLength, bits : Bits]
          /\ owner'.count = owner.count /\ owner'.count = 0
          /\ owner'.bits = bits
      BY <1>1, <2>1
    <2> QED  BY <1>1, <1>4, <2>2, OwnerMoves DEF LoadBits
  <1>5. CASE StoreBits
    <2>1. /\ owner.count = 0 /\ owner' = Idle
          /\ \/ bits' = [owner.bits EXCEPT !.bLowWater = FALSE]
             \/ bits' = [owner.bits EXCEPT !.bUserShutdown = TRUE]
      BY <1>1, <1>5 DEF StoreBits
    <2>2. owner.bits \in Bits
      BY <1>1
    <2>3. /\ bits' \in Bits
          /\ bits'.bFinSent = owner.bits.bFinSent
          /\ bits'.bFinAcked = owner.bits.bFinAcked
          /\ bits'.bFinRecv = owner.bits.bFinRecv
          /\ bits'.bFinAccepted = owner.bits.bFinAccepted
      BY <2>1, <2>2 DEF Bits
    <2>4. BitsInv(bits')
      BY <1>1, <2>3 DEF BitsInv
    <2> QED  BY <1>5, <2>1, <2>3, <2>4, IdleIs, OwnerMoves DEF StoreBits
  <1> QED  BY <1>2, <1>3, <1>4, <1>5

\* What a call copies is what there is, or what was asked for.
LEMMA GetCountFits ==
    ASSUME NEW m \in Markers, NEW n \in Nat
    PROVE  /\ GetCount(m, 0, n) \in 0 .. uxStreamBufferGetSize(m)
           /\ GetCount(m, 0, n) \in 0 .. n
  BY SizeAndSpace, LengthAssumption, SMT DEF GetCount, Fits, Least

\* A function on 1 .. n is a sequence of n elements.
LEMMA FunctionIsSeq ==
    ASSUME NEW S, NEW n \in Nat, NEW f \in [1 .. n -> S]
    PROVE  f \in Seq(S) /\ Len(f) = n
  <1>1. [i \in 1 .. n |-> f[i]] \in Seq(S) /\ Len([i \in 1 .. n |-> f[i]]) = n
    OBVIOUS
  <1>2. f = [i \in 1 .. n |-> f[i]]
    OBVIOUS
  <1> QED  BY <1>1, <1>2

\* The bytes that a call copies are the next ones.
LEMMA RecvCopyStep == IInv /\ RecvCopy => IInv'
  <1> SUFFICES ASSUME IInv, RecvCopy PROVE IInv'
    OBVIOUS
  <1> DEFINE n == GetCount(rxStream, 0, BufferLength)
             f == BytesAt(ucArray, rxStream, 0, n)
             size == uxStreamBufferGetSize(rxStream)
  <1>1. /\ Basis /\ rxStream \in Markers /\ rxStream.tail \in Index
        /\ size \in 0 .. LENGTH - 1 /\ Len(got) \in Nat /\ LENGTH \in Nat
        /\ LENGTH >= 2 /\ Received = Taken + size /\ Taken \in Nat
    BY BasisHolds, BasisFacts, LengthAssumption
  <1>2. /\ rxStream' = rxStream /\ ucArray' = ucArray /\ window' = window
        /\ xRxSegments' = xRxSegments /\ options' = options /\ state' = state
        /\ bits' = bits /\ owner.at = "idle"
        /\ got' = got \o f
        /\ owner' = [owner EXCEPT !.at = "take", !.count = n]
    BY DEF RecvCopy
  <1>3. /\ TypeOK /\ StreamIntact
        /\ BitsInv(bits) /\ BitsInv(owner.bits)
        /\ owner.at # "take" => owner.count = 0
    BY DEF IInv, OwnerInv
  <1>4. owner.count = 0 /\ Taken = Len(got)
    <2>1. owner.count = 0
      BY <1>2, <1>3
    <2> QED  BY <1>1, <2>1, SMT DEF Taken
  <1>5. n \in 0 .. size /\ n \in 0 .. BufferLength /\ n \in Nat /\ n <= size
    <2>1. BufferLength \in Nat
      BY ReceiveAssumption
    <2>2. n \in 0 .. size /\ n \in 0 .. BufferLength
      BY <1>1, <2>1, GetCountFits
    <2> HIDE DEF n
    <2> QED  BY <2>1, <2>2, SMT
  <1> HIDE DEF n, size
  <1>6. ASSUME NEW k \in 1 .. n
        PROVE  /\ ucArray[Wrap(Wrap(rxStream.tail + 0) + k - 1)] = Len(got) + k - 1
               /\ Len(got) + k - 1 \in 0 .. StreamLength
    <2>1. k - 1 \in 0 .. size - 1
      BY <1>1, <1>5, SMT
    <2>2. ucArray[Wrap(rxStream.tail + (k - 1))] = Taken + (k - 1)
      BY <1>3, <2>1 DEF StreamIntact, size
    <2>3. Wrap(Wrap(rxStream.tail + 0) + k - 1) = Wrap(rxStream.tail + (k - 1))
      <3>1. Wrap(rxStream.tail + 0) = rxStream.tail
        BY <1>1, SMT DEF Index, Wrap
      <3> QED  BY <3>1
    <2>4. /\ Taken + (k - 1) = Len(got) + k - 1
          /\ Len(got) + k - 1 \in Nat
      BY <1>1, <1>4, <2>1, SMT
    <2>5. ucArray[Wrap(rxStream.tail + (k - 1))] \in 0 .. StreamLength
      <3>1. Wrap(rxStream.tail + (k - 1)) \in Index
        BY <1>1, <2>1, SMT DEF Index, Wrap
      <3> QED  BY <1>1, <3>1 DEF Basis
    <2> QED  BY <2>2, <2>3, <2>4, <2>5
  <1>7. f = [k \in 1 .. n |-> ucArray[Wrap(Wrap(rxStream.tail + 0) + k - 1)]]
    BY DEF BytesAt
  <1>8. f \in Seq(0 .. StreamLength) /\ Len(f) = n
    <2>1. f \in [1 .. n -> 0 .. StreamLength]
      BY <1>6, <1>7
    <2> HIDE DEF f
    <2> QED  BY <1>5, <2>1, FunctionIsSeq
  <1>9. \A k \in 1 .. n : f[k] = Len(got) + k - 1
    BY <1>6, <1>7
  <1> HIDE DEF f
  <1>10. got \in Seq(0 .. StreamLength)
    BY <1>1 DEF Basis
  <1>11. got' \in Seq(0 .. StreamLength) /\ Len(got') = Len(got) + n
    <2>1. got \o f \in Seq(0 .. StreamLength) /\ Len(got \o f) = Len(got) + Len(f)
      BY <1>8, <1>10, ConcatProperties
    <2> QED  BY <1>2, <1>8, <2>1
  <1>12. /\ owner'.count = n /\ owner'.bits = owner.bits /\ owner'.at = "take"
         /\ owner' \in [at : {"idle", "take", "check", "clear", "cleared",
                              "shut", "shutting"},
                        count : 0 .. BufferLength, bits : Bits]
    BY <1>2, <1>3, <1>5 DEF TypeOK
  <1>13. Taken' = Taken
    <2>1. Taken' = (Len(got) + n) - n
      BY <1>11, <1>12 DEF Taken
    <2> QED  BY <1>1, <1>4, <1>5, <2>1, SMT
  <1>14. Received' = Received
    BY <1>2, <1>13 DEF Received
  <1>15. \A i : Held(i)' <=> Held(i)
    BY <1>2, <1>14 DEF Held
  <1>16. TypeOK'
    BY <1>2, <1>3, <1>11, <1>12 DEF TypeOK
  <1>17. OwnerInv'
    <2>1. n <= Len(got) + n
      BY <1>1, <1>5, SMT
    <2> QED  BY <1>2, <1>5, <1>11, <1>12, <2>1 DEF OwnerInv, size
  <1>18. StreamIntact'
    <2>0. \A i \in 1 .. Len(got) + n :
             got'[i] = IF i <= Len(got) THEN got[i] ELSE f[i - Len(got)]
      BY <1>2, <1>8, <1>10, ConcatProperties
    <2>1. ASSUME NEW i \in 1 .. Len(got')
          PROVE  got'[i] = i - 1
      <3>0. got'[i] = IF i <= Len(got) THEN got[i] ELSE f[i - Len(got)]
        BY <1>11, <2>0
      <3>1. CASE i <= Len(got)
        <4>1. i \in 1 .. Len(got) /\ got'[i] = got[i]
          BY <1>1, <3>0, <3>1, SMT
        <4> QED  BY <1>3, <4>1 DEF StreamIntact
      <3>2. CASE ~ (i <= Len(got))
        <4>1. /\ i - Len(got) \in 1 .. n
              /\ Len(got) + (i - Len(got)) - 1 = i - 1
          BY <1>1, <1>5, <1>11, <3>2, SMT
        <4>2. got'[i] = f[i - Len(got)]
          BY <3>0, <3>2
        <4>3. f[i - Len(got)] = Len(got) + (i - Len(got)) - 1
          BY <1>9, <4>1
        <4> QED  BY <4>1, <4>2, <4>3
      <3> QED  BY <3>1, <3>2
    <2>2. \A k \in 0 .. uxStreamBufferGetSize(rxStream') - 1 :
             ucArray'[Wrap(rxStream'.tail + k)] = Taken' + k
      BY <1>2, <1>3, <1>13 DEF StreamIntact
    <2> QED  BY <2>1, <2>2 DEF StreamIntact
  <1>19. WindowInv'
    BY <1>2, <1>14 DEF IInv, WindowInv
  <1>20. BitsInv(bits)' /\ BitsInv(owner.bits)'
    BY <1>2, <1>3, <1>12, <1>14 DEF BitsInv
  <1>21. StoredInv'
    BY <1>2, <1>14, <1>15 DEF IInv, StoredInv
  <1>22. OptionsInv'
    BY <1>2, <1>15 DEF IInv, OptionsInv
  <1> QED  BY <1>16, <1>17, <1>18, <1>19, <1>20, <1>21, <1>22 DEF IInv

\* Moving the tail over bytes that can be read takes these bytes and no others.
LEMMA TailMovedIs ==
    ASSUME NEW m \in Markers, NEW n \in 0 .. uxStreamBufferGetSize(m)
    PROVE  LET t == TailMoved(m, n)
           IN  /\ t \in Markers
               /\ uxStreamBufferGetSize(t) = uxStreamBufferGetSize(m) - n
               /\ uxStreamBufferGetSize(m) <=
                      uxStreamBufferDistance(m.tail, m.front) =>
                    uxStreamBufferGetSize(t) <=
                      uxStreamBufferDistance(t.tail, t.front)
  <1> DEFINE t == TailMoved(m, n)
  <1>1. /\ n \in Nat /\ n <= LENGTH - 1 /\ n <= uxStreamBufferGetSize(m)
        /\ uxStreamBufferGetSize(m) \in 0 .. LENGTH - 1
    BY SizeAndSpace, LengthAssumption, SMT
  <1>2. /\ m.tail \in Index /\ m.head \in Index /\ m.front \in Index
    BY DEF Markers
  <1>3. /\ t \in Markers
        /\ t.tail = Wrap(m.tail + n) /\ t.head = m.head /\ t.front = m.front
    <2>1. Wrap(m.tail + n) \in Index
      BY <1>1, <1>2, LengthAssumption, SMT DEF Index, Wrap
    <2> QED  BY <2>1 DEF TailMoved, Markers
  <1> HIDE DEF t
  <1>4. uxStreamBufferGetSize(t) = uxStreamBufferGetSize(m) - n
    BY <1>1, <1>2, <1>3, LengthAssumption, SMT
    DEF Index, Wrap, uxStreamBufferDistance, uxStreamBufferGetSize
  <1>5. ASSUME uxStreamBufferGetSize(m) <= uxStreamBufferDistance(m.tail, m.front)
        PROVE  uxStreamBufferGetSize(t) <= uxStreamBufferDistance(t.tail, t.front)
    <2>1. uxStreamBufferDistance(t.tail, t.front) =
             uxStreamBufferDistance(m.tail, m.front) - n
      BY <1>1, <1>2, <1>3, <1>5, LengthAssumption, SMT
      DEF Index, Wrap, uxStreamBufferDistance, uxStreamBufferGetSize
    <2>2. uxStreamBufferDistance(m.tail, m.front) \in Nat
      BY <1>2, LengthAssumption, SMT DEF Index, Wrap, uxStreamBufferDistance
    <2> QED  BY <1>1, <1>4, <1>5, <2>1, <2>2, SMT
  <1> QED  BY <1>3, <1>4, <1>5 DEF t

\* The tail moves over the bytes that were copied.
LEMMA RecvTakeStep == IInv /\ RecvTake => IInv'
  <1> SUFFICES ASSUME IInv, RecvTake PROVE IInv'
    OBVIOUS
  <1> DEFINE n == owner.count
             size == uxStreamBufferGetSize(rxStream)
  <1>1. /\ Basis /\ rxStream \in Markers /\ rxStream.tail \in Index
        /\ size \in 0 .. LENGTH - 1 /\ Len(got) \in Nat /\ LENGTH \in Nat
        /\ LENGTH >= 2 /\ Received = Taken + size /\ Taken \in Nat
        /\ uxStreamBufferGetSpace(rxStream) = LENGTH - 1 - size
        /\ n \in Nat
    BY BasisHolds, BasisFacts, LengthAssumption
  <1>2. /\ ucArray' = ucArray /\ window' = window /\ got' = got
        /\ xRxSegments' = xRxSegments /\ options' = options /\ state' = state
        /\ bits' = bits
        /\ rxStream' = TailMoved(rxStream, n)
        /\ owner' = [owner EXCEPT !.at = "check", !.count = 0]
    BY DEF RecvTake
  <1>3. /\ TypeOK /\ StreamIntact
        /\ BitsInv(bits) /\ BitsInv(owner.bits)
        /\ n <= size /\ n <= Len(got) /\ Taken = Len(got) - n
    BY DEF IInv, OwnerInv, Taken
  <1>4. /\ rxStream' \in Markers /\ rxStream'.head = rxStream.head
        /\ rxStream'.tail = Wrap(rxStream.tail + n)
        /\ rxStream'.tail \in Index
    <2>1. n \in 0 .. uxStreamBufferGetSize(rxStream)
      BY <1>1, <1>3, SMT
    <2> HIDE DEF n
    <2>2. TailMoved(rxStream, n) \in Markers
      BY <1>1, <2>1, TailMovedIs
    <2>3. rxStream.tail \in Index /\ rxStream.head \in Index
      BY <1>1 DEF Markers
    <2> QED  BY <1>2, <2>2 DEF TailMoved, Markers
  <1>5. uxStreamBufferGetSize(rxStream') = size - n
    <2>1. n \in 0 .. uxStreamBufferGetSize(rxStream)
      BY <1>1, <1>3, SMT
    <2> HIDE DEF n
    <2> QED  BY <1>1, <1>2, <2>1, TailMovedIs
  <1> HIDE DEF n, size
  <1>6. /\ owner'.count = 0 /\ owner'.bits = owner.bits /\ owner'.at = "check"
        /\ owner' \in [at : {"idle", "take", "check", "clear", "cleared",
                             "shut", "shutting"},
                       count : 0 .. BufferLength, bits : Bits]
    BY <1>2, <1>3, IdleIs DEF TypeOK
  <1>7. Taken' = Taken + n
    <2>1. Taken' = Len(got) - 0
      BY <1>2, <1>6 DEF Taken
    <2> QED  BY <1>1, <1>3, <2>1, SMT
  <1>8. Received' = Received
    <2>1. Received' = (Taken + n) + (size - n)
      BY <1>5, <1>7 DEF Received
    <2> QED  BY <1>1, <2>1, SMT
  <1>9. \A i \in Nat : Held(i) => Held(i)'
    <2> SUFFICES ASSUME NEW i \in Nat, Held(i) PROVE Held(i)'
      OBVIOUS
    <2>1. uxStreamBufferGetSpace(rxStream') = LENGTH - 1 - (size - n)
      BY <1>4, <1>5, SizeAndSpace
    <2>2. CASE i < Received
      BY <1>8, <2>2 DEF Held
    <2>3. CASE ~ (i < Received)
      <3>1. /\ i - Received < uxStreamBufferGetSpace(rxStream)
            /\ ucArray[Wrap(rxStream.head + (i - Received))] = i
        BY <2>3 DEF Held
      <3>2. i - Received < uxStreamBufferGetSpace(rxStream')
        BY <1>1, <1>3, <2>1, <3>1, SMT
      <3> QED  BY <1>2, <1>4, <1>8, <3>1, <3>2 DEF Held
    <2> QED  BY <2>2, <2>3
  <1>10. TypeOK'
    BY <1>2, <1>3, <1>4, <1>6 DEF TypeOK
  <1>11. OwnerInv'
    <2>1. 0 <= size - n /\ 0 <= Len(got)
      BY <1>1, <1>3, SMT
    <2> QED  BY <1>2, <1>5, <1>6, <2>1 DEF OwnerInv
  <1>12. StreamIntact'
    <2>1. ASSUME NEW k \in 0 .. uxStreamBufferGetSize(rxStream') - 1
          PROVE  ucArray'[Wrap(rxStream'.tail + k)] = Taken' + k
      <3>1. n + k \in 0 .. size - 1 /\ Taken + (n + k) = (Taken + n) + k
        BY <1>1, <1>3, <1>5, SMT
      <3>2. ucArray[Wrap(rxStream.tail + (n + k))] = Taken + (n + k)
        BY <1>3, <3>1 DEF StreamIntact, size
      <3>3. Wrap(Wrap(rxStream.tail + n) + k) = Wrap(rxStream.tail + (n + k))
        <4>1. k \in Nat /\ n + k <= LENGTH - 1
          BY <1>1, <1>3, <1>5, SMT
        <4> QED  BY <1>1, <4>1, SMT DEF Index, Wrap
      <3> QED  BY <1>2, <1>4, <1>7, <3>1, <3>2, <3>3
    <2>2. \A i \in 1 .. Len(got') : got'[i] = i - 1
      BY <1>2, <1>3 DEF StreamIntact
    <2> QED  BY <2>1, <2>2 DEF StreamIntact
  <1>13. WindowInv'
    BY <1>2, <1>8 DEF IInv, WindowInv
  <1>14. BitsInv(bits)' /\ BitsInv(owner.bits)'
    BY <1>2, <1>3, <1>6, <1>8 DEF BitsInv
  <1>15. StoredInv'
    <2>1. Cut(xRxSegments)
      BY DEF IInv, StoredInv
    <2>2. ASSUME NEW s \in xRxSegments
          PROVE  \A i \in At(s) .. At(s) + s.len - 1 : Held(i)'
      <3>1. At(s) \in Nat /\ s.len \in Nat
        BY <2>1, StoredIs
      <3>2. \A i \in At(s) .. At(s) + s.len - 1 : i \in Nat /\ Held(i)
        BY <3>1, SMT DEF IInv, StoredInv
      <3> QED  BY <1>9, <3>2
    <2> QED  BY <1>2, <1>8, <2>2 DEF IInv, StoredInv
  <1>16. OptionsInv'
    <2> SUFFICES ASSUME options # <<>>
                 PROVE  \E a, b \in 0 .. StreamLength :
                           /\ options = <<SeqOf(a), SeqOf(b)>>
                           /\ \A i \in a .. b - 1 : Held(i)'
      BY <1>2 DEF OptionsInv
    <2>1. PICK a, b \in 0 .. StreamLength :
             /\ options = <<SeqOf(a), SeqOf(b)>>
             /\ \A i \in a .. b - 1 : Held(i)
      BY DEF IInv, OptionsInv
    <2>2. \A i \in a .. b - 1 : i \in Nat
      BY SMT
    <2> QED  BY <1>9, <2>1, <2>2
  <1> QED  BY <1>10, <1>11, <1>12, <1>13, <1>14, <1>15, <1>16 DEF IInv

LEMMA InitInvariant == OneSegmentation /\ Init => IInv
  <1> SUFFICES ASSUME OneSegmentation, Init PROVE IInv
    OBVIOUS
  <1> USE DEF Init
  <1>1. /\ LENGTH \in Nat /\ LENGTH >= 2 /\ StreamLength \in Nat
        /\ 0 \in 0 .. StreamLength /\ 0 \in 0 .. StreamLength + 1
        /\ SegCount \in Nat
    BY Sizes, ReceiveAssumption, SMT
  <1>2. /\ rxStream \in Markers /\ uxStreamBufferGetSize(rxStream) = 0
    BY <1>1, SMT DEF vStreamBufferClear, Markers, Index, uxStreamBufferGetSize,
                     uxStreamBufferDistance, Wrap
  <1>3. Len(got) = 0 /\ got \in Seq(0 .. StreamLength)
    OBVIOUS
  <1>4. Taken = 0 /\ Received = 0
    BY <1>2, <1>3, IdleIs, SMT DEF Taken, Received
  <1>5. SeqOf(0) \in Seqs
    BY <1>1, SeqOfIs
  <1>6. IsFiniteSet(xRxSegments) /\ Cardinality(xRxSegments) = 0
    BY FS_EmptySet
  <1>7. TypeOK
    <2>1. ucArray \in [Index -> 0 .. StreamLength]
      <3>1. Garbage \in 0 .. StreamLength
        BY <1>1, SMT DEF Garbage
      <3> QED  BY <3>1
    <2>2. 0 <= SegCount
      BY <1>1, SMT
    <2> QED  BY <1>2, <1>3, <1>5, <1>6, <2>1, <2>2, IdleIs DEF TypeOK, States
  <1>8. OwnerInv
    BY <1>2, <1>3, IdleIs, SMT DEF OwnerInv
  <1>9. StreamIntact
    <2>1. 1 .. Len(got) = {} /\ 0 .. uxStreamBufferGetSize(rxStream) - 1 = {}
      BY <1>2, <1>3, SMT
    <2> QED  BY <2>1 DEF StreamIntact
  <1>10. WindowInv
    BY <1>1, <1>4 DEF WindowInv, Border
  <1>11. BitsInv(bits) /\ BitsInv(owner.bits)
    BY IdleIs
  <1>12. StoredInv /\ OptionsInv
    BY <1>6 DEF StoredInv, OptionsInv, Cut
  <1> QED  BY <1>7, <1>8, <1>9, <1>10, <1>11, <1>12 DEF IInv

LEMMA StutterStep == IInv /\ UNCHANGED vars => IInv'
  BY DEF vars, IInv, TypeOK, OwnerInv, StreamIntact, WindowInv, BitsInv,
         StoredInv, OptionsInv, Held, Received, Taken

LEMMA NextInvariant == IInv /\ [Next]_vars => IInv'
  <1> SUFFICES ASSUME IInv, [Next]_vars PROVE IInv'
    OBVIOUS
  <1>1. CASE IPTask
    <2>1. ASSUME NEW p \in Packets, NEW txDone \in BOOLEAN,
                 NEW acked \in BOOLEAN, Receive(p, txDone, acked)
          PROVE  IInv'
      BY <2>1, ReceiveStep
    <2> QED  BY <1>1, <2>1, SocketCheckStep, StatusAgeCheckStep DEF IPTask
  <1>2. CASE Owner
    BY <1>2, RecvCopyStep, RecvTakeStep, OwnerStep DEF Owner
  <1>3. CASE UNCHANGED vars
    BY <1>3, StutterStep
  <1> QED  BY <1>1, <1>2, <1>3 DEF Next

-----------------------------------------------------------------------------
(* The theorems.                                                             *)

(* For every stream, buffer, number of segments and segmentation that the    *)
(* peer keeps to when it repeats its pieces, the invariant holds: what has   *)
(* come in is acknowledged, stored segments lie where they will be read, no  *)
(* copy of the flags says more than is so.                                   *)
THEOREM ReceiveInvariant == OneSegmentation /\ Spec => []IInv
  BY InitInvariant, NextInvariant, PTL DEF Spec

(* If the peer repeats its pieces as it cut them first (OneSegmentation),    *)
(* then, whatever the network loses, repeats or reorders of them, the owner  *)
(* reads the peer's bytes in their order, none missing, none twice, none     *)
(* before it is there (lTCPWindowRxCheck, prvStoreRxData, FreeRTOS_recv).    *)
(* Without the hypothesis this is false: a piece that is cut differently and *)
(* covers stored ones is taken to end where the first of them ends           *)
(* (FreeRTOS_TCP_WIN.c:828).                                                 *)
THEOREM OwnerReadsStream == OneSegmentation /\ Spec => []StreamIntact
  <1>1. IInv => StreamIntact
    BY DEF IInv
  <1> QED  BY <1>1, ReceiveInvariant, PTL

LEMMA InvariantGives == IInv => ReceiveInv /\ FinAfterData
  <1> SUFFICES ASSUME IInv PROVE ReceiveInv /\ FinAfterData
    OBVIOUS
  <1>1. TypeOK /\ FinAfterData
    BY DEF IInv, BitsInv, FinAfterData
  <1>2. AcknowledgedIsHeld
    BY DEF IInv, WindowInv, AcknowledgedIsHeld
  <1>3. ASSUME NEW s \in xRxSegments
        PROVE  /\ \A k \in 0 .. s.len - 1 : Held(Minus(s.seq, FirstSeq) + k)
               /\ state = "ESTABLISHED" => Signed(s.seq, window.current) > 0
    <2>1. /\ At(s) \in Nat /\ s.len \in Nat \ {0} /\ s.seq = SeqOf(At(s))
          /\ At(s) + s.len <= StreamLength
      BY StoredIs DEF IInv, StoredInv
    <2>2. /\ At(s) > Received
          /\ \A i \in At(s) .. At(s) + s.len - 1 : Held(i)
      BY DEF IInv, StoredInv
    <2>3. ASSUME NEW k \in 0 .. s.len - 1
          PROVE  Held(Minus(s.seq, FirstSeq) + k)
      <3>1. At(s) + k \in At(s) .. At(s) + s.len - 1
        BY <2>1, SMT
      <3>2. Held(At(s) + k)
        BY <2>2, <3>1
      <3> QED  BY <3>2 DEF At
    <2>4. state = "ESTABLISHED" => Signed(s.seq, window.current) > 0
      <3> SUFFICES ASSUME state = "ESTABLISHED"
                   PROVE  Signed(s.seq, window.current) > 0
        OBVIOUS
      <3>1. window.current = SeqOf(Received) /\ Received \in 0 .. StreamLength
        BY WindowFacts
      <3>2. At(s) \in 0 .. StreamLength + 1 /\ Received \in 0 .. StreamLength + 1
        BY <2>1, <3>1, Sizes, SMT
      <3>3. Signed(s.seq, window.current) = At(s) - Received
        BY <2>1, <3>1, <3>2, SignedIs
      <3> QED  BY <2>2, <3>2, <3>3, Sizes, SMT
    <2> QED  BY <2>3, <2>4
  <1>4. options # <<>> =>
           \A i \in Minus(options[1], FirstSeq) ..
                    Minus(options[2], FirstSeq) - 1 : Held(i)
    <2> SUFFICES ASSUME options # <<>>
                 PROVE  \A i \in Minus(options[1], FirstSeq) ..
                                 Minus(options[2], FirstSeq) - 1 : Held(i)
      OBVIOUS
    <2>1. PICK a, b \in 0 .. StreamLength :
             /\ options = <<SeqOf(a), SeqOf(b)>>
             /\ \A i \in a .. b - 1 : Held(i)
      BY DEF IInv, OptionsInv
    <2>2. a \in 0 .. StreamLength + 1 /\ b \in 0 .. StreamLength + 1
      BY Sizes, SMT
    <2>3. Minus(options[1], FirstSeq) = a /\ Minus(options[2], FirstSeq) = b
      BY <2>1, <2>2, FirstByte
    <2> QED  BY <2>1, <2>3
  <1>5. StoredInPlace
    BY <1>3, <1>4 DEF StoredInPlace
  <1> QED  BY <1>1, <1>2, <1>5 DEF ReceiveInv

(* If the peer repeats its pieces as it cut them first, nothing is           *)
(* acknowledged, at once or selectively, that is not held, and every segment *)
(* stored ahead of its turn lies where it will be read (lTCPWindowRxCheck,   *)
(* prvTCPHandleFin).                                                         *)
THEOREM AcknowledgedIsStored == OneSegmentation /\ Spec => []ReceiveInv
  BY ReceiveInvariant, InvariantGives, PTL

(* If the peer repeats its pieces as it cut them first, its FIN, however     *)
(* early it comes, is accepted only when every byte before it has come in    *)
(* (prvHandleEstablished).                                                   *)
THEOREM FinComesLast == OneSegmentation /\ Spec => []FinAfterData
  BY ReceiveInvariant, InvariantGives, PTL

-----------------------------------------------------------------------------
(* What the circular buffer promises (ByteStream), for any use of it: where  *)
(* the bytes go and how many they are is left open.                          *)

(* The comparison of two markers is the comparison of their distances from   *)
(* the tail: no wrap of the array deceives it (FreeRTOS_Stream_Buffer.h:219).*)
LEMMA LessThenEqualIsOrder ==
    ASSUME NEW m \in Markers, NEW l \in Index, NEW r \in Index
    PROVE  xStreamBufferLessThenEqual(m, l, r) <=>
               uxStreamBufferDistance(m.tail, l) <=
                   uxStreamBufferDistance(m.tail, r)
  BY LengthAssumption, SMT
  DEF Markers, Index, xStreamBufferLessThenEqual, uxStreamBufferDistance, Wrap

(* A write is never longer than the space beyond its offset.                 *)
LEMMA AddCountFits ==
    ASSUME NEW m \in Markers, NEW offset \in Nat, NEW n \in Nat
    PROVE  /\ AddCount(m, offset, n) \in Nat
           /\ AddCount(m, offset, n) <= n
           /\ AddCount(m, offset, n) # 0 =>
                 offset + AddCount(m, offset, n) <= uxStreamBufferGetSpace(m)
  BY SizeAndSpace, LengthAssumption, SMT DEF AddCount, Fits, Least

(* Adding bytes, at the head or ahead of it, leaves the markers in order and *)
(* takes nothing away from what can be read.                                 *)
LEMMA AddKeepsOrder ==
    ASSUME NEW m \in Markers, NEW offset \in Nat, NEW n \in Nat,
           uxStreamBufferGetSize(m) <= uxStreamBufferDistance(m.tail, m.front)
    PROVE  LET a == uxStreamBufferAdd(m, offset, n)
           IN  /\ a \in Markers
               /\ a.tail = m.tail
               /\ uxStreamBufferGetSize(m) <= uxStreamBufferGetSize(a)
               /\ uxStreamBufferGetSize(a) <=
                      uxStreamBufferDistance(a.tail, a.front)
  <1> DEFINE count == AddCount(m, offset, n)
             at == Wrap(m.head + offset)
             next == IF offset = 0 THEN Wrap(at + count) ELSE at
             moved == IF offset = 0 THEN [m EXCEPT !.head = next] ELSE m
             a == uxStreamBufferAdd(m, offset, n)
  <1>1. CASE count = 0
    <2>1. a = m  BY <1>1 DEF uxStreamBufferAdd
    <2> QED  BY <2>1, SizeAndSpace, SMT
  <1>2. CASE count # 0
    <2>1. /\ count \in Nat \ {0}
          /\ offset + count <= LENGTH - 1 - uxStreamBufferGetSize(m)
          /\ uxStreamBufferGetSize(m) \in 0 .. LENGTH - 1
      BY <1>2, AddCountFits, SizeAndSpace, SMT
    <2>2. /\ next \in Index
          /\ offset = 0 => uxStreamBufferDistance(m.tail, next) =
                               uxStreamBufferGetSize(m) + count
          /\ offset # 0 => uxStreamBufferDistance(m.tail, next) =
                               uxStreamBufferGetSize(m) + offset
      <3>1. CASE offset = 0
        BY <3>1, <2>1, LengthAssumption, SMT
        DEF Markers, Index, Wrap, uxStreamBufferDistance, uxStreamBufferGetSize
      <3>2. CASE offset # 0
        BY <3>2, <2>1, LengthAssumption, SMT
        DEF Markers, Index, Wrap, uxStreamBufferDistance, uxStreamBufferGetSize
      <3> QED  BY <3>1, <3>2
    <2>3. /\ moved \in Markers
          /\ moved.tail = m.tail
          /\ moved.front = m.front
          /\ offset = 0 => moved.head = next
          /\ offset # 0 => moved.head = m.head
      BY <2>2 DEF Markers
    <2> HIDE DEF next, moved, count
    <2>4. /\ uxStreamBufferGetSize(m) <= uxStreamBufferGetSize(moved)
          /\ uxStreamBufferGetSize(moved) <=
                 uxStreamBufferDistance(m.tail, next)
      BY <2>1, <2>2, <2>3, SMT DEF uxStreamBufferGetSize
    <2>5. CASE xStreamBufferLessThenEqual(m, m.front, next)
      <3>1. a = [moved EXCEPT !.front = next]
        BY <1>2, <2>5 DEF uxStreamBufferAdd, next, moved, count
      <3>2. /\ a \in Markers /\ a.tail = m.tail /\ a.front = next
            /\ a.head = moved.head
        BY <3>1, <2>2, <2>3 DEF Markers
      <3> QED  BY <3>2, <2>3, <2>4 DEF uxStreamBufferGetSize
    <2>6. CASE ~ xStreamBufferLessThenEqual(m, m.front, next)
      <3>1. a = moved
        BY <1>2, <2>6 DEF uxStreamBufferAdd, next, moved, count
      <3>2. m.front \in Index  BY DEF Markers
      <3>3. uxStreamBufferDistance(m.tail, next) <
               uxStreamBufferDistance(m.tail, m.front)
        <4>1. /\ uxStreamBufferDistance(m.tail, next) \in Nat
              /\ uxStreamBufferDistance(m.tail, m.front) \in Nat
          BY <2>2, <3>2, LengthAssumption, SMT
          DEF Markers, Index, Wrap, uxStreamBufferDistance
        <4> QED  BY <4>1, <2>2, <2>6, <3>2, LessThenEqualIsOrder, SMT
      <3>4. uxStreamBufferGetSize(moved) \in Nat  BY <2>3, SizeAndSpace, SMT
      <3>5. /\ uxStreamBufferDistance(m.tail, next) \in Nat
            /\ uxStreamBufferDistance(m.tail, m.front) \in Nat
        BY <2>2, <3>2, LengthAssumption, SMT
        DEF Markers, Index, Wrap, uxStreamBufferDistance
      <3> QED  BY <3>1, <3>3, <3>4, <3>5, <2>3, <2>4, SMT
    <2> QED  BY <2>5, <2>6
  <1> QED  BY <1>1, <1>2

(* A place that a write touches is beyond all that can be read.              *)
LEMMA WriteIsBeyond ==
    ASSUME NEW m \in Markers, NEW offset \in 0 .. LENGTH, NEW n \in Nat,
           NEW i \in Index,
           uxStreamBufferDistance(Wrap(m.head + offset), i)
               < AddCount(m, offset, n)
    PROVE  ~ (uxStreamBufferDistance(m.tail, i) < uxStreamBufferGetSize(m))
  <1> DEFINE count == AddCount(m, offset, n)
             at == Wrap(m.head + offset)
  <1>1. /\ m.tail \in Index /\ m.head \in Index
    BY DEF Markers
  <1>2. uxStreamBufferGetSize(m) \in 0 .. LENGTH - 1
    BY SizeAndSpace
  <1>3. /\ offset \in Nat /\ count \in Nat
        /\ count # 0 => offset + count <= LENGTH - 1 - uxStreamBufferGetSize(m)
    BY AddCountFits, SizeAndSpace, LengthAssumption, SMT
  <1> HIDE DEF count
  <1>4. uxStreamBufferDistance(at, i) < count
    BY DEF count
  <1>5. CASE count = 0
    BY <1>1, <1>4, <1>5, LengthAssumption, SMT
    DEF Index, Wrap, uxStreamBufferDistance
  <1>6. CASE count # 0
    <2>1. offset + count <= LENGTH - 1 - uxStreamBufferGetSize(m)
      BY <1>3, <1>6
    <2> QED  BY <1>1, <1>2, <1>3, <1>4, <2>1, LengthAssumption, SMT
             DEF Index, Wrap, uxStreamBufferDistance, uxStreamBufferGetSize
  <1> QED  BY <1>5, <1>6

(* ByteStream's operators on the buffer are the ones of this module.         *)
LEMMA SameBuffer ==
    /\ Stream!Index = Index /\ Stream!Markers = Markers
    /\ Stream!vStreamBufferClear = vStreamBufferClear
    /\ \A i : Stream!Wrap(i) = Wrap(i)
    /\ \A l, r : Stream!uxStreamBufferDistance(l, r) = uxStreamBufferDistance(l, r)
    /\ \A m : Stream!uxStreamBufferGetSize(m) = uxStreamBufferGetSize(m)
    /\ \A m, o, n : Stream!AddCount(m, o, n) = AddCount(m, o, n)
    /\ \A m, o, n : Stream!uxStreamBufferAdd(m, o, n) = uxStreamBufferAdd(m, o, n)
    /\ \A m, o, n : Stream!GetCount(m, o, n) = GetCount(m, o, n)
    /\ \A m, n : Stream!TailMoved(m, n) = TailMoved(m, n)
  <1>1. /\ Stream!Index = Index /\ Stream!Markers = Markers
        /\ Stream!vStreamBufferClear = vStreamBufferClear
        /\ \A i : Stream!Wrap(i) = Wrap(i)
    BY DEF Stream!Index, Index, Stream!Markers, Markers, Stream!Wrap, Wrap,
           Stream!vStreamBufferClear, vStreamBufferClear
  <1>2. /\ \A l, r : Stream!uxStreamBufferDistance(l, r) =
                       uxStreamBufferDistance(l, r)
        /\ \A l, r : Stream!uxStreamBufferSpace(l, r) = uxStreamBufferSpace(l, r)
        /\ \A m, n : Stream!TailMoved(m, n) = TailMoved(m, n)
    BY <1>1 DEF Stream!uxStreamBufferDistance, uxStreamBufferDistance,
                Stream!uxStreamBufferSpace, uxStreamBufferSpace,
                Stream!TailMoved, TailMoved
  <1>3. /\ \A m : Stream!uxStreamBufferGetSize(m) = uxStreamBufferGetSize(m)
        /\ \A m : Stream!uxStreamBufferGetSpace(m) = uxStreamBufferGetSpace(m)
        /\ \A a, o, n : Stream!Fits(a, o, n) = Fits(a, o, n)
        /\ \A m, l, r : Stream!xStreamBufferLessThenEqual(m, l, r) =
                             xStreamBufferLessThenEqual(m, l, r)
    BY <1>2 DEF Stream!uxStreamBufferGetSize, uxStreamBufferGetSize,
                Stream!uxStreamBufferGetSpace, uxStreamBufferGetSpace,
                Stream!Fits, Fits, Stream!Least, Least,
                Stream!xStreamBufferLessThenEqual, xStreamBufferLessThenEqual
  <1>4. /\ \A m, o, n : Stream!AddCount(m, o, n) = AddCount(m, o, n)
        /\ \A m, o, n : Stream!GetCount(m, o, n) = GetCount(m, o, n)
    BY <1>3 DEF Stream!AddCount, AddCount, Stream!GetCount, GetCount
  <1>5. \A m, o, n : Stream!uxStreamBufferAdd(m, o, n) = uxStreamBufferAdd(m, o, n)
    BY <1>1, <1>3, <1>4 DEF Stream!uxStreamBufferAdd, uxStreamBufferAdd
  <1> QED  BY <1>1, <1>2, <1>3, <1>4, <1>5

LEMMA InvariantIs ==
    Stream!StreamInvariant <=>
       /\ rxStream \in Markers
       /\ uxStreamBufferGetSize(rxStream) <=
              uxStreamBufferDistance(rxStream.tail, rxStream.front)
       /\ owner.count \in 0 .. uxStreamBufferGetSize(rxStream)
  BY SameBuffer DEF Stream!StreamInvariant, Stream!MarkersInOrder,
                    Stream!PendingUnread

LEMMA InitialStream == Stream!Init => Stream!StreamInvariant
  <1> SUFFICES ASSUME Stream!Init PROVE Stream!StreamInvariant
    OBVIOUS
  <1>1. rxStream = vStreamBufferClear /\ owner.count = 0
    BY SameBuffer DEF Stream!Init
  <1>2. /\ vStreamBufferClear \in Markers
        /\ uxStreamBufferGetSize(vStreamBufferClear) = 0
        /\ uxStreamBufferDistance(vStreamBufferClear.tail,
                                  vStreamBufferClear.front) = 0
    BY LengthAssumption, SMT
    DEF vStreamBufferClear, Markers, Index, uxStreamBufferGetSize,
        uxStreamBufferDistance, Wrap
  <1>3. 0 <= 0 /\ 0 \in 0 .. 0
    BY SMT
  <1> QED  BY <1>1, <1>2, <1>3, InvariantIs

LEMMA StreamStep ==
    Stream!StreamInvariant /\ [Stream!Next]_Stream!streamVars
        => Stream!StreamInvariant'
  <1> SUFFICES ASSUME Stream!StreamInvariant, [Stream!Next]_Stream!streamVars
               PROVE  Stream!StreamInvariant'
    OBVIOUS
  <1>1. /\ rxStream \in Markers
        /\ uxStreamBufferGetSize(rxStream) <=
               uxStreamBufferDistance(rxStream.tail, rxStream.front)
        /\ owner.count \in 0 .. uxStreamBufferGetSize(rxStream)
    BY InvariantIs
  <1>2. SUFFICES /\ rxStream' \in Markers
                 /\ uxStreamBufferGetSize(rxStream') <=
                        uxStreamBufferDistance(rxStream'.tail, rxStream'.front)
                 /\ owner'.count \in 0 .. uxStreamBufferGetSize(rxStream')
    BY SameBuffer DEF Stream!StreamInvariant, Stream!MarkersInOrder,
                      Stream!PendingUnread
  <1>3. ASSUME NEW offset \in 0 .. LENGTH, NEW n \in 0 .. LENGTH,
               NEW more \in 0 .. LENGTH, Stream!Put(offset, n, more)
        PROVE  /\ rxStream' \in Markers
               /\ uxStreamBufferGetSize(rxStream') <=
                      uxStreamBufferDistance(rxStream'.tail, rxStream'.front)
               /\ owner'.count \in 0 .. uxStreamBufferGetSize(rxStream')
    <2> DEFINE first == uxStreamBufferAdd(rxStream, offset, n)
               second == uxStreamBufferAdd(first, 0, more)
    <2>1. offset \in Nat /\ n \in Nat /\ more \in Nat /\ 0 \in Nat
      BY LengthAssumption, SMT
    <2>2. rxStream' = second /\ owner'.count = owner.count
      BY <1>3, SameBuffer DEF Stream!Put
    <2>3. /\ first \in Markers
          /\ uxStreamBufferGetSize(rxStream) <= uxStreamBufferGetSize(first)
          /\ uxStreamBufferGetSize(first) <=
                 uxStreamBufferDistance(first.tail, first.front)
      BY <1>1, <2>1, AddKeepsOrder
    <2> HIDE DEF first
    <2>4. /\ second \in Markers
          /\ uxStreamBufferGetSize(first) <= uxStreamBufferGetSize(second)
          /\ uxStreamBufferGetSize(second) <=
                 uxStreamBufferDistance(second.tail, second.front)
      BY <2>1, <2>3, AddKeepsOrder
    <2> HIDE DEF second
    <2>5. /\ uxStreamBufferGetSize(rxStream) \in Nat
          /\ uxStreamBufferGetSize(first) \in Nat
          /\ uxStreamBufferGetSize(second) \in Nat
      BY <1>1, <2>3, <2>4, SizeAndSpace, SMT
    <2>6. owner.count \in 0 .. uxStreamBufferGetSize(second)
      BY <1>1, <2>3, <2>4, <2>5, SMT
    <2> QED  BY <2>2, <2>4, <2>6
  <1>4. ASSUME NEW n \in 0 .. LENGTH, Stream!Copy(n)
        PROVE  /\ rxStream' \in Markers
               /\ uxStreamBufferGetSize(rxStream') <=
                      uxStreamBufferDistance(rxStream'.tail, rxStream'.front)
               /\ owner'.count \in 0 .. uxStreamBufferGetSize(rxStream')
    <2>1. n \in Nat
      BY LengthAssumption, SMT
    <2>2. GetCount(rxStream, 0, n) \in 0 .. uxStreamBufferGetSize(rxStream)
      BY <1>1, <2>1, GetCountFits
    <2>3. rxStream' = rxStream /\ owner'.count = GetCount(rxStream, 0, n)
      BY <1>4, SameBuffer DEF Stream!Copy
    <2> QED  BY <1>1, <2>2, <2>3
  <1>5. ASSUME Stream!Take
        PROVE  /\ rxStream' \in Markers
               /\ uxStreamBufferGetSize(rxStream') <=
                      uxStreamBufferDistance(rxStream'.tail, rxStream'.front)
               /\ owner'.count \in 0 .. uxStreamBufferGetSize(rxStream')
    <2> DEFINE t == TailMoved(rxStream, owner.count)
    <2>1. /\ t \in Markers
          /\ uxStreamBufferGetSize(t) <= uxStreamBufferDistance(t.tail, t.front)
      BY <1>1, TailMovedIs
    <2>2. 0 \in 0 .. uxStreamBufferGetSize(t)
      BY <2>1, SizeAndSpace, SMT
    <2>3. rxStream' = t /\ owner'.count = 0
      BY <1>5, SameBuffer DEF Stream!Take
    <2> HIDE DEF t
    <2> QED  BY <2>1, <2>2, <2>3
  <1>6. CASE UNCHANGED Stream!streamVars
    BY <1>1, <1>6 DEF Stream!streamVars
  <1> QED  BY <1>3, <1>4, <1>5, <1>6 DEF Stream!Next

(* Whatever is put into a stream, and wherever its owner is between copying  *)
(* bytes and moving the tail, the markers stay in their order                *)
(* (FreeRTOS_Stream_Buffer.h:75) and what the owner has copied is still      *)
(* there: for every length of the buffer, every offset and number of bytes.  *)
THEOREM StreamStaysInOrder == Stream!Spec => []Stream!StreamInvariant
  BY InitialStream, StreamStep, PTL DEF Stream!Spec

LEMMA StepKeepsUnread ==
    Stream!StreamInvariant /\ [Stream!Next]_Stream!streamVars
        => [Stream!UnreadKept]_Stream!streamVars
  <1> SUFFICES ASSUME Stream!StreamInvariant, Stream!Next
               PROVE  Stream!UnreadKept
    BY DEF Stream!streamVars
  <1>1. rxStream \in Markers
    BY InvariantIs
  <1>2. ASSUME NEW offset \in 0 .. LENGTH, NEW n \in 0 .. LENGTH,
               NEW more \in 0 .. LENGTH, Stream!Put(offset, n, more)
        PROVE  Stream!UnreadKept
    <2>1. offset \in Nat /\ n \in Nat
      BY LengthAssumption, SMT
    <2>2. \A i \in Index :
             \/ ucArray'[i] = ucArray[i]
             \/ uxStreamBufferDistance(Wrap(rxStream.head + offset), i)
                    < AddCount(rxStream, offset, n)
      BY <1>2, SameBuffer DEF Stream!Put
    <2>3. ASSUME NEW i \in Index,
                 uxStreamBufferDistance(rxStream.tail, i) <
                    uxStreamBufferGetSize(rxStream)
          PROVE  ucArray'[i] = ucArray[i]
      BY <1>1, <2>1, <2>2, <2>3, WriteIsBeyond
    <2> QED  BY <2>3, SameBuffer DEF Stream!UnreadKept, Stream!Unread
  <1>3. ASSUME NEW n \in 0 .. LENGTH, Stream!Copy(n)
        PROVE  Stream!UnreadKept
    BY <1>3 DEF Stream!Copy, Stream!UnreadKept
  <1>4. ASSUME Stream!Take PROVE Stream!UnreadKept
    BY <1>4 DEF Stream!Take, Stream!UnreadKept
  <1> QED  BY <1>2, <1>3, <1>4 DEF Stream!Next

(* No write of the IP task, at whatever offset, reaches the bytes that the   *)
(* owner has yet to read (uxStreamBufferAdd, FreeRTOS_Stream_Buffer.c:76-146).*)
THEOREM UnreadStaysIntact == Stream!Spec => Stream!UnreadIsKept
  BY StreamStaysInOrder, StepKeepsUnread, PTL
  DEF Stream!Spec, Stream!UnreadIsKept

-----------------------------------------------------------------------------
(* The receiving half implements ByteStream, however the peer cuts its       *)
(* stream, also when it cuts it differently when it sends it again.          *)

Segments == [seq : Seqs, len : Nat]

\* The types of what decides where bytes are written.
StreamTyped ==
    /\ Stream!StreamInvariant
    /\ ucArray \in [Index -> 0 .. StreamLength]
    /\ window \in [current : Seqs, highest : Seqs, fin : Seqs]
    /\ xRxSegments \subseteq Segments
    /\ owner = [at |-> owner.at, count |-> owner.count, bits |-> owner.bits]
    /\ owner.at # "take" => owner.count = 0

LEMMA MinusInNat ==
    ASSUME NEW a \in Seqs, NEW b \in Seqs
    PROVE  Minus(a, b) \in Seqs /\ Minus(a, b) \in Nat
  <1>1. a - b \in Int /\ SeqSpace > 0
    BY Sizes, SMT DEF Seqs
  <1>2. Minus(a, b) \in 0 .. SeqSpace - 1
    BY <1>1, Sizes, Modulo DEF Minus
  <1> QED  BY <1>2, Sizes, SMT DEF Seqs

LEMMA PlusOneIsNext ==
    ASSUME NEW a \in Seqs
    PROVE  Plus(a, 1) # a
  <1>1. /\ SeqSpace \in Nat /\ SeqSpace >= 2 /\ a \in 0 .. SeqSpace - 1
        /\ a + 1 \in Int /\ a + 1 >= 0 /\ a + 1 < 2 * SeqSpace
    BY Sizes, SMT DEF Seqs
  <1> QED  BY <1>1, Modulo, SMT DEF Plus

\* A piece that ends inside the free space begins as far before its end as it
\* is long: no wrap of the sequence numbers deceives the window.
LEMMA OffsetIs ==
    ASSUME NEW seq \in Seqs, NEW current \in Seqs,
           NEW len \in 0 .. StreamLength,
           Signed(Plus(seq, len), current) > 0,
           Signed(Plus(seq, len), current) <= LENGTH
    PROVE  Signed(seq, current) + len = Signed(Plus(seq, len), current)
  <1> DEFINE last == Plus(seq, len)
             d == Minus(last, current)
             c == Minus(seq, current)
  <1>1. /\ SeqSpace \in Nat /\ SeqSpace > 0 /\ seq \in 0 .. SeqSpace - 1
        /\ current \in 0 .. SeqSpace - 1 /\ len \in Nat
        /\ LENGTH \in Nat /\ 2 * (len + LENGTH) < SeqSpace
    BY SeqSpaceAssumption, LengthAssumption, ReceiveAssumption, SMT DEF Seqs
  <1>2. /\ last = IF seq + len < SeqSpace THEN seq + len
                  ELSE seq + len - SeqSpace
        /\ last \in 0 .. SeqSpace - 1
    <2>1. /\ seq + len \in Int /\ seq + len >= 0 /\ seq + len < 2 * SeqSpace
      BY <1>1, SMT
    <2> QED  BY <1>1, <2>1, Modulo, SMT DEF Plus
  <1> HIDE DEF last
  <1>3. d = IF last >= current THEN last - current
            ELSE last - current + SeqSpace
    <2>1. /\ last - current \in Int /\ last - current >= 0 - SeqSpace
          /\ last - current < SeqSpace
      BY <1>1, <1>2, SMT
    <2> QED  BY <1>1, <1>2, <2>1, Modulo, SMT DEF Minus
  <1>4. c = IF seq >= current THEN seq - current
            ELSE seq - current + SeqSpace
    <2>1. /\ seq - current \in Int /\ seq - current >= 0 - SeqSpace
          /\ seq - current < SeqSpace
      BY <1>1, SMT
    <2> QED  BY <1>1, <2>1, Modulo, SMT DEF Minus
  <1> HIDE DEF d, c
  <1>5. /\ Signed(last, current) = IF 2 * d >= SeqSpace THEN d - SeqSpace ELSE d
        /\ Signed(seq, current) = IF 2 * c >= SeqSpace THEN c - SeqSpace ELSE c
    BY DEF Signed, d, c
  <1>6. Signed(last, current) > 0 /\ Signed(last, current) <= LENGTH
    BY DEF last
  <1>7. Signed(seq, current) + len = Signed(last, current)
    BY <1>1, <1>2, <1>3, <1>4, <1>5, <1>6, SMT
  <1> QED  BY <1>7 DEF last

\* The walk ends at a sequence number and leaves some of the segments.
LEMMA FollowingTyped ==
    ASSUME NEW seq \in Seqs, NEW segments, segments \subseteq Segments
    PROVE  /\ Following(seq, segments).end \in Seqs
           /\ Following(seq, segments).left \subseteq segments
  <1>1. \A s \in segments : s.len \in Nat
    BY DEF Segments
  <1>2. PICK walk \in [0 .. SegCount -> [end : Seqs, left : SUBSET segments]] :
           /\ Following(seq, segments) = walk[SegCount]
           /\ walk[0] = [end |-> seq, left |-> segments]
           /\ \A k \in 1 .. SegCount : walk[k] = Turn(walk[k - 1])
    BY <1>1, WalkIs
  <1>3. SegCount \in 0 .. SegCount
    BY ReceiveAssumption, SMT
  <1> QED  BY <1>2, <1>3

\* What the window may make of a packet: data that is taken fits in the space.
CheckedTyped(p, r) ==
    /\ r.current \in Seqs /\ r.stored \subseteq Segments /\ r.offset \in Int
    /\ r.offset < 0 \/ /\ r.offset + p.len <= uxStreamBufferGetSpace(rxStream)
                       /\ r.more \in Nat

LEMMA CheckTyped ==
    ASSUME StreamTyped, NEW p \in Packets
    PROVE  CheckedTyped(p, Checked(p))
  <1> DEFINE seq == SeqOf(p.at)
             len == p.len
             space == uxStreamBufferGetSpace(rxStream)
             r == lTCPWindowRxCheck(seq, len, space)
             current == window.current
             confirmed == xTCPWindowRxConfirm(seq, len)
             start == IF confirmed = {} THEN Plus(seq, len)
                      ELSE LET s == CHOOSE s \in confirmed : TRUE
                           IN  Plus(s.seq, s.len)
             run == Following(start, xRxSegments \ confirmed)
             distance == Signed(Plus(seq, len), current)
             sack == <<seq, Following(Plus(seq, len), xRxSegments).end>>
             again == xTCPWindowRxFind(xRxSegments, seq) # {}
             room == Cardinality(xRxSegments) < SegCount
             inTurn == [offset |-> 0, current |-> run.end, stored |-> run.left,
                        more |-> Minus(run.end, Plus(seq, len)), sack |-> <<>>]
             ahead == [offset |-> Signed(seq, current), current |-> current,
                       stored |-> xRxSegments \cup {[seq |-> seq, len |-> len]},
                       more |-> 0, sack |-> sack]
  <1>1. /\ current \in Seqs /\ xRxSegments \subseteq Segments
        /\ rxStream \in Markers
    BY InvariantIs DEF StreamTyped
  <1>2. /\ seq \in Seqs /\ len \in Nat /\ len \in 0 .. StreamLength
    <2>1. p.at \in Nat /\ p.len \in Nat /\ p.at + p.len \in 0 .. StreamLength
      BY PacketIs
    <2>2. p.at \in 0 .. StreamLength + 1 /\ len \in 0 .. StreamLength
      BY <2>1, Sizes, SMT
    <2> QED  BY <2>1, <2>2, SeqOfIs
  <1>3. space \in 0 .. LENGTH - 1 /\ LENGTH \in Nat
    BY <1>1, SizeAndSpace, LengthAssumption, SMT
  <1>4. \A sck : CheckedTyped(p, [Refused EXCEPT !.sack = sck])
    <2>1. -1 \in Int /\ -1 < 0
      BY SMT
    <2> QED  BY <1>1, <2>1 DEF Refused, CheckedTyped
  <1>5. CheckedTyped(p, Refused)
    <2>1. -1 \in Int /\ -1 < 0
      BY SMT
    <2> QED  BY <1>1, <2>1 DEF Refused, CheckedTyped
  <1>6. ASSUME len <= space PROVE CheckedTyped(p, inTurn)
    <2>1. start \in Seqs
      <3>1. CASE confirmed = {}
        BY <1>2, <3>1, PlusInSeqs
      <3>2. CASE confirmed # {}
        <4> DEFINE s == CHOOSE s \in confirmed : TRUE
        <4>1. s \in confirmed
          BY <3>2
        <4>2. s \in xRxSegments
          BY <4>1 DEF xTCPWindowRxConfirm
        <4> HIDE DEF s
        <4>3. s.seq \in Seqs /\ s.len \in Nat
          BY <1>1, <4>2 DEF Segments
        <4>4. Plus(s.seq, s.len) \in Seqs
          BY <4>3, PlusInSeqs
        <4> QED  BY <3>2, <4>4 DEF s
      <3> QED  BY <3>1, <3>2
    <2>2. xRxSegments \ confirmed \subseteq Segments
      BY <1>1
    <2> HIDE DEF start, confirmed
    <2>3. run.end \in Seqs /\ run.left \subseteq Segments
      BY <2>1, <2>2, FollowingTyped
    <2> HIDE DEF run
    <2>4. Minus(run.end, Plus(seq, len)) \in Nat
      BY <1>2, <2>3, PlusInSeqs, MinusInNat
    <2>5. 0 + len <= space /\ 0 \in Int
      BY <1>2, <1>3, <1>6, SMT
    <2> QED  BY <2>3, <2>4, <2>5 DEF CheckedTyped
  <1>7. ASSUME ~ (distance <= 0 \/ distance > space)
        PROVE  CheckedTyped(p, ahead)
    <2>1. Plus(seq, len) \in Seqs
      BY <1>2, PlusInSeqs
    <2>2. /\ distance \in Int /\ Signed(seq, current) \in Int
      <3>1. Minus(Plus(seq, len), current) \in Nat /\ Minus(seq, current) \in Nat
        BY <1>1, <1>2, <2>1, MinusInNat
      <3> HIDE DEF seq, current
      <3> QED  BY <3>1, Sizes, SMT DEF Signed
    <2>3. distance > 0 /\ distance <= LENGTH /\ distance <= space
      BY <1>3, <1>7, <2>2, SMT
    <2>4. Signed(seq, current) + len = distance
      BY <1>1, <1>2, <2>3, OffsetIs
    <2>5. [seq |-> seq, len |-> len] \in Segments
      BY <1>2 DEF Segments
    <2> HIDE DEF distance
    <2>6. 0 \in Nat /\ Signed(seq, current) + len <= space
      BY <2>3, <2>4
    <2> QED  BY <1>1, <2>2, <2>5, <2>6 DEF CheckedTyped
  <1>8. CheckedTyped(p, r)
    <2>1. ~ (len > space) <=> len <= space
      BY <1>2, <1>3, SMT
    <2>2. CASE seq = current /\ len > space
      <3>1. r = Refused
        BY <2>1, <2>2 DEF lTCPWindowRxCheck
      <3> QED  BY <1>5, <3>1
    <2>3. CASE seq = current /\ len <= space
      <3>1. current # Plus(seq, 1)
        BY <1>2, <2>3, PlusOneIsNext
      <3>2. r = inTurn
        BY <2>1, <2>3, <3>1 DEF lTCPWindowRxCheck
      <3> HIDE DEF inTurn, r
      <3> QED  BY <1>6, <2>3, <3>2
    <2>4. CASE seq # current
      <3>1. r = IF current = Plus(seq, 1) THEN Refused
                ELSE IF distance <= 0 \/ distance > space \/ (~ again /\ ~ room)
                THEN Refused
                ELSE IF again THEN [Refused EXCEPT !.sack = sack]
                ELSE ahead
        BY <2>4 DEF lTCPWindowRxCheck
      <3> HIDE DEF r, ahead, sack, again, room, distance
      <3>2. \/ r = Refused \/ r = [Refused EXCEPT !.sack = sack]
            \/ r = ahead /\ ~ (distance <= 0 \/ distance > space)
        BY <3>1
      <3> QED  BY <1>4, <1>5, <1>7, <3>2
    <2> QED  BY <2>1, <2>2, <2>3, <2>4
  <1>9. CASE p.len = 0
    BY <1>5, <1>9 DEF Checked
  <1>10. CASE p.len # 0
    BY <1>8, <1>10 DEF Checked
  <1> QED  BY <1>9, <1>10

\* Data written where it fits is a Put of ByteStream.
LEMMA StoreIsPut ==
    ASSUME StreamTyped, NEW p \in Packets, NEW r, CheckedTyped(p, r),
           prvStoreRxData(p, r), owner' = owner
    PROVE  /\ ucArray' \in [Index -> 0 .. StreamLength]
           /\ \/ rxStream' = rxStream /\ ucArray' = ucArray
              \/ \E offset, n, more \in 0 .. LENGTH : Stream!Put(offset, n, more)
  <1> DEFINE m == rxStream
             len == p.len
             byte == [k \in 0 .. len - 1 |-> p.at + k]
             first == uxStreamBufferAdd(m, r.offset, len)
             least == IF r.more <= LENGTH THEN r.more ELSE LENGTH
  <1>1. /\ m \in Markers /\ m.head \in Index
        /\ ucArray \in [Index -> 0 .. StreamLength]
        /\ uxStreamBufferGetSize(m) <= uxStreamBufferDistance(m.tail, m.front)
    BY InvariantIs DEF StreamTyped, Markers
  <1>2. CASE r.offset < 0
    BY <1>1, <1>2 DEF prvStoreRxData
  <1>3. CASE ~ (r.offset < 0)
    <2>1. /\ p.at \in Nat /\ len \in Nat /\ p.at + len \in 0 .. StreamLength
          /\ StreamLength \in Nat /\ LENGTH \in Nat /\ LENGTH >= 2
      BY PacketIs, Sizes
    <2>2. /\ r.offset \in Nat /\ r.more \in Nat
          /\ r.offset + len <= uxStreamBufferGetSpace(m)
          /\ uxStreamBufferGetSpace(m) \in 0 .. LENGTH - 1
      <3>1. /\ r.offset \in Int /\ r.more \in Nat
            /\ r.offset + len <= uxStreamBufferGetSpace(m)
        BY <1>3 DEF CheckedTyped
      <3>2. uxStreamBufferGetSpace(m) \in 0 .. LENGTH - 1
        BY <1>1, <2>1, SizeAndSpace, SMT
      <3> QED  BY <1>3, <3>1, <3>2, SMT
    <2>3. /\ r.offset \in 0 .. LENGTH /\ len \in 0 .. LENGTH
          /\ least \in 0 .. LENGTH
      BY <2>1, <2>2, SMT
    <2>4. AddCount(m, r.offset, len) = len /\ first \in Markers
      BY <1>1, <2>1, <2>2, AddIs
    <2>5. /\ rxStream' = uxStreamBufferAdd(first, 0, r.more)
          /\ ucArray' = WrittenTo(ucArray, m, r.offset, len, byte)
      BY <1>3 DEF prvStoreRxData
    <2> HIDE DEF first, byte
    <2>6. uxStreamBufferAdd(first, 0, r.more) = uxStreamBufferAdd(first, 0, least)
      <3>1. AddCount(first, 0, r.more) = AddCount(first, 0, least)
        <4>1. uxStreamBufferGetSpace(first) \in 0 .. LENGTH - 1
          BY <2>1, <2>4, SizeAndSpace, SMT
        <4> QED  BY <2>1, <2>2, <4>1, SMT DEF AddCount, Fits, Least
      <3> QED  BY <3>1 DEF uxStreamBufferAdd
    <2> HIDE DEF least
    <2>7. ASSUME NEW i \in Index
          PROVE  /\ ucArray'[i] \in 0 .. StreamLength
                 /\ \/ ucArray'[i] = ucArray[i]
                    \/ uxStreamBufferDistance(Wrap(m.head + r.offset), i)
                          < AddCount(m, r.offset, len)
      <3> DEFINE k == uxStreamBufferDistance(Wrap(m.head + r.offset), i)
      <3>1. ucArray'[i] = IF k < len THEN byte[k] ELSE ucArray[i]
        BY <2>4, <2>5 DEF WrittenTo
      <3>2. k \in Nat
        <4>1. Wrap(m.head + r.offset) \in Index
          <5>1. r.offset <= LENGTH - 1 /\ r.offset \in Nat
            BY <2>1, <2>2, SMT
          <5> QED  BY <1>1, <2>1, <5>1, SMT DEF Index, Wrap
        <4> HIDE DEF m
        <4> QED  BY <2>1, <4>1, SMT DEF Index, Wrap, uxStreamBufferDistance
      <3> HIDE DEF k
      <3>3. ASSUME k < len
            PROVE  byte[k] \in 0 .. StreamLength
        <4>1. k \in 0 .. len - 1 /\ p.at + k \in 0 .. StreamLength
          BY <2>1, <3>2, <3>3, SMT
        <4> QED  BY <4>1 DEF byte
      <3> QED  BY <1>1, <2>4, <3>1, <3>3 DEF k
    <2>8. ucArray' \in [Index -> 0 .. StreamLength]
      <3>1. ucArray' = [i \in Index |-> ucArray'[i]]
        BY <2>5 DEF WrittenTo
      <3> QED  BY <2>7, <3>1
    <2>9. Stream!Put(r.offset, len, least)
      BY <2>5, <2>6, <2>7, <2>8, SameBuffer DEF Stream!Put, first
    <2> QED  BY <2>3, <2>8, <2>9
  <1> QED  BY <1>2, <1>3

\* Whatever the IP task does afterwards leaves the window a window.
LEMMA HandledTyped ==
    ASSUME NEW p \in Packets, NEW txDone, NEW acked, NEW w, NEW b,
           w \in [current : Seqs, highest : Seqs, fin : Seqs],
           Handled(p, txDone, acked, w, b)
    PROVE  window' \in [current : Seqs, highest : Seqs, fin : Seqs]
  <1>1. ASSUME NEW c, HandleFin(p, acked, w, c)
        PROVE  window' \in [current : Seqs, highest : Seqs, fin : Seqs]
    <2>1. Plus(w.fin, 1) \in Seqs
      <3>1. w.fin \in Seqs /\ 1 \in Nat
        BY SMT
      <3> QED  BY <3>1, PlusInSeqs
    <2>2. window' = IF p.fin THEN [w EXCEPT !.current = Plus(w.fin, 1)] ELSE w
      BY <1>1 DEF HandleFin
    <2> QED  BY <2>1, <2>2
  <1>2. CASE HandleFin(p, acked, w, b)
    BY <1>1, <1>2
  <1>3. CASE HandleEstablished(p, txDone, acked, w, b)
    <2>1. \/ HandleFin(p, acked, w, [b EXCEPT !.bFinAccepted = TRUE])
          \/ window' = w
      BY <1>3 DEF HandleEstablished
    <2> QED  BY <1>1, <2>1
  <1> QED  BY <1>2, <1>3 DEF Handled

LEMMA ReceiveIsPut ==
    ASSUME StreamTyped, NEW p \in Packets, NEW txDone, NEW acked,
           Receive(p, txDone, acked)
    PROVE  /\ [Stream!Next]_Stream!streamVars
           /\ ucArray' \in [Index -> 0 .. StreamLength]
           /\ window' \in [current : Seqs, highest : Seqs, fin : Seqs]
           /\ xRxSegments' \subseteq Segments
           /\ owner' = owner
  <1> DEFINE r == Checked(p)
             seqEnd == Plus(SeqOf(p.at), p.len)
             high == IF Signed(seqEnd, window.highest) > 0 THEN seqEnd
                     ELSE window.highest
             fin == IF p.fin /\ ~ bits.bFinRecv THEN seqEnd ELSE window.fin
             w == [current |-> r.current, highest |-> high, fin |-> fin]
             b == [bits EXCEPT !.bFinRecv = bits.bFinRecv \/ p.fin,
                               !.bLowWater = \/ bits.bLowWater
                                             \/ ReachesLowWater(r)]
  <1>1. /\ prvStoreRxData(p, r) /\ Handled(p, txDone, acked, w, b)
        /\ owner' = owner
    BY DEF Receive
  <1>2. CheckedTyped(p, r)
    BY CheckTyped
  <1>3. seqEnd \in Seqs
    <2>1. /\ seqEnd = SeqOf(p.at + p.len) /\ p.at + p.len \in 0 .. StreamLength
      BY PacketIs
    <2>2. p.at + p.len \in 0 .. StreamLength + 1
      BY <2>1, Sizes, SMT
    <2> QED  BY <2>1, <2>2, SeqOfIs
  <1> HIDE DEF r, seqEnd, b
  <1>4. w \in [current : Seqs, highest : Seqs, fin : Seqs]
    <2>1. window.highest \in Seqs /\ window.fin \in Seqs
      BY DEF StreamTyped
    <2>2. high \in Seqs /\ fin \in Seqs
      BY <1>3, <2>1
    <2> HIDE DEF high, fin
    <2> QED  BY <1>2, <2>2 DEF CheckedTyped
  <1> HIDE DEF w
  <1>5. window' \in [current : Seqs, highest : Seqs, fin : Seqs]
    BY <1>1, <1>4, HandledTyped
  <1>6. xRxSegments' \subseteq Segments
    BY <1>1, <1>2 DEF prvStoreRxData, CheckedTyped
  <1>7. /\ ucArray' \in [Index -> 0 .. StreamLength]
        /\ \/ rxStream' = rxStream /\ ucArray' = ucArray
           \/ \E offset, n, more \in 0 .. LENGTH : Stream!Put(offset, n, more)
    BY <1>1, <1>2, StoreIsPut
  <1>8. [Stream!Next]_Stream!streamVars
    BY <1>1, <1>7 DEF Stream!Next, Stream!streamVars
  <1> QED  BY <1>1, <1>5, <1>6, <1>7, <1>8

\* A call of recv that asks for more than the array holds asks for all of it.
LEMMA CopyIsCopy ==
    StreamTyped /\ RecvCopy => \E n \in 0 .. LENGTH : Stream!Copy(n)
  <1> SUFFICES ASSUME StreamTyped, RecvCopy
               PROVE  \E n \in 0 .. LENGTH : Stream!Copy(n)
    OBVIOUS
  <1> DEFINE n == IF BufferLength <= LENGTH THEN BufferLength ELSE LENGTH
  <1>1. /\ rxStream \in Markers /\ owner.count = 0
        /\ owner = [at |-> owner.at, count |-> owner.count, bits |-> owner.bits]
    BY InvariantIs DEF StreamTyped, RecvCopy
  <1>2. uxStreamBufferGetSize(rxStream) \in 0 .. LENGTH - 1
    BY <1>1, SizeAndSpace
  <1>3. /\ n \in 0 .. LENGTH
        /\ GetCount(rxStream, 0, BufferLength) = GetCount(rxStream, 0, n)
    BY <1>2, LengthAssumption, ReceiveAssumption, SMT DEF GetCount, Fits, Least
  <1> HIDE DEF n
  <1>4. /\ owner' = [owner EXCEPT !.at = "take",
                                  !.count = GetCount(rxStream, 0, BufferLength)]
        /\ rxStream' = rxStream /\ ucArray' = ucArray
    BY DEF RecvCopy
  <1>5. owner'.count = GetCount(rxStream, 0, n)
    BY <1>1, <1>3, <1>4
  <1>6. Stream!Copy(n)
    BY <1>1, <1>4, <1>5, SameBuffer DEF Stream!Copy
  <1> QED  BY <1>3, <1>6

LEMMA ImplementsStep ==
    StreamTyped /\ [Next]_vars => [Stream!Next]_Stream!streamVars /\ StreamTyped'
  <1> SUFFICES ASSUME StreamTyped, [Next]_vars
               PROVE  [Stream!Next]_Stream!streamVars /\ StreamTyped'
    OBVIOUS
  <1>1. /\ Stream!StreamInvariant
        /\ ucArray \in [Index -> 0 .. StreamLength]
        /\ window \in [current : Seqs, highest : Seqs, fin : Seqs]
        /\ xRxSegments \subseteq Segments
        /\ owner = [at |-> owner.at, count |-> owner.count, bits |-> owner.bits]
        /\ owner.at # "take" => owner.count = 0
    BY DEF StreamTyped
  <1>2. ASSUME [Stream!Next]_Stream!streamVars,
               ucArray' \in [Index -> 0 .. StreamLength],
               window' \in [current : Seqs, highest : Seqs, fin : Seqs],
               xRxSegments' \subseteq Segments,
               owner' = [at |-> owner'.at, count |-> owner'.count,
                         bits |-> owner'.bits],
               owner'.at # "take" => owner'.count = 0
        PROVE  [Stream!Next]_Stream!streamVars /\ StreamTyped'
    BY <1>1, <1>2, StreamStep DEF StreamTyped
  <1>3. ASSUME rxStream' = rxStream, ucArray' = ucArray, window' = window,
               xRxSegments' = xRxSegments, owner'.count = owner.count,
               owner' = [at |-> owner'.at, count |-> owner'.count,
                         bits |-> owner'.bits],
               owner'.at # "take" => owner'.count = 0
        PROVE  [Stream!Next]_Stream!streamVars /\ StreamTyped'
    BY <1>1, <1>2, <1>3 DEF Stream!streamVars
  <1>4. ASSUME NEW p \in Packets, NEW txDone \in BOOLEAN,
               NEW acked \in BOOLEAN, Receive(p, txDone, acked)
        PROVE  [Stream!Next]_Stream!streamVars /\ StreamTyped'
    <2>1. /\ [Stream!Next]_Stream!streamVars
          /\ ucArray' \in [Index -> 0 .. StreamLength]
          /\ window' \in [current : Seqs, highest : Seqs, fin : Seqs]
          /\ xRxSegments' \subseteq Segments
          /\ owner' = owner
      BY <1>4, ReceiveIsPut
    <2> QED  BY <1>1, <1>2, <2>1
  <1>5. CASE SocketCheck \/ StatusAgeCheck
    BY <1>1, <1>3, <1>5 DEF SocketCheck, StatusAgeCheck
  <1>6. CASE RecvCopy
    <2>1. [Stream!Next]_Stream!streamVars
      BY <1>6, CopyIsCopy DEF Stream!Next
    <2>2. /\ ucArray' = ucArray /\ window' = window /\ xRxSegments' = xRxSegments
          /\ owner' = [owner EXCEPT !.at = "take",
                          !.count = GetCount(rxStream, 0, BufferLength)]
      BY <1>6 DEF RecvCopy
    <2>3. /\ owner' = [at |-> owner'.at, count |-> owner'.count,
                       bits |-> owner'.bits]
          /\ owner'.at = "take"
      BY <1>1, <2>2
    <2> QED  BY <1>1, <1>2, <2>1, <2>2, <2>3
  <1>7. CASE RecvTake
    <2>1. /\ ucArray' = ucArray /\ window' = window /\ xRxSegments' = xRxSegments
          /\ rxStream' = TailMoved(rxStream, owner.count)
          /\ owner' = [owner EXCEPT !.at = "check", !.count = 0]
      BY <1>7 DEF RecvTake
    <2>2. /\ owner' = [at |-> owner'.at, count |-> owner'.count,
                       bits |-> owner'.bits]
          /\ owner'.count = 0
      BY <1>1, <2>1
    <2>3. Stream!Take
      BY <2>1, <2>2, SameBuffer DEF Stream!Take
    <2> QED  BY <1>1, <1>2, <2>1, <2>2, <2>3 DEF Stream!Next
  <1>8. CASE RecvCheck \/ Shutdown \/ LoadBits \/ StoreBits
    <2>1. /\ rxStream' = rxStream /\ ucArray' = ucArray /\ window' = window
          /\ xRxSegments' = xRxSegments /\ owner.at # "take"
          /\ \/ owner' = Idle
             \/ \E a \in {"clear", "shut"} : owner' = [owner EXCEPT !.at = a]
             \/ \E a \in {"cleared", "shutting"} :
                   owner' = [owner EXCEPT !.at = a, !.bits = bits]
      BY <1>8 DEF RecvCheck, Shutdown, LoadBits, StoreBits
    <2>2. /\ owner' = [at |-> owner'.at, count |-> owner'.count,
                       bits |-> owner'.bits]
          /\ owner'.count = 0
      <3>1. CASE owner' = Idle
        BY <3>1 DEF Idle
      <3>2. ASSUME NEW a, owner' = [owner EXCEPT !.at = a]
            PROVE  /\ owner' = [at |-> a, count |-> owner.count,
                                bits |-> owner.bits]
                   /\ owner.count = 0
        BY <1>1, <2>1, <3>2
      <3>3. ASSUME NEW a, owner' = [owner EXCEPT !.at = a, !.bits = bits]
            PROVE  /\ owner' = [at |-> a, count |-> owner.count, bits |-> bits]
                   /\ owner.count = 0
        BY <1>1, <2>1, <3>3
      <3>4. CASE \E a : owner' = [owner EXCEPT !.at = a]
        BY <3>2, <3>4
      <3>5. CASE \E a : owner' = [owner EXCEPT !.at = a, !.bits = bits]
        BY <3>3, <3>5
      <3> QED  BY <2>1, <3>1, <3>4, <3>5
    <2> QED  BY <1>1, <1>3, <2>1, <2>2
  <1>9. CASE UNCHANGED vars
    BY <1>1, <1>3, <1>9 DEF vars
  <1> QED  BY <1>4, <1>5, <1>6, <1>7, <1>8, <1>9 DEF Next, IPTask, Owner

LEMMA ImplementsInit == Init => Stream!Init /\ StreamTyped
  <1> SUFFICES ASSUME Init PROVE Stream!Init /\ StreamTyped
    OBVIOUS
  <1>1. ucArray \in [Index -> 0 .. StreamLength]
    <2>1. StreamLength \in 0 .. StreamLength
      BY Sizes, SMT
    <2> QED  BY <2>1 DEF Init, Garbage
  <1>2. Stream!Init
    BY <1>1, IdleIs, SameBuffer DEF Init, Stream!Init
  <1>3. SeqOf(0) \in Seqs
    <2>1. 0 \in 0 .. StreamLength + 1
      BY Sizes, SMT
    <2> QED  BY <2>1, SeqOfIs
  <1>4. Stream!StreamInvariant
    BY <1>2, InitialStream
  <1> QED  BY <1>1, <1>2, <1>3, <1>4 DEF Init, StreamTyped, Idle, Segments

(* Everything the window and the owner do to the stream is what ByteStream   *)
(* lets them do, and no step reaches bytes that are still to be read: for    *)
(* every stream and every buffer, and however the peer cuts and repeats what *)
(* it sends (prvStoreRxData, uxStreamBufferAdd, uxStreamBufferGet).          *)
THEOREM StreamImplemented == Spec => ImplementsByteStream
  BY ImplementsInit, ImplementsStep, PTL
  DEF Spec, ImplementsByteStream, Stream!Spec
=============================================================================
