----------------------------- MODULE SeqNumbers -----------------------------
(* Sequence numbers of TCP: counted modulo SeqSpace (2^32 in the code) and   *)
(* compared by the sign of their difference (FreeRTOS_TCP_WIN.c).            *)
EXTENDS Integers

CONSTANT SeqSpace       \* an even number

ASSUME SeqSpaceAssumption == SeqSpace \in Nat \ {0} /\ SeqSpace % 2 = 0

Seqs == 0 .. SeqSpace - 1
Plus(a, n) == (a + n) % SeqSpace

\* (uint32_t)(a - b) and (int32_t)(a - b)
Minus(a, b) == (a - b) % SeqSpace
Signed(a, b) == LET d == Minus(a, b)
                IN  IF 2 * d >= SeqSpace THEN d - SeqSpace ELSE d

xSequenceLessThanOrEqual(a, b) == 2 * Minus(b, a) < SeqSpace
xSequenceLessThan(a, b) == 2 * Minus(b, Plus(a, 1)) < SeqSpace
xSequenceGreaterThan(a, b) == 2 * Minus(a, Plus(b, 1)) < SeqSpace
xSequenceGreaterThanOrEqual(a, b) == 2 * Minus(a, b) < SeqSpace

=============================================================================
