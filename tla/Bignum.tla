-------------------------------- MODULE Bignum --------------------------------
(***************************************************************************)
(* The arithmetic of rsa/rsa.c on arrays of words, the least significant   *)
(* first.  HalfBits is the width of half a word (32 in the code); every    *)
(* intermediate value is cut to the width of a word, as uint64_t is.  An   *)
(* operator returns the array that the C function leaves in res.           *)
(***************************************************************************)
EXTENDS Integers, Sequences, FiniteSetsExt

CONSTANT HalfBits

\* 2 to the power of k.
TwoTo[k \in Nat] == IF k = 0 THEN 1 ELSE 2 * TwoTo[k - 1]

Half == TwoTo[HalfBits]
Bits == 2 * HalfBits
Base == Half * Half
Word == 0..(Base - 1)

Low(w) == w % Half
High(w) == w \div Half
Join(high, low) == Low(high) * Half + Low(low)

Zeros(n) == [k \in 1..n |-> 0]

\* The words of x, and zeros up to n (an array = {0} and a copy).
Extended(x, n) == x \o Zeros(n - Len(x))

\* A loop over n words that hands a carry on: step[k][carry] is the k-th word of the
\* result and the next carry.
Loop(step, n) ==
  LET carry[k \in 0..n] == IF k = 0 THEN 0 ELSE step[k][carry[k - 1]][2]
  IN [words |-> [k \in 1..n |-> step[k][carry[k - 1]][1]], carry |-> carry[n]]

\* n words and the carry.
addbignum(op1, op2, n) ==
  LET step == [k \in 1..n |-> [carry \in Word |->
        LET low == (Low(op1[k]) + Low(op2[k]) + carry) % Base
            high == (High(op1[k]) + High(op2[k]) + High(low)) % Base
        IN << Join(high, low), High(high) >> ]]
      sum == Loop(step, n)
  IN Append(sum.words, sum.carry)

\* A slip: the carry of the high half's product is dropped.
Carry2OfSum(carry1, high) == High(high)

Carry2(carry1, high) == (carry1 + High(high)) % Base

\* op2 is half a word: n words and the carry.
multbignum(op1, op2, n) ==
  LET step == [k \in 1..n |-> [carry \in Word |->
        LET j == (Low(op1[k]) * op2) % Base
            h == (High(op1[k]) * op2) % Base
            low == (Low(j) + carry) % Base
            high == (Low(h) + High(j) + High(low)) % Base
        IN << Join(high, low), Carry2(High(h), high) >> ]]
      product == Loop(step, n)
  IN Append(product.words, product.carry)

\* 1, 0 or -1, by the highest word that differs.
compare(op1, op2, n) ==
  LET different == { k \in 1..n : op1[k] # op2[k] }
  IN IF different = {} THEN 0
     ELSE IF op1[Max(different)] > op2[Max(different)] THEN 1 ELSE -1

\* A slip: the borrow is taken from a word that is 0 and forgotten.
BorrowsOnce(carry, w, a, b) == a < b

\* Whether the next word is borrowed from: w is the word, a what the last borrow left.
Borrows(carry, w, a, b) == a < b \/ (carry = 1 /\ w = 0)

subbignum(op1, op2, n) ==
  LET step == [k \in 1..n |-> [carry \in Word |->
        LET a == (op1[k] - carry) % Base
        IN << (a - op2[k]) % Base, IF Borrows(carry, op1[k], a, op2[k]) THEN 1 ELSE 0 >> ]]
  IN Loop(step, n).words

\* Shift left: by words, then by bits, and the bits that leave a word enter the next.
slnbignum(op, len, n) ==
  LET moved == Zeros(n \div Bits) \o SubSeq(op, 1, len - n \div Bits)
      step == [k \in 1..len |-> [carry \in Word |->
        << ((moved[k] * TwoTo[n % Bits]) % Base) + carry,
           (moved[k] * TwoTo[n % Bits]) \div Base >> ]]
  IN Loop(step, len).words

\* A slip: the bits that leave a word are lost.
CarriedDownNone(w, y) == 0

\* The y low bits of a word, where they enter the next.
CarriedDown(w, y) == (w * TwoTo[Bits - y]) % Base

\* The words of an array of n words in the opposite order.
Turned(words, n) == [k \in 1..n |-> words[n + 1 - k]]

\* Shift right, from the most significant word.
srnbignum(op, len, n) ==
  LET moved == Extended(SubSeq(op, 1 + n \div Bits, len), len)
      step == [k \in 1..len |-> [carry \in Word |->
        << (moved[len + 1 - k] \div TwoTo[n % Bits]) + carry,
           CarriedDown(moved[len + 1 - k], n % Bits) >> ]]
  IN Turned(Loop(step, len).words, len)

BitSet(w, b) == (w \div TwoTo[b]) % 2 = 1

\* The position of the most significant bit, counted from 1; 0 if there is none.
bit_length(op, n) ==
  Max({0} \cup { p + 1 : p \in { q \in 0..(Bits * n - 1) : BitSet(op[1 + q \div Bits], q % Bits) } })

=============================================================================
