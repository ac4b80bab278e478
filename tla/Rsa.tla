---------------------------------- MODULE Rsa ----------------------------------
(***************************************************************************)
(* rsa1024 of rsa/rsa.c: a power modulo key, by squaring, on arrays of     *)
(* N words.  The reduction modbignum is modelled step by step, because it  *)
(* works in place: it shifts its second argument - the caller's key, the   *)
(* first time - left, and bit by bit right again, and subtracts.           *)
(***************************************************************************)
EXTENDS Bignum

CONSTANTS
  N,         \* the words of a number, 16 in the code
  Instance   \* the calls: records of the numbers data, expo and key

ASSUME InstanceAssumption ==
  /\ HalfBits \in Nat \ {0} /\ N \in Nat \ {0}
  /\ \A c \in Instance : /\ {c.data, c.expo, c.key} \subseteq 0..(TwoTo[Bits * N] - 1)
                         /\ c.key > 1

VARIABLES
  data,       \* the argument of that name
  expo,       \* the argument of that name, with the word of zeros after it
  key,        \* the argument of that name
  mod_data, result, i, j,   \* locals of rsa1024
  pc,
  target,     \* what the reduction that is under way is for
  n,          \* and its arguments and local variables
  res, op2, left,
  turns,      \* history: the subtractions since the last shift
  call        \* history: the numbers rsa1024 was called with

reduction == << target, n, res, op2, left >>
vars == << data, expo, key, mod_data, result, i, j, pc, reduction, turns, call >>

\* The array of a number.
Number(v, words) == [w \in 1..words |-> (v \div TwoTo[Bits * (w - 1)]) % Base]

Init ==
  /\ call \in Instance
  /\ data = Number(call.data, N)
  /\ expo = Number(call.expo, N + 1)
  /\ key = Number(call.key, N)
  /\ mod_data = Number(0, N) /\ result = Number(0, N)
  /\ i = 0 /\ j = 0
  /\ pc = "start"
  /\ target = "none" /\ n = 0 /\ res = << >> /\ op2 = << >> /\ left = 0
  /\ turns = 0

-----------------------------------------------------------------------------
(* modbignum(.., x, m, size), in steps.                                      *)

modbignum(for, x, m, size) ==
  LET len_dif == bit_length(x, size) - bit_length(m, size)
  IN /\ target' = for
     /\ n' = size
     /\ res' = x
     /\ left' = IF len_dif < 0 THEN 0 ELSE len_dif
     /\ op2' = IF len_dif > 0 THEN slnbignum(m, size, len_dif) ELSE m
     /\ turns' = 0
     /\ pc' = IF len_dif < 0 THEN "return" ELSE IF len_dif = 0 THEN "subtract" ELSE "shift"

Shift ==
  /\ pc = "shift"
  /\ op2' = srnbignum(op2, n, 1)
  /\ left' = left - 1
  /\ turns' = 0
  /\ pc' = "subtract"
  /\ UNCHANGED << data, expo, key, mod_data, result, i, j, target, n, res, call >>

Subtract ==
  /\ pc = "subtract"
  /\ compare(res, op2, n) >= 0
  /\ res' = subbignum(res, op2, n)
  /\ turns' = turns + 1
  /\ UNCHANGED << data, expo, key, mod_data, result, i, j, pc, target, n, op2, left, call >>

SubtractDone ==
  /\ pc = "subtract"
  /\ compare(res, op2, n) < 0
  /\ pc' = IF left > 0 THEN "shift" ELSE "return"
  /\ UNCHANGED << data, expo, key, mod_data, result, i, j, reduction, turns, call >>

-----------------------------------------------------------------------------
(* modmult1024: the product, word by word of op2, then its reduction by a    *)
(* copy of the modulus.                                                      *)

Product(x, y) ==
  LET len == 2 * N + 1
      mult(half) == Extended(multbignum(x, half, N), len)
      row(w) == addbignum(slnbignum(mult(High(w)), len, HalfBits), mult(Low(w)), len - 1)
      sum[k \in 0..N] ==
        IF k = 0 THEN Zeros(len)
        ELSE addbignum(sum[k - 1], slnbignum(row(y[k]), len, Bits * (k - 1)), len - 1)
  IN sum[N]

modmult1024(for, x, y) == modbignum(for, Product(x, y), Extended(key, 2 * N + 1), 2 * N + 1)

-----------------------------------------------------------------------------
(* rsa1024.                                                                  *)

Start ==
  /\ pc = "start"
  /\ modbignum("data", data, key, N)
  /\ UNCHANGED << data, expo, key, mod_data, result, i, j, call >>

expo_len == bit_length(expo, N) \div Bits

ReturnData ==
  /\ pc = "return" /\ target = "data"
  /\ mod_data' = res
  /\ key' = op2
  /\ result' = Number(1, N)
  /\ pc' = "bit"
  /\ UNCHANGED << data, expo, i, j, reduction, turns, call >>

\* One turn of the inner loop: multiply when the bit is set ...
Multiply ==
  /\ pc = "bit"
  /\ BitSet(expo[i + 1], j)
  /\ modmult1024("result", result, mod_data)
  /\ UNCHANGED << data, expo, key, mod_data, result, i, j, call >>

ReturnResult ==
  /\ pc = "return" /\ target = "result"
  /\ result' = SubSeq(res, 1, N)
  /\ pc' = "square"
  /\ UNCHANGED << data, expo, key, mod_data, i, j, reduction, turns, call >>

\* ... and square.
Square ==
  /\ pc = "square" \/ (pc = "bit" /\ ~BitSet(expo[i + 1], j))
  /\ modmult1024("mod_data", mod_data, mod_data)
  /\ UNCHANGED << data, expo, key, mod_data, result, i, j, call >>

\* A slip: one word more.
LastWordLate == i = expo_len + 1

LastWord == i = expo_len

ReturnSquare ==
  /\ pc = "return" /\ target = "mod_data"
  /\ mod_data' = SubSeq(res, 1, N)
  /\ IF j < Bits - 1
       THEN j' = j + 1 /\ i' = i /\ pc' = "bit"
       ELSE j' = 0 /\ i' = i + 1 /\ pc' = IF LastWord THEN "done" ELSE "bit"
  /\ UNCHANGED << data, expo, key, result, reduction, turns, call >>

\* It has returned.
Finished == pc = "done" /\ UNCHANGED vars

Next ==
  \/ Start \/ ReturnData
  \/ Multiply \/ ReturnResult \/ Square \/ ReturnSquare
  \/ Shift \/ Subtract \/ SubtractDone
  \/ Finished

Spec == Init /\ [][Next]_vars

-----------------------------------------------------------------------------

\* The number in the first words of an array.
Value(x, words) ==
  LET value[w \in 0..words] == IF w = 0 THEN 0 ELSE value[w - 1] + x[w] * TwoTo[Bits * (w - 1)]
  IN value[words]

\* The power of b modulo m, from the one with half the exponent: numbers, and the bits of e from the top.
Power(b, e, m) ==
  LET power[k \in 0..e] ==
        IF k = 0 THEN 1 % m
        ELSE LET half == power[k \div 2]
             IN (half * half * (IF k % 2 = 1 THEN b ELSE 1)) % m
  IN power[e]

Arrays(words) == [1..words -> Word]
Reducing == pc \in {"shift", "subtract", "return"}

\* Type correctness.
TypeOK ==
  /\ data \in Arrays(N) /\ key \in Arrays(N)
  /\ expo \in Arrays(N + 1)
  /\ mod_data \in Arrays(N) /\ result \in Arrays(N)
  /\ i \in 0..(N + 1) /\ j \in 0..(Bits - 1)
  /\ pc \in {"start", "bit", "square", "shift", "subtract", "return", "done"}
  /\ Reducing => res \in Arrays(n) /\ op2 \in Arrays(n)
  /\ left \in 0..(Bits * n)

\* What rsa1024 returns is the power, reduced.
ReturnsPower == pc = "done" => Value(result, N) = Power(call.data, call.expo, call.key)

\* While it shifts the modulus in place and cuts every word, modbignum loses no bit of
\* it and keeps the number it reduces, modulo the key, below twice what it subtracts
\* before the next shift (rsa.c:167-175).
ReductionIsCongruent ==
  Reducing =>
    /\ Value(op2, n) = call.key * TwoTo[left]
    /\ Value(res, n) % call.key =
         CASE target = "data" -> call.data % call.key
           [] target = "result" -> (Value(result, N) * Value(mod_data, N)) % call.key
           [] target = "mod_data" -> (Value(mod_data, N) * Value(mod_data, N)) % call.key
    /\ pc = "return" => Value(res, n) < call.key

\* The caller's key, which the first reduction shifts in place, is back as it was
\* whenever it is used again, and at the end (rsa.c:14, 167-170).
KeyIsRestored == pc # "start" /\ ~(Reducing /\ target = "data") => Value(key, N) = call.key

\* The words the loop reads are those of the exponent and the zeros after it: the sixteen
\* words of a full exponent and one more, since the last turn starts at bit_length / 64
\* (rsa.c:16-19).
ReadsWithinExponent == pc = "bit" => i + 1 \in DOMAIN expo

\* Every loop of subtractions ends: at most three follow a shift by one bit, whatever
\* the numbers (rsa.c:160, 171).
SubtractionsAreFew == turns <= 3

\* The invariant of the reduction: congruent at every step, within the words that
\* are there, and never long.
ReductionInv ==
  TypeOK /\ ReductionIsCongruent /\ ReadsWithinExponent /\ SubtractionsAreFew

=============================================================================
