------------------------------ MODULE Rsa_proofs ------------------------------
(***************************************************************************)
(* Proofs about Rsa and the arithmetic of Bignum, for every width of a     *)
(* word, every length of a number and every call: rsa1024 returns the      *)
(* power, no word is read beyond the exponent, no loop of subtractions is  *)
(* long, and the key is back as it was.                                    *)
(***************************************************************************)
EXTENDS Rsa, FiniteSetTheorems, SequenceTheorems, WellFoundedInduction, TLAPS

-----------------------------------------------------------------------------
(* Numbers: induction, products and remainders.                              *)

\* A set of numbers has a least one.
LEMMA LeastNumber ==
    ASSUME NEW T \in SUBSET Nat, T # {}
    PROVE  \E k \in T : \A m \in T : k <= m
  <1>1. IsWellFoundedOn(OpToRel(<, Nat), Nat)
    BY NatLessThanWellFounded
  <1>2. PICK k \in T : \A m \in T : ~ (<<m, k>> \in OpToRel(<, Nat))
    BY <1>1, WFMin
  <1>3. \A m \in T : <<m, k>> \in OpToRel(<, Nat) <=> m < k
    BY DEF OpToRel
  <1>4. \A m \in T : ~ (m < k) /\ m \in Nat /\ k \in Nat
    BY <1>2, <1>3
  <1> QED  BY <1>4, SMT

\* A set with 0 and with the successor of each of its numbers has them all.
LEMMA Induction ==
    ASSUME NEW S, 0 \in S, \A k \in Nat : k \in S => k + 1 \in S
    PROVE  Nat \subseteq S
  <1> SUFFICES ASSUME NEW x \in Nat, x \notin S PROVE FALSE
    OBVIOUS
  <1> DEFINE T == {k \in Nat : k \notin S}
  <1>1. PICK k \in T : \A m \in T : k <= m
    <2>1. T \in SUBSET Nat /\ T # {}
      OBVIOUS
    <2> QED  BY <2>1, LeastNumber
  <1>2. k \in Nat /\ k # 0 /\ k \notin S
    BY <1>1
  <1>3. k - 1 \in Nat /\ (k - 1) + 1 = k /\ ~ (k <= k - 1)
    BY <1>2, SMT
  <1>4. k - 1 \in S
    BY <1>1, <1>3
  <1> QED  BY <1>2, <1>3, <1>4

\* The same, up to a bound.
LEMMA BoundedInduction ==
    ASSUME NEW S, NEW m \in Nat, 0 \in S,
           \A k \in 0 .. m - 1 : k \in S => k + 1 \in S
    PROVE  0 .. m \subseteq S
  <1> DEFINE T == S \cup {k \in Nat : k > m}
  <1>1. 0 \in T
    OBVIOUS
  <1>2. ASSUME NEW k \in Nat, k \in T PROVE k + 1 \in T
    <2>1. CASE k >= m
      BY <2>1, SMT
    <2>2. CASE k < m
      <3>1. k \in 0 .. m - 1 /\ k \in S
        BY <2>2, <1>2, SMT
      <3> QED  BY <3>1
    <2> QED  BY <2>1, <2>2, SMT
  <1>3. Nat \subseteq T
    <2> HIDE DEF T
    <2> QED  BY <1>1, <1>2, Induction
  <1> QED  BY <1>3, SMT

\* Products of natural numbers.
LEMMA Products ==
    ASSUME NEW a \in Nat, NEW b \in Nat
    PROVE  /\ a * b \in Nat
           /\ a > 0 /\ b > 0 => a * b > 0 /\ a * b >= a /\ a * b >= b
  <1>1. a * b \in Int /\ a * b >= 0
    BY SMT
  <1>2. a > 0 /\ b > 0 => a * b >= a
    <2>1. b >= 1 => a * (b - 1) >= 0
      BY SMT
    <2> QED  BY <2>1, SMT
  <1>3. a > 0 /\ b > 0 => a * b >= b
    <2>1. a >= 1 => (a - 1) * b >= 0
      BY SMT
    <2> QED  BY <2>1, SMT
  <1> QED  BY <1>1, <1>2, <1>3, SMT

\* A factor keeps the order.
LEMMA LessTimes ==
    ASSUME NEW a \in Int, NEW b \in Int, NEW c \in Nat
    PROVE  /\ a <= b => a * c <= b * c
           /\ a < b /\ c > 0 => a * c < b * c
           /\ a * c < b * c => a < b
  BY SMT

\* The laws of products that the solver is given one at a time.
LEMMA Spread ==
    ASSUME NEW a \in Int, NEW b \in Int, NEW c \in Int
    PROVE  /\ (a + b) * c = a * c + b * c
           /\ (a - b) * c = a * c - b * c
           /\ c * (a + b) = c * a + c * b
           /\ (a * b) * c = a * (b * c)
           /\ a * b = b * a
  BY SMT

\* The quotient and the remainder make up the number.
LEMMA Divided ==
    ASSUME NEW a \in Int, NEW b \in Nat, b > 0
    PROVE  /\ a \div b \in Int /\ a % b \in 0 .. b - 1
           /\ a = b * (a \div b) + (a % b)
           /\ a >= 0 => a \div b >= 0 /\ a \div b <= a
  <1>1. /\ a \div b \in Int /\ a % b \in 0 .. b - 1
        /\ a = b * (a \div b) + (a % b)
    BY SMT
  <1>2. ASSUME a >= 0 PROVE a \div b >= 0 /\ a \div b <= a
    <2>1. PICK d \in Int, r \in 0 .. b - 1 : d = a \div b /\ a = b * d + r
      BY <1>1
    <2>2. d >= 0
      <3>1. d <= 0 - 1 => b * d <= 0 - b
        BY <2>1, SMT
      <3> QED  BY <2>1, <3>1, <1>2, SMT
    <2>3. b * d >= d
      BY <2>2, Products, SMT
    <2> QED  BY <2>1, <2>2, <2>3, SMT
  <1> QED  BY <1>1, <1>2

\* There is only one quotient and one remainder.
LEMMA DividedIs ==
    ASSUME NEW a \in Int, NEW b \in Nat, b > 0, NEW q \in Int,
           NEW r \in 0 .. b - 1, a = b * q + r
    PROVE  a \div b = q /\ a % b = r
  <1>1. /\ a \div b \in Int /\ a % b \in 0 .. b - 1
        /\ a = b * (a \div b) + (a % b)
    BY Divided
  <1>2. ASSUME NEW x \in Int, NEW y \in 0 .. b - 1, a = b * x + y, x # q
        PROVE FALSE
    <2>1. b * (x - q) = r - y
      BY <1>2, SMT
    <2>2. x - q >= 1 \/ q - x >= 1
      BY <1>2, SMT
    <2>3. CASE x - q >= 1
      <3>1. b * (x - q) >= b
        BY <2>3, SMT
      <3> QED  BY <2>1, <3>1, SMT
    <2>4. CASE q - x >= 1
      <3>1. b * (q - x) >= b
        BY <2>4, SMT
      <3>2. b * (q - x) = y - r
        BY <2>1, SMT
      <3> QED  BY <3>1, <3>2, SMT
    <2> QED  BY <2>2, <2>3, <2>4
  <1>3. a \div b = q
    BY <1>1, <1>2
  <1> QED  BY <1>1, <1>3, SMT

\* Numbers that differ by a multiple of m leave the same remainder.
Congruent(a, b, m) == \E q \in Int : a = b + m * q

\* Congruent numbers are those with one remainder.
LEMMA CongruentIs ==
    ASSUME NEW a \in Int, NEW b \in Int, NEW m \in Nat, m > 0
    PROVE  /\ Congruent(a, b, m) => a % m = b % m
           /\ a % m = b % m => Congruent(a, b, m)
           /\ a \in 0 .. m - 1 => a % m = a
  <1>1. PICK d \in Int, r \in 0 .. m - 1 : b = m * d + r /\ b % m = r
    BY Divided
  <1>2. PICK e \in Int, s \in 0 .. m - 1 : a = m * e + s /\ a % m = s
    BY Divided
  <1>3. ASSUME Congruent(a, b, m) PROVE a % m = b % m
    <2>1. PICK q \in Int : a = b + m * q
      BY <1>3 DEF Congruent
    <2>2. d + q \in Int /\ a = m * (d + q) + r
      BY <1>1, <2>1, SMT
    <2>3. a % m = r
      BY <2>2, DividedIs
    <2> QED  BY <1>1, <2>3
  <1>4. ASSUME r = s PROVE Congruent(a, b, m)
    <2>1. e - d \in Int /\ a = b + m * (e - d)
      BY <1>1, <1>2, <1>4, SMT
    <2> QED  BY <2>1 DEF Congruent
  <1>5. ASSUME a \in 0 .. m - 1 PROVE a % m = a
    <2>1. a = m * 0 + a /\ 0 \in Int
      BY SMT
    <2> QED  BY <1>5, <2>1, DividedIs
  <1> QED  BY <1>1, <1>2, <1>3, <1>4, <1>5

\* The remainder of a number that is at most one modulus off.
LEMMA Remainder ==
    ASSUME NEW m \in Nat, m > 0, NEW a \in Int
    PROVE  /\ a >= 0 /\ a < m => a % m = a
           /\ a < 0 /\ a >= 0 - m => a % m = a + m
  <1>1. ASSUME a >= 0, a < m PROVE a % m = a
    BY <1>1, CongruentIs
  <1>2. ASSUME a < 0, a >= 0 - m PROVE a % m = a + m
    <2>1. PICK b \in 0 .. m - 1 : b = a + m
      BY <1>2, SMT
    <2>2. b = a + m * 1 /\ 1 \in Int /\ b \in Int
      BY <2>1, SMT
    <2>3. Congruent(b, a, m)
      BY <2>2 DEF Congruent
    <2> QED  BY <2>1, <2>2, <2>3, CongruentIs
  <1> QED  BY <1>1, <1>2

\* The remainder of a product is that of the remainders.
LEMMA RemainderOfProduct ==
    ASSUME NEW a \in Int, NEW b \in Int, NEW m \in Nat, m > 0
    PROVE  /\ (a * b) % m = ((a % m) * (b % m)) % m
           /\ (a * b) % m = ((a % m) * b) % m
           /\ (a % m) % m = a % m
  <1>1. PICK x \in Int, y \in 0 .. m - 1 : a = m * x + y /\ a % m = y
    BY Divided
  <1>2. PICK u \in Int, v \in 0 .. m - 1 : b = m * u + v /\ b % m = v
    BY Divided
  <1>3. PICK c \in Int, f \in Int, g \in Int : c = a * b /\ f = y * v /\ g = y * b
    BY SMT
  <1>4. PICK s \in Int : s = x * (m * u + v) + y * u
    BY SMT
  <1>5. PICK t \in Int : t = x * b
    BY SMT
  <1>6. c = f + m * s
    BY <1>1, <1>2, <1>3, <1>4, SMT
  <1>7. c = g + m * t
    BY <1>1, <1>3, <1>5, SMT
  <1>8. Congruent(c, f, m) /\ Congruent(c, g, m)
    BY <1>3, <1>4, <1>5, <1>6, <1>7, Zenon DEF Congruent
  <1>9. c % m = f % m /\ c % m = g % m /\ y % m = y
    BY <1>8, CongruentIs
  <1> QED  BY <1>1, <1>2, <1>3, <1>9

-----------------------------------------------------------------------------
(* Recursive functions: there is one that takes the steps, and only one.     *)

Steps(f, d, step, m) ==
    f[0] = d /\ \A k \in 1 .. m : f[k] = step[k][f[k - 1]]

\* Functions with the same first value and the same steps agree.
LEMMA OneFunction ==
    ASSUME NEW m \in Nat, NEW d, NEW step, NEW f, NEW g,
           Steps(f, d, step, m), Steps(g, d, step, m)
    PROVE  \A k \in 0 .. m : f[k] = g[k]
  <1> DEFINE S == {k \in Nat : k <= m => f[k] = g[k]}
  <1>1. 0 \in S
    BY DEF Steps
  <1>2. ASSUME NEW k \in Nat, k \in S PROVE k + 1 \in S
    <2>1. CASE k + 1 <= m
      <3>1. k + 1 \in 1 .. m /\ (k + 1) - 1 = k /\ k <= m
        BY <2>1, SMT
      <3>2. f[k + 1] = step[k + 1][f[k]] /\ g[k + 1] = step[k + 1][g[k]]
        BY <3>1 DEF Steps
      <3> QED  BY <3>1, <3>2, <1>2
    <2>2. CASE ~ (k + 1 <= m)
      BY <2>2
    <2> QED  BY <2>1, <2>2
  <1>3. Nat \subseteq S
    <2> HIDE DEF S
    <2> QED  BY <1>1, <1>2, Induction
  <1> QED  BY <1>3, SMT

\* There is a function with a first value and given steps: what a recursive function
\* of the model has to be for its CHOOSE to find it.
LEMMA Recursion ==
    ASSUME NEW D, NEW d \in D, NEW step \in [Nat -> [D -> D]]
    PROVE  \E f \in [Nat -> D] : \A m \in Nat : Steps(f, d, step, m)
  <1> DEFINE S == {m \in Nat : \E f \in [0 .. m -> D] : Steps(f, d, step, m)}
  <1>1. 0 \in S
    <2> DEFINE f == [k \in 0 .. 0 |-> d]
    <2>1. f \in [0 .. 0 -> D] /\ f[0] = d /\ 1 .. 0 = {}
      BY SMT
    <2>2. Steps(f, d, step, 0)
      BY <2>1 DEF Steps
    <2> QED  BY <2>1, <2>2
  <1>2. ASSUME NEW m \in Nat, m \in S PROVE m + 1 \in S
    <2>1. PICK f \in [0 .. m -> D] : Steps(f, d, step, m)
      BY <1>2
    <2> DEFINE g == [k \in 0 .. m + 1 |-> IF k = m + 1 THEN step[m + 1][f[m]] ELSE f[k]]
    <2>2. m \in 0 .. m /\ m + 1 \in Nat /\ f[m] \in D /\ step[m + 1] \in [D -> D]
      BY SMT
    <2>3. step[m + 1][f[m]] \in D
      BY <2>2
    <2>4. \A k \in 0 .. m + 1 : k # m + 1 => k \in 0 .. m
      BY SMT
    <2>5. g \in [0 .. m + 1 -> D]
      BY <2>3, <2>4
    <2>6. g[0] = d
      <3>1. 0 \in 0 .. m + 1 /\ 0 # m + 1
        BY SMT
      <3> QED  BY <2>1, <3>1 DEF Steps
    <2>7. ASSUME NEW k \in 1 .. m + 1 PROVE g[k] = step[k][g[k - 1]]
      <3>1. k \in 0 .. m + 1 /\ k - 1 \in 0 .. m + 1 /\ k - 1 # m + 1
            /\ (k # m + 1 => k \in 1 .. m) /\ (k = m + 1 => k - 1 = m)
        BY SMT
      <3> QED  BY <3>1, <2>1 DEF Steps
    <2>8. Steps(g, d, step, m + 1)
      BY <2>6, <2>7 DEF Steps
    <2> QED  BY <2>5, <2>8
  <1>3. Nat \subseteq S
    <2> HIDE DEF S
    <2> QED  BY <1>1, <1>2, Induction
  <1> DEFINE first(m) == CHOOSE f \in [0 .. m -> D] : Steps(f, d, step, m)
             h == [m \in Nat |-> first(m)[m]]
  <1>4. ASSUME NEW m \in Nat
        PROVE  first(m) \in [0 .. m -> D] /\ Steps(first(m), d, step, m)
    BY <1>3
  <1> HIDE DEF first
  <1>5. h \in [Nat -> D]
    <2>1. ASSUME NEW m \in Nat PROVE first(m)[m] \in D
      <3>1. m \in 0 .. m
        BY SMT
      <3> QED  BY <1>4, <3>1
    <2> QED  BY <2>1
  <1>6. ASSUME NEW k \in Nat, k # 0 PROVE h[k] = step[k][h[k - 1]]
    <2>1. k - 1 \in Nat /\ k - 1 \in 0 .. k - 1 /\ k \in 1 .. k
          /\ \A x \in 1 .. k - 1 : x \in 1 .. k
      BY <1>6, SMT
    <2>2. Steps(first(k), d, step, k - 1) /\ Steps(first(k - 1), d, step, k - 1)
      BY <1>4, <2>1 DEF Steps
    <2>3. first(k)[k - 1] = first(k - 1)[k - 1]
      BY <2>1, <2>2, OneFunction
    <2>4. first(k)[k] = step[k][first(k)[k - 1]]
      BY <1>4, <2>1 DEF Steps
    <2> QED  BY <2>1, <2>3, <2>4
  <1>7. h[0] = d
    <2>1. first(0)[0] = d
      BY <1>4 DEF Steps
    <2> QED  BY <2>1
  <1>8. \A m \in Nat : Steps(h, d, step, m)
    <2>1. ASSUME NEW m \in Nat PROVE \A k \in 1 .. m : k \in Nat /\ k # 0
      BY SMT
    <2> HIDE DEF h
    <2> QED  BY <1>6, <1>7, <2>1 DEF Steps
  <1> HIDE DEF h
  <1> QED  BY <1>5, <1>8

-----------------------------------------------------------------------------
(* Powers of two.                                                            *)

\* The recursive function of Bignum is the power of two.
LEMMA TwoToIs ==
    /\ TwoTo \in [Nat -> Nat] /\ TwoTo[0] = 1
    /\ \A k \in Nat : TwoTo[k + 1] = 2 * TwoTo[k]
  <1> DEFINE step == [k \in Nat |-> [x \in Nat |-> 2 * x]]
             Is(f) == f = [k \in Nat |-> IF k = 0 THEN 1 ELSE 2 * f[k - 1]]
  <1>1. step \in [Nat -> [Nat -> Nat]] /\ 1 \in Nat
    BY SMT
  <1>2. PICK f \in [Nat -> Nat] : \A m \in Nat : Steps(f, 1, step, m)
    <2> HIDE DEF step
    <2> QED  BY <1>1, Recursion
  <1>3. f[0] = 1
    BY <1>2 DEF Steps
  <1>4. ASSUME NEW k \in Nat, k # 0 PROVE f[k] = 2 * f[k - 1]
    <2>1. k \in 1 .. k /\ k - 1 \in Nat
      BY <1>4, SMT
    <2>2. f[k] = step[k][f[k - 1]]
      BY <1>2, <2>1 DEF Steps
    <2> QED  BY <1>2, <2>1, <2>2
  <1>5. Is(f)
    <2>1. f = [k \in Nat |-> f[k]]
      BY <1>2
    <2>2. \A k \in Nat : f[k] = IF k = 0 THEN 1 ELSE 2 * f[k - 1]
      BY <1>3, <1>4
    <2> QED  BY <2>1, <2>2
  <1>6. Is(TwoTo)
    <2>1. TwoTo = CHOOSE g : Is(g)
      BY DEF TwoTo
    <2> HIDE DEF Is
    <2> QED  BY <1>5, <2>1
  <1>7. TwoTo[0] = 1
    BY <1>6
  <1>8. ASSUME NEW k \in Nat PROVE TwoTo[k + 1] = 2 * TwoTo[k]
    <2>1. k + 1 \in Nat /\ k + 1 # 0 /\ (k + 1) - 1 = k
      BY SMT
    <2> QED  BY <1>6, <2>1
  <1> DEFINE S == {k \in Nat : TwoTo[k] \in Nat}
  <1>9. Nat \subseteq S
    <2>1. 0 \in S
      BY <1>7
    <2>2. \A k \in Nat : k \in S => k + 1 \in S
      BY <1>8, SMT
    <2> HIDE DEF S
    <2> QED  BY <2>1, <2>2, Induction
  <1>10. TwoTo \in [Nat -> Nat]
    <2>1. TwoTo = [k \in Nat |-> TwoTo[k]]
      <3>1. DOMAIN TwoTo = Nat
        BY <1>6
      <3> QED  BY <1>6, <3>1
    <2> QED  BY <1>9, <2>1
  <1> QED  BY <1>7, <1>8, <1>10

\* Powers of two are positive.
LEMMA TwoToType ==
    ASSUME NEW k \in Nat
    PROVE  TwoTo[k] \in Nat /\ TwoTo[k] > 0
  <1> DEFINE S == {m \in Nat : TwoTo[m] \in Nat /\ TwoTo[m] > 0}
  <1>1. 0 \in S
    BY TwoToIs, SMT
  <1>2. \A m \in Nat : m \in S => m + 1 \in S
    BY TwoToIs, SMT
  <1>3. Nat \subseteq S
    <2> HIDE DEF S
    <2> QED  BY <1>1, <1>2, Induction
  <1> QED  BY <1>3

\* A power of a sum is a product.
LEMMA TwoToPlus ==
    ASSUME NEW k \in Nat, NEW m \in Nat
    PROVE  TwoTo[k + m] = TwoTo[k] * TwoTo[m]
  <1> DEFINE S == {x \in Nat : TwoTo[k + x] = TwoTo[k] * TwoTo[x]}
  <1>1. 0 \in S
    BY TwoToIs, TwoToType, SMT
  <1>2. ASSUME NEW x \in Nat, x \in S PROVE x + 1 \in S
    <2>1. k + x \in Nat /\ k + (x + 1) = (k + x) + 1
      BY SMT
    <2>2. TwoTo[k + (x + 1)] = 2 * TwoTo[k + x] /\ TwoTo[x + 1] = 2 * TwoTo[x]
      BY <2>1, TwoToIs
    <2>3. 2 * (TwoTo[k] * TwoTo[x]) = TwoTo[k] * (2 * TwoTo[x])
      BY TwoToType, SMT
    <2> QED  BY <1>2, <2>2, <2>3
  <1>3. Nat \subseteq S
    <2> HIDE DEF S
    <2> QED  BY <1>1, <1>2, Induction
  <1> QED  BY <1>3

\* Powers of two grow, and faster than their exponents.
LEMMA TwoToGrows ==
    ASSUME NEW k \in Nat, NEW m \in Nat
    PROVE  /\ k <= m => TwoTo[k] <= TwoTo[m]
           /\ k < m => 2 * TwoTo[k] <= TwoTo[m]
           /\ k < TwoTo[k]
  <1>1. ASSUME NEW p \in Nat, NEW q \in Nat, p <= q PROVE TwoTo[p] <= TwoTo[q]
    <2>1. q - p \in Nat /\ q = p + (q - p)
      BY <1>1, SMT
    <2>2. TwoTo[q] = TwoTo[p] * TwoTo[q - p]
      BY <2>1, TwoToPlus
    <2> QED  BY <2>1, <2>2, TwoToType, Products
  <1>2. ASSUME k < m PROVE 2 * TwoTo[k] <= TwoTo[m]
    <2>1. k + 1 \in Nat /\ k + 1 <= m
      BY <1>2, SMT
    <2> QED  BY <1>1, <2>1, TwoToIs
  <1> DEFINE S == {x \in Nat : x < TwoTo[x]}
  <1>3. 0 \in S
    BY TwoToIs, SMT
  <1>4. \A x \in Nat : x \in S => x + 1 \in S
    BY TwoToIs, TwoToType, SMT
  <1>5. Nat \subseteq S
    <2> HIDE DEF S
    <2> QED  BY <1>3, <1>4, Induction
  <1> QED  BY <1>1, <1>2, <1>5

\* What is known of the width of a word.
LEMMA Sizes ==
    /\ HalfBits \in Nat /\ HalfBits >= 1 /\ N \in Nat /\ N >= 1
    /\ Bits \in Nat /\ Bits >= 2 /\ Bits = HalfBits + HalfBits
    /\ Half \in Nat /\ Half >= 2 /\ Base \in Nat /\ Base >= 4 /\ Base = Half * Half
    /\ Base = TwoTo[Bits] /\ Half = TwoTo[HalfBits] /\ Base >= 2 * Half
  <1>1. /\ HalfBits \in Nat /\ HalfBits >= 1 /\ N \in Nat /\ N >= 1
        /\ Bits \in Nat /\ Bits >= 2 /\ Bits = HalfBits + HalfBits
    BY InstanceAssumption, SMT DEF Bits
  <1>2. Half = TwoTo[HalfBits] /\ Half \in Nat
    BY <1>1, TwoToType DEF Half
  <1>3. Half >= 2
    BY <1>1, <1>2, TwoToGrows, TwoToIs, SMT
  <1>4. Base = TwoTo[Bits]
    BY <1>1, <1>2, TwoToPlus DEF Base
  <1>5. Half * Half >= 2 * Half
    BY <1>2, <1>3, LessTimes, SMT
  <1>6. Half * Half \in Nat
    BY <1>2, Products
  <1> QED  BY <1>1, <1>2, <1>3, <1>4, <1>5, <1>6, SMT DEF Base

-----------------------------------------------------------------------------
(* The number of an array.                                                   *)

\* What the lowest bit of word k + 1 is worth.
Weight(k) == TwoTo[Bits * k]

Words(x, m) == \A k \in 1 .. m : x[k] \in Word

\* The weight of a word grows by Base from one to the next.
LEMMA WeightPlus ==
    ASSUME NEW k \in Nat, NEW m \in Nat
    PROVE  /\ Weight(k) \in Nat /\ Weight(k) > 0 /\ Weight(0) = 1
           /\ Weight(k + 1) = Base * Weight(k)
           /\ Weight(k + m) = Weight(k) * Weight(m)
           /\ k <= m => Weight(k) <= Weight(m)
           /\ Bits * k \in Nat
  <1>1. Bits * k \in Nat /\ Bits * m \in Nat /\ Bits * 0 = 0 /\ Bits * (k + 1) = Bits + Bits * k
        /\ Bits * (k + m) = Bits * k + Bits * m
    BY Sizes, SMT
  <1>2. k <= m => Bits * k <= Bits * m
    BY Sizes, SMT
  <1>3. Weight(k) \in Nat /\ Weight(k) > 0 /\ Weight(0) = 1
    BY <1>1, TwoToType, TwoToIs DEF Weight
  <1>4. Weight(k + 1) = Base * Weight(k)
    <2>1. TwoTo[Bits + Bits * k] = TwoTo[Bits] * TwoTo[Bits * k]
      BY <1>1, Sizes, TwoToPlus
    <2> QED  BY <1>1, <2>1, Sizes DEF Weight
  <1>5. Weight(k + m) = Weight(k) * Weight(m)
    BY <1>1, TwoToPlus DEF Weight
  <1>6. k <= m => Weight(k) <= Weight(m)
    BY <1>1, <1>2, TwoToGrows DEF Weight
  <1> QED  BY <1>1, <1>3, <1>4, <1>5, <1>6

\* The same, of one word.
LEMMA WeightIs ==
    ASSUME NEW k \in Nat
    PROVE  /\ Weight(k) \in Nat /\ Weight(k) > 0 /\ Weight(0) = 1
           /\ Weight(k + 1) = Base * Weight(k)
           /\ Weight(k) \in Int /\ Bits * k \in Nat
  BY WeightPlus, SMT

\* What Value adds up: a word that is none counts for nothing.
ValueStep(x) ==
    [k \in Nat |-> [v \in Int |->
        IF k # 0 /\ x[k] \in Int THEN v + x[k] * Weight(k - 1) ELSE v]]

\* The value of an array is found word by word.
LEMMA ValueFound ==
    ASSUME NEW x, NEW f \in [Nat -> Int],
           \A m \in Nat : Steps(f, 0, ValueStep(x), m),
           NEW w \in Nat, \A k \in 1 .. w : x[k] \in Int
    PROVE  Value(x, w) = f[w]
  <1> DEFINE Is(g) == g = [k \in 0 .. w |-> IF k = 0 THEN 0
                                 ELSE g[k - 1] + x[k] * TwoTo[Bits * (k - 1)]]
             h == [k \in 0 .. w |-> f[k]]
  <1>1. ASSUME NEW k \in 1 .. w PROVE f[k] = f[k - 1] + x[k] * TwoTo[Bits * (k - 1)]
    <2>1. k \in Nat /\ k # 0 /\ k - 1 \in Nat /\ k \in 1 .. k
      BY SMT
    <2>2. f[k] = ValueStep(x)[k][f[k - 1]] /\ f[k - 1] \in Int
      BY <2>1 DEF Steps
    <2> QED  BY <2>1, <2>2 DEF ValueStep, Weight
  <1>2. Is(h)
    <2>1. f[0] = 0
      BY DEF Steps
    <2>2. ASSUME NEW k \in 0 .. w
          PROVE  h[k] = IF k = 0 THEN 0 ELSE h[k - 1] + x[k] * TwoTo[Bits * (k - 1)]
      <3>1. CASE k = 0
        BY <2>1, <3>1
      <3>2. CASE k # 0
        <4>1. k \in 1 .. w /\ k - 1 \in 0 .. w
          BY <3>2, SMT
        <4> QED  BY <3>2, <4>1, <1>1
      <3> QED  BY <3>1, <3>2
    <2> QED  BY <2>2
  <1>3. \E g : Is(g) /\ Value(x, w) = g[w]
    <2>1. Value(x, w) = (CHOOSE g : Is(g))[w]
      BY DEF Value
    <2> HIDE DEF Is, h
    <2>2. Is(CHOOSE g : Is(g))
      BY <1>2
    <2> QED  BY <2>1, <2>2
  <1>4. PICK g : Is(g) /\ Value(x, w) = g[w]
    BY <1>3
  <1>5. Steps(g, 0, ValueStep(x), w)
    <2>1. g[0] = 0 /\ 0 \in 0 .. w
      BY <1>4, SMT
    <2> DEFINE S == {k \in Nat : k <= w => g[k] \in Int}
    <2>2. ASSUME NEW k \in 1 .. w
          PROVE  /\ g[k] = g[k - 1] + x[k] * Weight(k - 1) /\ k - 1 \in Nat /\ k \in Nat /\ k # 0
                 /\ x[k] \in Int /\ Weight(k - 1) \in Int
      <3>1. k \in 0 .. w /\ k # 0 /\ k - 1 \in Nat /\ k \in Nat
        BY SMT
      <3>2. g[k] = g[k - 1] + x[k] * Weight(k - 1)
        BY <1>4, <3>1 DEF Weight
      <3>3. Weight(k - 1) \in Int
        BY <3>1, WeightIs
      <3> QED  BY <3>1, <3>2, <3>3
    <2>3. ASSUME NEW k \in Nat, k \in S PROVE k + 1 \in S
      <3>1. CASE k + 1 <= w
        <4>1. k + 1 \in 1 .. w /\ (k + 1) - 1 = k
          BY <3>1, SMT
        <4>2. g[k + 1] = g[k] + x[k + 1] * Weight(k) /\ x[k + 1] \in Int /\ Weight(k) \in Int
          BY <2>2, <4>1
        <4>3. g[k] \in Int
          BY <2>3, <4>1, <3>1, SMT
        <4> QED  BY <4>2, <4>3, SMT
      <3>2. CASE ~ (k + 1 <= w)
        BY <3>2
      <3> QED  BY <3>1, <3>2
    <2>4. 0 \in S
      BY <2>1
    <2>5. Nat \subseteq S
      <3> HIDE DEF S
      <3> QED  BY <2>3, <2>4, Induction
    <2>6. ASSUME NEW k \in 1 .. w PROVE g[k] = ValueStep(x)[k][g[k - 1]]
      <3>1. g[k - 1] \in Int
        <4>1. k - 1 <= w /\ k - 1 \in Nat
          BY SMT
        <4> QED  BY <2>5, <4>1
      <3> QED  BY <2>2, <3>1 DEF ValueStep
    <2> QED  BY <2>1, <2>6 DEF Steps
  <1>6. g[w] = f[w]
    <2>1. w \in 0 .. w
      BY SMT
    <2> QED  BY <1>5, <2>1, OneFunction
  <1> QED  BY <1>4, <1>6

\* The value of an array: nothing, and one word after the other.
LEMMA ValueIs ==
    ASSUME NEW x, NEW m \in Nat, \A k \in 1 .. m : x[k] \in Int
    PROVE  /\ Value(x, 0) = 0
           /\ \A w \in 0 .. m : Value(x, w) \in Int
           /\ \A w \in 0 .. m - 1 : Value(x, w + 1) = Value(x, w) + x[w + 1] * Weight(w)
  <1>1. ValueStep(x) \in [Nat -> [Int -> Int]]
    <2>1. ASSUME NEW k \in Nat, NEW v \in Int
          PROVE  (IF k # 0 /\ x[k] \in Int THEN v + x[k] * Weight(k - 1) ELSE v) \in Int
      <3>1. k # 0 => k - 1 \in Nat
        BY SMT
      <3>2. k # 0 => Weight(k - 1) \in Int
        BY <3>1, WeightIs
      <3> QED  BY <3>2, SMT
    <2> QED  BY <2>1 DEF ValueStep
  <1>2. PICK f \in [Nat -> Int] : \A p \in Nat : Steps(f, 0, ValueStep(x), p)
    <2>1. 0 \in Int
      BY SMT
    <2> QED  BY <1>1, <2>1, Recursion
  <1>3. \A w \in 0 .. m : Value(x, w) = f[w] /\ w \in Nat
    <2>1. ASSUME NEW w \in 0 .. m PROVE w \in Nat /\ \A k \in 1 .. w : k \in 1 .. m
      BY SMT
    <2> QED  BY <1>2, <2>1, ValueFound
  <1>4. \A w \in 0 .. m : Value(x, w) \in Int
    BY <1>3
  <1>5. Value(x, 0) = 0
    <2>1. 0 \in 0 .. m /\ f[0] = 0
      BY <1>2, SMT DEF Steps
    <2> QED  BY <1>3, <2>1
  <1>6. ASSUME NEW w \in 0 .. m - 1
        PROVE  Value(x, w + 1) = Value(x, w) + x[w + 1] * Weight(w)
    <2>1. /\ w \in 0 .. m /\ w + 1 \in 0 .. m /\ w + 1 \in 1 .. w + 1 /\ (w + 1) - 1 = w
          /\ w + 1 \in Nat /\ w + 1 # 0 /\ w + 1 \in 1 .. m
      BY SMT
    <2>2. f[w + 1] = ValueStep(x)[w + 1][f[w]] /\ f[w] \in Int
      BY <1>2, <1>3, <2>1 DEF Steps
    <2>3. f[w + 1] = f[w] + x[w + 1] * Weight(w)
      BY <2>1, <2>2 DEF ValueStep
    <2> QED  BY <1>3, <2>1, <2>3
  <1> QED  BY <1>4, <1>5, <1>6

\* The value of words is below the weight of the next.
LEMMA ValueOfWords ==
    ASSUME NEW x, NEW m \in Nat, Words(x, m)
    PROVE  /\ Value(x, 0) = 0
           /\ \A w \in 0 .. m : Value(x, w) \in 0 .. Weight(w) - 1
           /\ \A w \in 0 .. m - 1 :
                 Value(x, w + 1) = Value(x, w) + x[w + 1] * Weight(w)
  <1>1. \A k \in 1 .. m : x[k] \in Int
    BY Sizes, SMT DEF Words, Word
  <1>2. /\ Value(x, 0) = 0 /\ \A w \in 0 .. m : Value(x, w) \in Int
        /\ \A w \in 0 .. m - 1 : Value(x, w + 1) = Value(x, w) + x[w + 1] * Weight(w)
    BY <1>1, ValueIs
  <1> DEFINE S == {w \in Nat : w <= m => Value(x, w) \in 0 .. Weight(w) - 1}
  <1>3. 0 \in S
    <2>1. 0 \in Nat /\ Weight(0) = 1
      BY WeightIs, SMT
    <2> QED  BY <1>2, <2>1, SMT
  <1>4. ASSUME NEW w \in Nat, w \in S PROVE w + 1 \in S
    <2>1. CASE w + 1 <= m
      <3>1. w \in 0 .. m - 1 /\ w + 1 \in 1 .. m /\ w <= m
        BY <2>1, SMT
      <3>2. PICK v \in Int, y \in 0 .. Base - 1, g \in Nat :
               /\ v = Value(x, w) /\ y = x[w + 1] /\ g = Weight(w) /\ v \in 0 .. g - 1
        <4>1. x[w + 1] \in 0 .. Base - 1
          BY <3>1 DEF Words, Word
        <4>2. Weight(w) \in Nat
          BY WeightIs
        <4>3. Value(x, w) \in 0 .. Weight(w) - 1
          BY <3>1, <1>4
        <4> QED  BY <4>1, <4>2, <4>3, SMT
      <3>3. v + y * g >= 0 /\ v + y * g < Base * g /\ v + y * g \in Int
        <4>1. y + 1 <= Base /\ y + 1 \in Int /\ Base \in Int
          BY <3>2, Sizes, SMT
        <4>2. (y + 1) * g <= Base * g
          BY <3>2, <4>1, LessTimes
        <4>3. (y + 1) * g = y * g + g
          BY <3>2, Sizes, SMT
        <4>4. y * g \in Nat
          BY <3>2, Sizes, SMT
        <4>5. Base * g \in Int
          BY <3>2, Sizes, SMT
        <4> QED  BY <3>2, <4>2, <4>3, <4>4, <4>5, SMT
      <3>4. Value(x, w + 1) = v + y * g /\ Weight(w + 1) = Base * g
        BY <1>2, <3>1, <3>2, WeightIs
      <3>5. Base * g \in Int
        BY <3>2, Sizes, SMT
      <3> QED  BY <3>3, <3>4, <3>5, SMT
    <2>2. CASE ~ (w + 1 <= m)
      BY <2>2
    <2> QED  BY <2>1, <2>2
  <1>5. Nat \subseteq S
    <2> HIDE DEF S
    <2> QED  BY <1>3, <1>4, Induction
  <1> QED  BY <1>2, <1>5, SMT

\* The same, of the first w words.
LEMMA ValueInt ==
    ASSUME NEW x, NEW m \in Nat, Words(x, m), NEW w \in 0 .. m
    PROVE  Value(x, w) \in Int /\ Value(x, w) \in Nat /\ Value(x, w) < Weight(w)
  <1>1. Value(x, w) \in 0 .. Weight(w) - 1 /\ Weight(w) \in Nat
    <2>1. w \in Nat
      BY SMT
    <2> QED  BY <2>1, ValueOfWords, WeightIs
  <1> QED  BY <1>1, SMT

\* The value depends on the words and on nothing else.
LEMMA ValueSame ==
    ASSUME NEW x, NEW y, NEW m \in Nat, Words(x, m), \A k \in 1 .. m : y[k] = x[k]
    PROVE  /\ Words(y, m) /\ \A w \in 0 .. m : Value(y, w) = Value(x, w)
  <1>1. Words(y, m)
    BY DEF Words
  <1> DEFINE S == {w \in Nat : w <= m => Value(y, w) = Value(x, w)}
  <1>2. 0 \in S
    BY <1>1, ValueOfWords
  <1>3. ASSUME NEW w \in Nat, w \in S PROVE w + 1 \in S
    <2>1. CASE w + 1 <= m
      <3>1. w \in 0 .. m - 1 /\ w + 1 \in 1 .. m /\ w <= m
        BY <2>1, SMT
      <3>2. /\ Value(x, w + 1) = Value(x, w) + x[w + 1] * Weight(w)
            /\ Value(y, w + 1) = Value(y, w) + y[w + 1] * Weight(w)
        BY <1>1, <3>1, ValueOfWords
      <3> QED  BY <1>3, <3>1, <3>2
    <2>2. CASE ~ (w + 1 <= m)
      BY <2>2
    <2> QED  BY <2>1, <2>2
  <1>4. Nat \subseteq S
    <2> HIDE DEF S
    <2> QED  BY <1>2, <1>3, Induction
  <1> QED  BY <1>1, <1>4, SMT

\* What a word adds to the number of the words below it.
LEMMA ValueTop ==
    ASSUME NEW x, NEW m \in Nat, Words(x, m), NEW k \in 1 .. m
    PROVE  /\ Value(x, k) = Value(x, k - 1) + x[k] * Weight(k - 1)
           /\ Value(x, k) \in Nat /\ Value(x, k - 1) \in Nat /\ Weight(k - 1) \in Nat
           /\ Value(x, k - 1) < Weight(k - 1) /\ Value(x, k - 1) <= Value(x, k)
           /\ x[k] * Weight(k - 1) <= Value(x, k)
           /\ Value(x, k) < (x[k] + 1) * Weight(k - 1)
           /\ x[k] >= 1 => Weight(k - 1) <= Value(x, k)
           /\ x[k] \in 0 .. Base - 1
  <1>1. k - 1 \in 0 .. m - 1 /\ k - 1 \in 0 .. m /\ k \in 0 .. m /\ (k - 1) + 1 = k
        /\ k - 1 \in Nat /\ k \in Nat
    BY SMT
  <1>2. Value(x, k) = Value(x, k - 1) + x[k] * Weight(k - 1)
    BY <1>1, ValueOfWords
  <1>3. Value(x, k) \in Nat /\ Value(x, k - 1) \in 0 .. Weight(k - 1) - 1
    BY <1>1, ValueOfWords, SMT
  <1>4. Weight(k - 1) \in Nat
    BY <1>1, WeightIs
  <1>5. x[k] \in 0 .. Base - 1
    BY DEF Words, Word
  <1>6. ASSUME NEW v \in Nat, NEW y \in Nat, NEW g \in Nat, v < g
        PROVE  /\ y * g <= v + y * g /\ v + y * g < (y + 1) * g /\ v <= v + y * g
               /\ y >= 1 => g <= v + y * g
    <2>1. y * g \in Nat /\ (y + 1) * g = y * g + g
      BY SMT
    <2>2. y >= 1 => g <= y * g
      <3>1. y >= 1 => (y - 1) * g >= 0
        BY SMT
      <3> QED  BY <3>1, SMT
    <2> QED  BY <1>6, <2>1, <2>2, SMT
  <1>7. x[k] \in Nat /\ Value(x, k - 1) \in Nat /\ Value(x, k - 1) < Weight(k - 1)
    BY <1>3, <1>4, <1>5, SMT
  <1>8. /\ x[k] * Weight(k - 1) <= Value(x, k - 1) + x[k] * Weight(k - 1)
        /\ Value(x, k - 1) + x[k] * Weight(k - 1) < (x[k] + 1) * Weight(k - 1)
        /\ Value(x, k - 1) <= Value(x, k - 1) + x[k] * Weight(k - 1)
        /\ x[k] >= 1 => Weight(k - 1) <= Value(x, k - 1) + x[k] * Weight(k - 1)
    BY <1>4, <1>6, <1>7
  <1> QED  BY <1>2, <1>3, <1>4, <1>5, <1>7, <1>8

\* More words make no smaller number.
LEMMA ValueGrows ==
    ASSUME NEW x, NEW m \in Nat, Words(x, m), NEW p \in 0 .. m
    PROVE  Value(x, p) <= Value(x, m)
  <1> DEFINE S == {k \in Nat : p + k <= m => Value(x, p) <= Value(x, p + k)}
  <1>1. p \in Nat /\ Value(x, p) \in Int
    BY ValueOfWords, SMT
  <1>2. 0 \in S
    BY <1>1, SMT
  <1>3. ASSUME NEW k \in Nat, k \in S PROVE k + 1 \in S
    <2>1. CASE p + (k + 1) <= m
      <3>1. p + (k + 1) \in 1 .. m /\ (p + (k + 1)) - 1 = p + k /\ p + k <= m
        BY <1>1, <2>1, SMT
      <3>2. /\ Value(x, p + k) <= Value(x, p + (k + 1))
            /\ Value(x, p + k) \in Nat /\ Value(x, p + (k + 1)) \in Nat
        BY <3>1, ValueTop
      <3> QED  BY <1>1, <1>3, <3>1, <3>2, SMT
    <2>2. CASE ~ (p + (k + 1) <= m)
      BY <2>2
    <2> QED  BY <2>1, <2>2
  <1>4. Nat \subseteq S
    <2> HIDE DEF S
    <2> QED  BY <1>2, <1>3, Induction
  <1>5. m - p \in S /\ p + (m - p) = m
    BY <1>1, <1>4, SMT
  <1> QED  BY <1>5, SMT

\* The value is that of the first words exactly when the others are zero.
LEMMA ValueShort ==
    ASSUME NEW x, NEW m \in Nat, Words(x, m), NEW p \in 0 .. m
    PROVE  /\ (\A k \in p + 1 .. m : x[k] = 0) => Value(x, m) = Value(x, p)
           /\ Value(x, m) < Weight(p) => \A k \in p + 1 .. m : x[k] = 0
  <1>1. p \in Nat /\ Value(x, p) \in Int
    BY ValueOfWords, SMT
  <1>2. ASSUME \A k \in p + 1 .. m : x[k] = 0 PROVE Value(x, m) = Value(x, p)
    <2> DEFINE S == {k \in Nat : p + k <= m => Value(x, p + k) = Value(x, p)}
    <2>1. 0 \in S
      BY <1>1, SMT
    <2>2. ASSUME NEW k \in Nat, k \in S PROVE k + 1 \in S
      <3>1. CASE p + (k + 1) <= m
        <4>1. /\ p + (k + 1) \in 1 .. m /\ (p + (k + 1)) - 1 = p + k /\ p + k <= m
              /\ p + (k + 1) \in p + 1 .. m
          BY <1>1, <3>1, SMT
        <4>2. /\ Value(x, p + (k + 1)) = Value(x, p + k) + x[p + (k + 1)] * Weight(p + k)
              /\ Value(x, p + k) \in Nat /\ Weight(p + k) \in Nat
          BY <4>1, ValueTop
        <4>3. x[p + (k + 1)] = 0
          BY <1>2, <4>1
        <4>4. Value(x, p + (k + 1)) = Value(x, p + k)
          BY <4>2, <4>3, SMT
        <4> QED  BY <2>2, <4>1, <4>4
      <3>2. CASE ~ (p + (k + 1) <= m)
        BY <3>2
      <3> QED  BY <3>1, <3>2
    <2>3. Nat \subseteq S
      <3> HIDE DEF S
      <3> QED  BY <2>1, <2>2, Induction
    <2>4. m - p \in S /\ p + (m - p) = m
      BY <1>1, <2>3, SMT
    <2> QED  BY <2>4, SMT
  <1>3. ASSUME Value(x, m) < Weight(p), NEW k \in p + 1 .. m PROVE x[k] = 0
    <2>1. k \in 1 .. m /\ k \in 0 .. m /\ k - 1 \in Nat /\ p <= k - 1
      BY <1>1, SMT
    <2>2. /\ x[k] >= 1 => Weight(k - 1) <= Value(x, k)
          /\ x[k] \in 0 .. Base - 1 /\ Value(x, k) \in Nat /\ Weight(k - 1) \in Nat
      BY <2>1, ValueTop
    <2>3. Value(x, k) <= Value(x, m) /\ Weight(p) <= Weight(k - 1)
      BY <1>1, <2>1, ValueGrows, WeightPlus
    <2>4. Value(x, m) \in Nat /\ Weight(p) \in Nat
      <3>1. m \in 0 .. m
        BY SMT
      <3>2. Value(x, m) \in 0 .. Weight(m) - 1 /\ Weight(p) \in Nat
        BY <1>1, <3>1, ValueOfWords, WeightIs
      <3> QED  BY <3>2, SMT
    <2> QED  BY <1>3, <2>2, <2>3, <2>4, Sizes, SMT
  <1> QED  BY <1>2, <1>3

\* Zeros in front do not count.
LEMMA ValueLow ==
    ASSUME NEW x, NEW m \in Nat, Words(x, m), NEW p \in 0 .. m,
           Value(x, m) < Weight(p)
    PROVE  Value(x, p) = Value(x, m)
  BY ValueShort

-----------------------------------------------------------------------------
(* Loops that hand a carry on, and the halves of a word.                     *)

\* A loop that hands on a carry hands on a word at each turn.
LEMMA LoopIs ==
    ASSUME NEW m \in Nat, NEW step \in [1 .. m -> [Word -> Int \X Word]]
    PROVE  \E c \in [0 .. m -> Word] :
              /\ c[0] = 0 /\ \A k \in 1 .. m : c[k] = step[k][c[k - 1]][2]
              /\ Loop(step, m) = [words |-> [k \in 1 .. m |-> step[k][c[k - 1]][1]],
                                  carry |-> c[m]]
  <1> DEFINE Is(g) == g = [k \in 0 .. m |-> IF k = 0 THEN 0 ELSE step[k][g[k - 1]][2]]
             next == [k \in Nat |-> [v \in Word |->
                         IF k \in 1 .. m THEN step[k][v][2] ELSE v]]
  <1>1. 0 \in Word
    BY Sizes, SMT DEF Word
  <1>2. ASSUME NEW k \in 1 .. m, NEW v \in Word PROVE step[k][v][2] \in Word
    <2>1. step[k] \in [Word -> Int \X Word]
      OBVIOUS
    <2>2. step[k][v] \in Int \X Word
      BY <2>1
    <2> QED  BY <2>2
  <1>3. next \in [Nat -> [Word -> Word]]
    BY <1>2
  <1>4. PICK f \in [Nat -> Word] : \A p \in Nat : Steps(f, 0, next, p)
    <2> HIDE DEF next
    <2> QED  BY <1>1, <1>3, Recursion
  <1>5. Is([k \in 0 .. m |-> f[k]])
    <2>1. f[0] = 0
      BY <1>4 DEF Steps
    <2>2. ASSUME NEW k \in 1 .. m
          PROVE  f[k] = step[k][f[k - 1]][2] /\ k - 1 \in 0 .. m
      <3>1. k \in Nat /\ k \in 1 .. k /\ k - 1 \in Nat /\ k - 1 \in 0 .. m
        BY SMT
      <3>2. f[k] = next[k][f[k - 1]] /\ f[k - 1] \in Word
        BY <1>4, <3>1 DEF Steps
      <3> QED  BY <3>1, <3>2
    <2>3. \A k \in 0 .. m : k = 0 \/ k \in 1 .. m
      BY SMT
    <2> QED  BY <2>1, <2>2, <2>3
  <1>6. \E g : Is(g) /\ Loop(step, m) = [words |-> [k \in 1 .. m |-> step[k][g[k - 1]][1]],
                                        carry |-> g[m]]
    <2> DEFINE c == CHOOSE g : Is(g)
    <2>1. Loop(step, m) = [words |-> [k \in 1 .. m |-> step[k][c[k - 1]][1]],
                           carry |-> c[m]]
      BY DEF Loop
    <2> HIDE DEF Is
    <2>2. Is(c)
      BY <1>5
    <2> HIDE DEF c
    <2> QED  BY <2>1, <2>2
  <1>7. PICK c : Is(c) /\ Loop(step, m) = [words |-> [k \in 1 .. m |-> step[k][c[k - 1]][1]],
                                         carry |-> c[m]]
    BY <1>6
  <1>8. c[0] = 0 /\ \A k \in 1 .. m : c[k] = step[k][c[k - 1]][2]
    <2>1. 0 \in 0 .. m /\ \A k \in 1 .. m : k \in 0 .. m /\ k # 0
      BY SMT
    <2> QED  BY <1>7, <2>1
  <1> DEFINE S == {k \in Nat : k <= m => c[k] \in Word}
  <1>9. 0 \in S
    BY <1>1, <1>8
  <1>10. ASSUME NEW k \in Nat, k \in S PROVE k + 1 \in S
    <2>1. CASE k + 1 <= m
      <3>1. k + 1 \in 1 .. m /\ (k + 1) - 1 = k /\ k <= m
        BY <2>1, SMT
      <3>2. c[k + 1] = step[k + 1][c[k]][2]
        BY <1>8, <3>1
      <3>3. c[k] \in Word
        BY <1>10, <3>1
      <3>4. step[k + 1][c[k]][2] \in Word
        BY <1>2, <3>1, <3>3
      <3> QED  BY <3>2, <3>4
    <2>2. CASE ~ (k + 1 <= m)
      BY <2>2
    <2> QED  BY <2>1, <2>2
  <1>11. Nat \subseteq S
    <2> HIDE DEF S
    <2> QED  BY <1>9, <1>10, Induction
  <1>12. c \in [0 .. m -> Word]
    <2>1. DOMAIN c = 0 .. m /\ c = [k \in 0 .. m |-> c[k]]
      BY <1>7
    <2>2. \A k \in 0 .. m : c[k] \in Word
      BY <1>11, SMT
    <2> QED  BY <2>1, <2>2
  <1> HIDE DEF Is
  <1> QED  BY <1>7, <1>8, <1>12

\* A word and its two halves.
LEMMA Halves ==
    ASSUME NEW w \in Nat
    PROVE  /\ Low(w) \in 0 .. Half - 1 /\ High(w) \in Nat
           /\ w = High(w) * Half + Low(w)
           /\ w < Base => High(w) < Half /\ w % Base = w
           /\ w < 2 * Half => High(w) \in 0 .. 1
  <1>1. Low(w) \in 0 .. Half - 1 /\ High(w) \in Nat /\ w = High(w) * Half + Low(w)
    BY Sizes, Divided, SMT DEF Low, High
  <1>2. ASSUME NEW y \in Nat, w < y * Half PROVE High(w) < y
    <2>1. High(w) * Half <= w /\ High(w) * Half \in Nat /\ y * Half \in Nat
      BY <1>1, Sizes, SMT
    <2>2. High(w) * Half < y * Half
      BY <1>2, <2>1, SMT
    <2> QED  BY <1>1, <2>2, Sizes, LessTimes
  <1>3. w < Base => w % Base = w
    BY Sizes, CongruentIs, SMT
  <1>4. w < Base => High(w) < Half
    BY <1>2, Sizes
  <1>5. w < 2 * Half => High(w) < 2
    BY <1>2, SMT
  <1> QED  BY <1>1, <1>3, <1>4, <1>5, SMT

\* The operations on halves give words.
LEMMA WordIs ==
    /\ Word = 0 .. Base - 1 /\ Base \in Nat /\ Base >= 4
    /\ \A w \in Int : w % Base \in Word
    /\ \A w \in Nat : Low(w) \in Word /\ High(w) \in Nat
    /\ \A w \in Word : w \in Nat /\ High(w) \in Word
    /\ \A v \in Nat, w \in Nat : Join(v, w) \in Int
  <1>1. /\ Word = 0 .. Base - 1 /\ Base \in Nat /\ Base >= 4 /\ Base >= Half
        /\ Half \in Nat
    BY Sizes, SMT DEF Word
  <1>2. ASSUME NEW w \in Int PROVE w % Base \in Word
    BY <1>1, Divided, SMT
  <1>3. ASSUME NEW w \in Nat PROVE Low(w) \in Word /\ High(w) \in Nat
    <2>1. Low(w) \in 0 .. Half - 1 /\ High(w) \in Nat
      BY Halves
    <2> QED  BY <1>1, <2>1, SMT
  <1>4. ASSUME NEW w \in Word PROVE w \in Nat /\ High(w) \in Word
    <2>1. w \in Nat /\ w < Base
      BY <1>1, SMT
    <2>2. High(w) \in Nat /\ High(w) < Half
      BY <2>1, Halves
    <2> QED  BY <1>1, <2>1, <2>2, SMT
  <1>5. ASSUME NEW v \in Nat, NEW w \in Nat PROVE Join(v, w) \in Int
    <2>1. Low(v) \in Int /\ Low(w) \in Int
      <3>1. Low(v) \in 0 .. Half - 1 /\ Low(w) \in 0 .. Half - 1
        BY Halves
      <3> QED  BY <1>1, <3>1, SMT
    <2> QED  BY <2>1, Sizes, SMT DEF Join
  <1> QED  BY <1>1, <1>2, <1>3, <1>4, <1>5

\* Halves are natural numbers.
LEMMA LowIsNat ==
    ASSUME NEW w \in Nat
    PROVE  Low(w) \in Nat /\ High(w) \in Nat
  <1>1. \A v \in Word : v \in Nat
    BY WordIs
  <1> QED  BY <1>1, WordIs

\* Sums and products cut to a word are natural numbers.
LEMMA Sums ==
    ASSUME NEW a \in Nat, NEW b \in Nat, NEW c \in Nat
    PROVE  (a + b + c) % Base \in Nat /\ (a * b) % Base \in Nat /\ (a + b) % Base \in Nat
  <1>1. a + b + c \in Int /\ a * b \in Int /\ a + b \in Int
    BY SMT
  <1>2. \A w \in Word : w \in Nat
    BY WordIs
  <1> QED  BY <1>1, <1>2, WordIs

\* One turn of addbignum.
AddLow(a, b, c) == (Low(a) + Low(b) + c) % Base
AddHigh(a, b, c) == (High(a) + High(b) + High(AddLow(a, b, c))) % Base
AddWord(a, b, c) == Join(AddHigh(a, b, c), AddLow(a, b, c))
AddCarry(a, b, c) == High(AddHigh(a, b, c))

\* One turn of addbignum: word and carry hold the whole sum (rsa.c:43-50).
LEMMA AddTurn ==
    ASSUME NEW a \in 0 .. Base - 1, NEW b \in 0 .. Base - 1, NEW c \in 0 .. 1
    PROVE  /\ AddWord(a, b, c) \in 0 .. Base - 1 /\ AddCarry(a, b, c) \in 0 .. 1
           /\ (a + b) + c = AddWord(a, b, c) + AddCarry(a, b, c) * Base
  <1>p. PICK low \in Nat, high \in Nat : low = AddLow(a, b, c) /\ high = AddHigh(a, b, c)
    <2>1. a \in Nat /\ b \in Nat /\ c \in Nat
      BY WordIs, SMT
    <2>2. AddLow(a, b, c) \in Nat
      BY <2>1, LowIsNat, Sums DEF AddLow
    <2>3. AddHigh(a, b, c) \in Nat
      BY <2>1, <2>2, LowIsNat, Sums DEF AddHigh
    <2> QED  BY <2>2, <2>3
  <1>e. low = (Low(a) + Low(b) + c) % Base /\ high = (High(a) + High(b) + High(low)) % Base
    BY <1>p DEF AddLow, AddHigh
  <1>1. a \in Nat /\ b \in Nat /\ a < Base /\ b < Base
    BY Sizes, SMT
  <1>0. PICK h \in Nat : h = Half
    BY Sizes
  <1>2. PICK a0 \in 0 .. h - 1, a1 \in 0 .. h - 1, b0 \in 0 .. h - 1, b1 \in 0 .. h - 1 :
           /\ h = Half /\ a0 = Low(a) /\ a1 = High(a) /\ b0 = Low(b) /\ b1 = High(b)
           /\ a = a1 * h + a0 /\ b = b1 * h + b0
    <2>1. /\ Low(a) \in 0 .. Half - 1 /\ High(a) \in Nat /\ High(a) < Half
          /\ a = High(a) * Half + Low(a)
      BY <1>1, Halves
    <2>2. /\ Low(b) \in 0 .. Half - 1 /\ High(b) \in Nat /\ High(b) < Half
          /\ b = High(b) * Half + Low(b)
      BY <1>1, Halves
    <2>3. High(a) \in 0 .. h - 1 /\ High(b) \in 0 .. h - 1
      BY <1>0, <2>1, <2>2, SMT
    <2> QED  BY <1>0, <2>1, <2>2, <2>3
  <1>3. h >= 2 /\ 2 * h <= Base /\ Base = h * h
    BY <1>2, Sizes
  <1>4. low = a0 + b0 + c /\ low \in Nat /\ low < 2 * h
    <2>1. a0 + b0 + c \in Nat /\ a0 + b0 + c < 2 * h /\ a0 + b0 + c < Base
      BY <1>3, Sizes, SMT
    <2> QED  BY <1>e, <1>2, <2>1, Halves
  <1>5. PICK l0 \in 0 .. h - 1, h0 \in 0 .. 1 : l0 = Low(low) /\ h0 = High(low) /\ low = h0 * h + l0
    BY <1>2, <1>4, Halves
  <1>6. high = a1 + b1 + h0 /\ high \in Nat /\ high < 2 * h
    <2>1. a1 + b1 + h0 \in Nat /\ a1 + b1 + h0 < 2 * h /\ a1 + b1 + h0 < Base
      BY <1>3, Sizes, SMT
    <2> QED  BY <1>e, <1>2, <1>5, <2>1, Halves
  <1>7. PICK l1 \in 0 .. h - 1, d \in 0 .. 1 : l1 = Low(high) /\ d = High(high) /\ high = d * h + l1
    BY <1>2, <1>6, Halves
  <1>8. Join(high, low) = l1 * h + l0
    BY <1>2, <1>5, <1>7 DEF Join
  <1>9. l1 * h + l0 >= 0 /\ l1 * h + l0 < h * h /\ l1 * h + l0 \in Int
    <2>1. (l1 + 1) * h <= h * h
      BY LessTimes, SMT
    <2>2. (l1 + 1) * h = l1 * h + h /\ l1 * h \in Nat /\ h * h \in Nat
      BY SMT
    <2> QED  BY <2>1, <2>2, SMT
  <1>10. a + b + c = l1 * h + l0 + d * (h * h)
    <2>1. a0 + b0 + c = h0 * h + l0 /\ a1 + b1 + h0 = d * h + l1
      BY <1>4, <1>5, <1>6, <1>7, Zenon
    <2>t. /\ h \in Int /\ a0 \in Int /\ a1 \in Int /\ b0 \in Int /\ b1 \in Int /\ c \in Int
          /\ h0 \in Int /\ l0 \in Int /\ l1 \in Int /\ d \in Int
      BY SMT
    <2>2. (a1 * h + a0) + (b1 * h + b0) + c = (a1 + b1) * h + (h0 * h + l0)
      BY <2>t, <2>1, SMT
    <2>3. (a1 + b1) * h + h0 * h = (a1 + b1 + h0) * h
      BY <2>t, SMT
    <2>4. (d * h + l1) * h = d * (h * h) + l1 * h
      BY <2>t, SMT
    <2>5. (a1 * h + a0) + (b1 * h + b0) + c = l1 * h + l0 + d * (h * h)
      BY <2>t, <2>1, <2>2, <2>3, <2>4, SMT
    <2> QED  BY <1>2, <2>5, Zenon
  <1>11. AddWord(a, b, c) = Join(high, low) /\ AddCarry(a, b, c) = High(high)
    BY <1>p DEF AddWord, AddCarry
  <1>12. AddWord(a, b, c) = l1 * h + l0 /\ AddCarry(a, b, c) = d
    BY <1>7, <1>8, <1>11
  <1>13. l1 * h + l0 \in 0 .. Base - 1
    BY <1>0, <1>3, <1>9, SMT
  <1>14. d * (h * h) = d * Base
    BY <1>3
  <1> QED  BY <1>7, <1>10, <1>12, <1>13, <1>14, Zenon

\* One turn of multbignum.
MultLow(a, b, c) == (Low((Low(a) * b) % Base) + c) % Base
MultHigh(a, b, c) ==
    (Low((High(a) * b) % Base) + High((Low(a) * b) % Base) + High(MultLow(a, b, c))) % Base
MultWord(a, b, c) == Join(MultHigh(a, b, c), MultLow(a, b, c))
MultCarry(a, b, c) == Carry2(High((High(a) * b) % Base), MultHigh(a, b, c))

\* One turn of multbignum: word and carry hold the whole product and the old carry, and
\* the two carries out of the high half never exceed half a word (rsa.c:61-71).
LEMMA MultTurn ==
    ASSUME NEW a \in 0 .. Base - 1, NEW b \in 0 .. Half - 1, NEW c \in 0 .. Half - 1
    PROVE  /\ MultWord(a, b, c) \in 0 .. Base - 1 /\ MultCarry(a, b, c) \in 0 .. Half - 1
           /\ a * b + c = MultWord(a, b, c) + MultCarry(a, b, c) * Base
  <1>p. PICK f \in Nat, g \in Nat, low \in Nat, high \in Nat :
           /\ f = (Low(a) * b) % Base /\ g = (High(a) * b) % Base
           /\ low = MultLow(a, b, c) /\ high = MultHigh(a, b, c)
    <2>1. a \in Nat /\ b \in Nat /\ c \in Nat
      BY WordIs, Sizes, SMT
    <2>2. (Low(a) * b) % Base \in Nat /\ (High(a) * b) % Base \in Nat
      BY <2>1, LowIsNat, Sums
    <2>3. MultLow(a, b, c) \in Nat
      BY <2>1, <2>2, LowIsNat, Sums DEF MultLow
    <2>4. MultHigh(a, b, c) \in Nat
      BY <2>2, <2>3, LowIsNat, Sums DEF MultHigh
    <2> QED  BY <2>2, <2>3, <2>4
  <1>e. /\ f = (Low(a) * b) % Base /\ g = (High(a) * b) % Base
        /\ low = (Low(f) + c) % Base /\ high = (Low(g) + High(f) + High(low)) % Base
        /\ MultWord(a, b, c) = Join(high, low) /\ MultCarry(a, b, c) = Carry2(High(g), high)
    BY <1>p DEF MultLow, MultHigh, MultWord, MultCarry
  <1>1. a \in Nat /\ a < Base
    BY Sizes, SMT
  <1>0. PICK h \in Nat : h = Half
    BY Sizes
  <1>2. PICK a0 \in 0 .. h - 1, a1 \in 0 .. h - 1 :
           /\ h = Half /\ a0 = Low(a) /\ a1 = High(a) /\ a = a1 * h + a0
    <2>1. Half \in Nat /\ Low(a) \in 0 .. Half - 1 /\ High(a) \in 0 .. Half - 1
      BY <1>1, Halves, Sizes, SMT
    <2> QED  BY <1>0, <1>1, <2>1, Halves
  <1>3. h >= 2 /\ 2 * h <= Base /\ Base = h * h /\ b \in 0 .. h - 1 /\ c \in 0 .. h - 1
    BY <1>2, Sizes
  <1>4. ASSUME NEW y \in 0 .. h - 1 PROVE y * b \in Nat /\ y * b < h * h
    <2>1. y * b <= y * h
      <3>1. y * (h - b) >= 0
        BY <1>3, SMT
      <3> QED  BY <3>1, <1>3, SMT
    <2>2. y * h < h * h
      BY <1>3, LessTimes, SMT
    <2>3. y * b \in Nat /\ y * h \in Nat /\ h * h \in Nat
      BY <1>3, SMT
    <2> QED  BY <2>1, <2>2, <2>3, SMT
  <1>5. f = a0 * b /\ f \in Nat /\ f < Base
    BY <1>e, <1>2, <1>3, <1>4, Halves, ZenonT(60)
  <1>6. g = a1 * b /\ g \in Nat /\ g < Base
    BY <1>e, <1>2, <1>3, <1>4, Halves, ZenonT(60)
  <1>7. PICK f0 \in 0 .. h - 1, f1 \in 0 .. h - 1 : f0 = Low(f) /\ f1 = High(f) /\ f = f1 * h + f0
    <2>1. Low(f) \in 0 .. h - 1 /\ High(f) \in 0 .. h - 1 /\ f = High(f) * h + Low(f)
      BY <1>2, <1>5, Halves, SMT
    <2> QED  BY <2>1
  <1>8. PICK g0 \in 0 .. h - 1, g1 \in 0 .. h - 1 : g0 = Low(g) /\ g1 = High(g) /\ g = g1 * h + g0
    <2>1. Low(g) \in 0 .. h - 1 /\ High(g) \in 0 .. h - 1 /\ g = High(g) * h + Low(g)
      BY <1>2, <1>6, Halves, SMT
    <2> QED  BY <2>1
  <1>9. low = f0 + c /\ low \in Nat /\ low < 2 * h
    <2>1. f0 + c \in Nat /\ f0 + c < 2 * h /\ f0 + c < Base
      BY <1>3, Sizes, SMT
    <2> QED  BY <1>e, <1>7, <2>1, Halves
  <1>10. PICK l0 \in 0 .. h - 1, h0 \in 0 .. 1 : l0 = Low(low) /\ h0 = High(low) /\ low = h0 * h + l0
    BY <1>2, <1>9, Halves
  <1>11. high = g0 + f1 + h0 /\ high \in Nat /\ high < 2 * h
    <2>1. g0 + f1 + h0 \in Nat /\ g0 + f1 + h0 < 2 * h /\ g0 + f1 + h0 < Base
      BY <1>3, Sizes, SMT
    <2> QED  BY <1>e, <1>7, <1>8, <1>10, <2>1, Halves
  <1>12. PICK l1 \in 0 .. h - 1, d \in 0 .. 1 : l1 = Low(high) /\ d = High(high) /\ high = d * h + l1
    BY <1>2, <1>11, Halves
  <1>13. Carry2(High(g), high) = g1 + d
    <2>1. g1 + d \in Nat /\ g1 + d < Base
      BY <1>3, Sizes, SMT
    <2> QED  BY <1>8, <1>12, <2>1, Halves DEF Carry2
  <1>14. Join(high, low) = l1 * h + l0
    BY <1>2, <1>10, <1>12 DEF Join
  <1>15. l1 * h + l0 >= 0 /\ l1 * h + l0 < h * h /\ l1 * h + l0 \in Int
    <2>1. (l1 + 1) * h <= h * h
      BY LessTimes, SMT
    <2>2. (l1 + 1) * h = l1 * h + h /\ l1 * h \in Nat /\ h * h \in Nat
      BY SMT
    <2> QED  BY <2>1, <2>2, SMT
  <1>16. a * b + c = l1 * h + l0 + (g1 + d) * (h * h)
    <2>1. a0 * b = f1 * h + f0 /\ a1 * b = g1 * h + g0
      BY <1>5, <1>6, <1>7, <1>8, Zenon
    <2>2. f0 + c = h0 * h + l0 /\ g0 + f1 + h0 = d * h + l1
      BY <1>9, <1>10, <1>11, <1>12, Zenon
    <2>t. /\ h \in Int /\ a0 \in Int /\ a1 \in Int /\ b \in Int /\ c \in Int /\ f0 \in Int
          /\ f1 \in Int /\ g0 \in Int /\ g1 \in Int /\ h0 \in Int /\ l0 \in Int /\ l1 \in Int
          /\ d \in Int
      BY <1>3, SMT
    <2>3. (a1 * h + a0) * b = (a1 * b) * h + a0 * b
      BY <2>t, SMT
    <2>4. (g1 * h + g0) * h = g1 * (h * h) + g0 * h
      BY <2>t, SMT
    <2>5. (d * h + l1) * h = d * (h * h) + l1 * h
      BY <2>t, SMT
    <2>6. (g0 + f1 + h0) * h = g0 * h + f1 * h + h0 * h
      BY <2>t, SMT
    <2>7. (g1 + d) * (h * h) = g1 * (h * h) + d * (h * h)
      BY <2>t, SMT
    <2>8. /\ g1 * (h * h) \in Int /\ d * (h * h) \in Int /\ g0 * h \in Int /\ f1 * h \in Int
          /\ h0 * h \in Int /\ l1 * h \in Int
      BY <2>t, SMT
    <2>9. (a1 * h + a0) * b + c = l1 * h + l0 + (g1 + d) * (h * h)
      BY <2>t, <2>1, <2>2, <2>3, <2>4, <2>5, <2>6, <2>7, <2>8, SMT
    <2> QED  BY <1>2, <2>9, Zenon
  <1>17. g1 + d < h
    <2>1. a * b + c < h * (h * h)
      <3>1. a * b + c <= a * (h - 1) + (h - 1)
        <4>1. a * ((h - 1) - b) >= 0
          BY <1>1, <1>3, SMT
        <4>2. a * ((h - 1) - b) = a * (h - 1) - a * b /\ a * (h - 1) \in Int /\ a * b \in Int
          BY <1>1, <1>3, SMT
        <4> QED  BY <4>1, <4>2, <1>3, SMT
      <3>2. a * (h - 1) + (h - 1) = (a + 1) * (h - 1) /\ (a + 1) * (h - 1) <= Base * (h - 1)
        BY <1>1, <1>3, Sizes, LessTimes, SMT
      <3>3. Base * (h - 1) < Base * h /\ Base * h = h * (h * h)
        BY <1>3, Sizes, SMT
      <3>4. a * b \in Int /\ a * (h - 1) \in Int /\ Base * (h - 1) \in Int /\ Base * h \in Int
        BY <1>1, <1>3, Sizes, SMT
      <3> QED  BY <3>1, <3>2, <3>3, <3>4, <1>3, SMT
    <2>2. (g1 + d) * (h * h) < h * (h * h)
      <3>1. l1 * h \in Nat /\ (g1 + d) * (h * h) \in Int /\ h * (h * h) \in Int /\ a * b \in Int
        BY <1>1, <1>3, SMT
      <3> QED  BY <2>1, <3>1, <1>16, <1>3, SMT
    <2>3. h * h \in Nat /\ g1 + d \in Int
      BY SMT
    <2> QED  BY <2>2, <2>3, LessTimes
  <1> QED  BY <1>e, <1>2, <1>3, <1>13, <1>14, <1>15, <1>16, <1>17, SMT

\* One turn of subbignum.
SubWord(a, b, c) == (((a - c) % Base) - b) % Base
SubCarry(a, b, c) == IF Borrows(c, a, (a - c) % Base, b) THEN 1 ELSE 0

\* One turn of subbignum: word and borrow hold the whole difference, a word of zeros that
\* is borrowed from included (rsa.c:268-280).
LEMMA SubTurn ==
    ASSUME NEW a \in 0 .. Base - 1, NEW b \in 0 .. Base - 1, NEW c \in 0 .. 1
    PROVE  /\ SubWord(a, b, c) \in 0 .. Base - 1 /\ SubCarry(a, b, c) \in 0 .. 1
           /\ (a - b) - c = SubWord(a, b, c) - SubCarry(a, b, c) * Base
  <1>p. PICK f, d : f = (a - c) % Base /\ d = SubCarry(a, b, c)
    OBVIOUS
  <1>e. /\ f = (a - c) % Base /\ d = (IF Borrows(c, a, f, b) THEN 1 ELSE 0)
        /\ SubWord(a, b, c) = (f - b) % Base /\ SubCarry(a, b, c) = d
    BY <1>p DEF SubWord, SubCarry
  <1>1. ASSUME NEW x \in Int, x >= 0 - Base, x < 0 PROVE x % Base = x + Base
    <2>1. Base \in Nat /\ Base > 0
      BY Sizes, SMT
    <2> QED  BY <1>1, <2>1, Remainder
  <1>2. ASSUME NEW x \in Int, x >= 0, x < Base PROVE x % Base = x
    <2>1. Base \in Nat /\ Base > 0
      BY Sizes, SMT
    <2> QED  BY <1>2, <2>1, Remainder
  <1>3. f = IF a - c < 0 THEN a - c + Base ELSE a - c
    <2>1. PICK x \in Int : x = a - c
      BY Sizes, SMT
    <2>2. x < 0 => x >= 0 - Base
      BY <2>1, Sizes, SMT
    <2>3. x < Base
      BY <2>1, Sizes, SMT
    <2>4. f = IF x < 0 THEN x + Base ELSE x
      BY <1>e, <1>1, <1>2, <2>1, <2>2, <2>3, SMT
    <2> QED  BY <2>1, <2>4
  <1>4. f \in 0 .. Base - 1
    BY <1>3, Sizes, SMT
  <1>5. (f - b) % Base = IF f < b THEN f - b + Base ELSE f - b
    <2>1. PICK x \in Int : x = f - b
      BY <1>4, Sizes, SMT
    <2>2. x >= 0 - Base /\ x < Base /\ (x < 0 <=> f < b) /\ x + Base = f - b + Base
      BY <1>4, <2>1, Sizes, SMT
    <2>3. x % Base = IF x < 0 THEN x + Base ELSE x
      BY <1>1, <1>2, <2>2, SMT
    <2> QED  BY <2>1, <2>2, <2>3
  <1>6. Borrows(c, a, f, b) <=> f < b \/ (c = 1 /\ a = 0)
    BY Zenon DEF Borrows
  <1> PICK s \in Int : s = (f - b) % Base
    BY <1>4, <1>5, Sizes, SMT
  <1>7. s = IF f < b THEN f - b + Base ELSE f - b
    BY <1>5
  <1>8. d = IF f < b \/ (c = 1 /\ a = 0) THEN 1 ELSE 0
    BY <1>e, <1>6
  <1>9. PICK e \in Nat : e = Base /\ e >= 4
    BY Sizes
  <1>10. s \in 0 .. e - 1
    BY <1>4, <1>7, <1>9, SMT
  <1>11. d \in 0 .. 1
    BY <1>8, SMT
  <1>12. a - b - c = s - d * e
    <2>1. CASE f < b
      <3>1. s = f - b + e /\ d = 1 /\ f = a - c
        <4>1. ~ (a - c < 0)
          BY <1>3, <1>9, <2>1, SMT
        <4> QED  BY <1>3, <1>7, <1>8, <1>9, <2>1, <4>1
      <3> QED  BY <1>9, <3>1, SMT
    <2>2. CASE ~ (f < b) /\ c = 1 /\ a = 0
      <3>1. s = f - b /\ d = 1 /\ f = e - 1
        BY <1>3, <1>7, <1>8, <1>9, <2>2, SMT
      <3> QED  BY <1>9, <2>2, <3>1, SMT
    <2>3. CASE ~ (f < b) /\ ~ (c = 1 /\ a = 0)
      <3>1. s = f - b /\ d = 0 /\ f = a - c
        BY <1>3, <1>7, <1>8, <1>9, <2>3, SMT
      <3> QED  BY <1>9, <3>1, SMT
    <2> QED  BY <2>1, <2>2, <2>3
  <1> QED  BY <1>e, <1>9, <1>10, <1>11, <1>12

-----------------------------------------------------------------------------
(* Sums, products by half a word, and differences.                           *)

\* An array with one word more.
LEMMA Appended ==
    ASSUME NEW m \in Nat, NEW w \in [1 .. m -> Word], NEW v \in Word
    PROVE  /\ Append(w, v) \in [1 .. m + 1 -> Word]
           /\ \A k \in 1 .. m : Append(w, v)[k] = w[k]
           /\ Append(w, v)[m + 1] = v
  <1>1. w \in Seq(Word) /\ Len(w) = m
    BY SeqDef, LenProperties, SMT
  <1>2. /\ Append(w, v) \in Seq(Word) /\ Len(Append(w, v)) = m + 1
        /\ \A k \in 1 .. m : Append(w, v)[k] = w[k]
        /\ Append(w, v)[m + 1] = v
    BY <1>1, AppendProperties
  <1>3. Append(w, v) \in [1 .. m + 1 -> Word]
    BY <1>2, LenProperties
  <1> QED  BY <1>2, <1>3

\* A loop whose turns add up what total says, sign times the carry apart,
\* leaves an array of what is added up.
LEMMA LoopCounts ==
    ASSUME NEW m \in Nat, NEW step \in [1 .. m -> [Word -> Int \X Word]],
           NEW D \in SUBSET Word, 0 \in D, NEW sign \in Int,
           NEW total \in [1 .. m -> Int], NEW all \in [0 .. m -> Int],
           \A k \in 1 .. m, v \in D :
              /\ step[k][v][1] \in Word /\ step[k][v][2] \in D
              /\ total[k] + sign * v = step[k][v][1] + (sign * step[k][v][2]) * Base,
           all[0] = 0, \A k \in 1 .. m : all[k] = all[k - 1] + total[k] * Weight(k - 1)
    PROVE  /\ Loop(step, m).words \in [1 .. m -> Word] /\ Loop(step, m).carry \in D
           /\ Value(Loop(step, m).words, m) + (sign * Loop(step, m).carry) * Weight(m) = all[m]
  <1>1. PICK c \in [0 .. m -> Word] :
           /\ c[0] = 0 /\ \A k \in 1 .. m : c[k] = step[k][c[k - 1]][2]
           /\ Loop(step, m) = [words |-> [k \in 1 .. m |-> step[k][c[k - 1]][1]],
                               carry |-> c[m]]
    BY LoopIs
  <1> DEFINE w(k) == step[k][c[k - 1]][1]
             r == [k \in 1 .. m |-> w(k)]
             S == {k \in Nat : k <= m => c[k] \in D}
  <1>2. 0 \in S
    BY <1>1
  <1>3. ASSUME NEW k \in Nat, k \in S PROVE k + 1 \in S
    <2>1. CASE k + 1 <= m
      <3>1. k + 1 \in 1 .. m /\ (k + 1) - 1 = k /\ k <= m
        BY <2>1, SMT
      <3>2. c[k] \in D /\ c[k + 1] = step[k + 1][c[k]][2]
        BY <1>1, <1>3, <3>1
      <3> QED  BY <3>1, <3>2
    <2>2. CASE ~ (k + 1 <= m)
      BY <2>2
    <2> QED  BY <2>1, <2>2
  <1>4. Nat \subseteq S
    <2> HIDE DEF S
    <2> QED  BY <1>2, <1>3, Induction
  <1>5. \A k \in 0 .. m : c[k] \in D
    BY <1>4, SMT
  <1>6. ASSUME NEW k \in 1 .. m
        PROVE  /\ w(k) \in Word /\ c[k] \in Int /\ c[k - 1] \in Int /\ w(k) \in Int
               /\ total[k] + sign * c[k - 1] = w(k) + (sign * c[k]) * Base
    <2>1. k - 1 \in 0 .. m /\ k \in 0 .. m
      BY SMT
    <2>2. c[k - 1] \in D /\ c[k] = step[k][c[k - 1]][2]
      BY <1>1, <1>5, <2>1
    <2>3. c[k] \in Word /\ c[k - 1] \in Word
      BY <2>1
    <2>4. \A v \in Word : v \in Int
      BY WordIs, SMT
    <2> QED  BY <2>2, <2>3, <2>4, SMTT(30)
  <1>7. Words(r, m) /\ r \in [1 .. m -> Word] /\ \A k \in 1 .. m : r[k] = w(k)
    <2> HIDE DEF w
    <2> QED  BY <1>6 DEF Words
  <1>8. Loop(step, m).words = r /\ Loop(step, m).carry = c[m]
    BY <1>1
  <1> HIDE DEF w, r
  <1> DEFINE P == {k \in Nat : k <= m => Value(r, k) + (sign * c[k]) * Weight(k) = all[k]}
  <1>9. 0 \in P
    <2>1. Value(r, 0) = 0 /\ Weight(0) \in Int
      BY <1>7, ValueOfWords, WeightIs
    <2> QED  BY <1>1, <2>1, SMT
  <1>10. ASSUME NEW k \in Nat, k \in P PROVE k + 1 \in P
    <2>1. CASE k + 1 <= m
      <3>1. /\ k \in 0 .. m - 1 /\ k + 1 \in 1 .. m /\ (k + 1) - 1 = k /\ k <= m
            /\ k \in 0 .. m /\ k + 1 \in 0 .. m
        BY <2>1, SMT
      <3>2. PICK a \in Int, d \in Int, e \in Int, f \in Int, g \in Int,
                 u \in Int, z \in Int, h \in Int :
              /\ a = total[k + 1] /\ d = c[k] /\ e = w(k + 1) /\ f = c[k + 1]
              /\ g = Weight(k) /\ h = Base /\ u = all[k] /\ z = Value(r, k)
        <4>1. c[k] \in Int /\ w(k + 1) \in Int /\ c[k + 1] \in Int
          BY <1>6, <3>1
        <4>2. Weight(k) \in Int /\ Base \in Int /\ Value(r, k) \in Int
          <5>1. Value(r, k) \in Int
            BY <1>7, <3>1, ValueInt
          <5>2. Base \in Int
            BY Sizes, SMT
          <5> QED  BY <5>1, <5>2, WeightIs
        <4>3. total[k + 1] \in Int /\ all[k] \in Int
          BY <3>1
        <4> QED  BY <4>1, <4>2, <4>3
      <3>3. a + sign * d = e + (sign * f) * h /\ z + (sign * d) * g = u
        BY <1>6, <1>10, <3>1, <3>2
      <3>4. (z + e * g) + (sign * f) * (h * g) = u + a * g
        <4>1. (a + sign * d) * g = (e + (sign * f) * h) * g
          BY <3>3
        <4>2. (a + sign * d) * g = a * g + (sign * d) * g
          BY SMT
        <4>3. (e + (sign * f) * h) * g = e * g + (sign * f) * (h * g)
          BY SMT
        <4>4. /\ a * g \in Int /\ (sign * d) * g \in Int /\ e * g \in Int
              /\ (sign * f) * (h * g) \in Int
          BY SMT
        <4>6. a * g + (sign * d) * g = e * g + (sign * f) * (h * g)
          BY <4>1, <4>2, <4>3, Zenon
        <4>5. PICK p \in Int, q \in Int, s \in Int, t \in Int :
                 p = a * g /\ q = (sign * d) * g /\ s = e * g /\ t = (sign * f) * (h * g)
          BY <4>4, Zenon
        <4>7. p + q = s + t /\ z + q = u /\ z \in Int /\ u \in Int
          BY <3>2, <3>3, <4>5, <4>6, Zenon
        <4>8. (z + s) + t = u + p
          BY <4>7, SMT
        <4> QED  BY <4>5, <4>8, Zenon
      <3>5. /\ Value(r, k + 1) = Value(r, k) + w(k + 1) * Weight(k)
            /\ Weight(k + 1) = Base * Weight(k)
            /\ all[k + 1] = all[k] + total[k + 1] * Weight(k)
        <4>1. Value(r, k + 1) = Value(r, k) + r[k + 1] * Weight(k)
          BY <1>7, <3>1, ValueOfWords
        <4>2. Weight(k + 1) = Base * Weight(k)
          BY WeightIs
        <4>3. all[k + 1] = all[(k + 1) - 1] + total[k + 1] * Weight((k + 1) - 1)
          BY <3>1
        <4> QED  BY <1>7, <3>1, <4>1, <4>2, <4>3
      <3> QED  BY <3>2, <3>4, <3>5
    <2>2. CASE ~ (k + 1 <= m)
      BY <2>2
    <2> QED  BY <2>1, <2>2
  <1>11. Nat \subseteq P
    <2> HIDE DEF P
    <2> QED  BY <1>9, <1>10, Induction
  <1>12. Value(r, m) + (sign * c[m]) * Weight(m) = all[m] /\ c[m] \in D
    <2>1. m \in 0 .. m
      BY SMT
    <2> QED  BY <1>5, <1>11, <2>1
  <1> QED  BY <1>7, <1>8, <1>12

\* An array is a sequence of words.
LEMMA ArrayIs ==
    ASSUME NEW m \in Nat, NEW x \in Arrays(m)
    PROVE  Words(x, m) /\ x \in Seq(Word) /\ Len(x) = m
  <1>1. x \in [1 .. m -> Word]
    BY DEF Arrays
  <1>2. x \in Seq(Word) /\ Len(x) = m
    BY <1>1, SeqDef, LenProperties, SMT
  <1> QED  BY <1>1, <1>2 DEF Words

\* An array that a loop leaves, with its carry.
LEMMA WithCarry ==
    ASSUME NEW m \in Nat, NEW w \in [1 .. m -> Word], NEW v \in Word, NEW a \in Int,
           Value(w, m) + (1 * v) * Weight(m) = a
    PROVE  Append(w, v) \in Arrays(m + 1) /\ Value(Append(w, v), m + 1) = a
  <1>1. /\ Append(w, v) \in [1 .. m + 1 -> Word] /\ Append(w, v)[m + 1] = v
        /\ \A k \in 1 .. m : Append(w, v)[k] = w[k]
    BY Appended
  <1>2. Words(w, m) /\ Words(Append(w, v), m + 1)
    BY <1>1 DEF Words
  <1>3. m \in 0 .. m /\ m \in 0 .. (m + 1) - 1 /\ m + 1 \in Nat
    BY SMT
  <1>4. Value(Append(w, v), m) = Value(w, m)
    <2>1. \A u \in 0 .. m : Value(Append(w, v), u) = Value(w, u)
      BY <1>1, <1>2, ValueSame
    <2> QED  BY <1>3, <2>1
  <1>5. Value(Append(w, v), m + 1) = Value(Append(w, v), m) + v * Weight(m)
    BY <1>1, <1>2, <1>3, ValueOfWords
  <1>6. 1 * v = v
    BY WordIs, SMT
  <1> QED  BY <1>1, <1>4, <1>5, <1>6 DEF Arrays

\* addbignum returns the sum, its carry in the word after the last (rsa.c:38-54).
THEOREM AddIs ==
    ASSUME NEW m \in Nat, NEW x, NEW y, Words(x, m), Words(y, m)
    PROVE  /\ addbignum(x, y, m) \in Arrays(m + 1)
           /\ Value(addbignum(x, y, m), m + 1) = Value(x, m) + Value(y, m)
  <1> DEFINE step == [k \in 1 .. m |-> [carry \in Word |->
                        << AddWord(x[k], y[k], carry), AddCarry(x[k], y[k], carry) >>]]
             total == [k \in 1 .. m |-> x[k] + y[k]]
             all == [k \in 0 .. m |-> Value(x, k) + Value(y, k)]
  <1>1. addbignum(x, y, m) = Append(Loop(step, m).words, Loop(step, m).carry)
    BY DEF addbignum, AddWord, AddCarry, AddHigh, AddLow
  <1>2. ASSUME NEW k \in 1 .. m
        PROVE  x[k] \in Nat /\ y[k] \in Nat /\ x[k] \in 0 .. Base - 1 /\ y[k] \in 0 .. Base - 1
    BY WordIs DEF Words
  <1>3. ASSUME NEW a \in Nat, NEW b \in Nat, NEW c \in Word
        PROVE  AddWord(a, b, c) \in Int /\ AddCarry(a, b, c) \in Word
    <2>1. AddLow(a, b, c) \in Nat
      BY WordIs, LowIsNat, Sums DEF AddLow
    <2>2. AddHigh(a, b, c) \in Nat /\ AddHigh(a, b, c) \in Word
      <3>1. High(a) + High(b) + High(AddLow(a, b, c)) \in Int
        BY <2>1, LowIsNat, SMT
      <3> QED  BY <3>1, WordIs DEF AddHigh
    <2> QED  BY <2>1, <2>2, WordIs DEF AddWord, AddCarry
  <1>4. step \in [1 .. m -> [Word -> Int \X Word]]
    BY <1>2, <1>3
  <1>5. 0 .. 1 \in SUBSET Word /\ 0 \in 0 .. 1 /\ 1 \in Int
    BY WordIs, SMT
  <1>6. total \in [1 .. m -> Int]
    BY <1>2, SMT
  <1>7. ASSUME NEW k \in 0 .. m PROVE Value(x, k) \in Int /\ Value(y, k) \in Int
    BY ValueInt
  <1>8. all \in [0 .. m -> Int]
    BY <1>7, SMT
  <1>9. ASSUME NEW k \in 1 .. m, NEW v \in 0 .. 1
        PROVE  /\ step[k][v][1] \in Word /\ step[k][v][2] \in 0 .. 1
               /\ total[k] + 1 * v = step[k][v][1] + (1 * step[k][v][2]) * Base
    <2>1. /\ AddWord(x[k], y[k], v) \in 0 .. Base - 1 /\ AddCarry(x[k], y[k], v) \in 0 .. 1
          /\ (x[k] + y[k]) + v = AddWord(x[k], y[k], v) + AddCarry(x[k], y[k], v) * Base
      BY <1>2, AddTurn
    <2>2. v \in Word
      BY <1>5
    <2>3. step[k][v][1] = AddWord(x[k], y[k], v) /\ step[k][v][2] = AddCarry(x[k], y[k], v)
      BY <2>2
    <2>4. 1 * v = v /\ 1 * AddCarry(x[k], y[k], v) = AddCarry(x[k], y[k], v)
      BY <2>1, SMT
    <2> HIDE DEF step
    <2> QED  BY <2>1, <2>3, <2>4, WordIs
  <1>10. all[0] = 0
    <2>1. Value(x, 0) = 0 /\ Value(y, 0) = 0 /\ 0 \in 0 .. m /\ 0 + 0 = 0
      BY ValueOfWords, SMT
    <2> QED  BY <2>1
  <1>11. ASSUME NEW k \in 1 .. m PROVE all[k] = all[k - 1] + total[k] * Weight(k - 1)
    <2>1. k - 1 \in 0 .. m /\ k \in 0 .. m
      BY SMT
    <2>2. /\ Value(x, k) = Value(x, k - 1) + x[k] * Weight(k - 1)
          /\ Value(y, k) = Value(y, k - 1) + y[k] * Weight(k - 1)
          /\ Weight(k - 1) \in Nat
      BY ValueTop
    <2>3. PICK a \in Int, b \in Int, c \in Nat, d \in Nat, g \in Nat :
             /\ a = Value(x, k - 1) /\ b = Value(y, k - 1) /\ c = x[k] /\ d = y[k]
             /\ g = Weight(k - 1)
      BY <1>2, <1>7, <2>1, <2>2, Zenon
    <2>4. (a + c * g) + (b + d * g) = (a + b) + (c + d) * g
      BY SMT
    <2> QED  BY <2>1, <2>2, <2>3, <2>4
  <1> HIDE DEF step, total, all
  <1>12. /\ Loop(step, m).words \in [1 .. m -> Word] /\ Loop(step, m).carry \in 0 .. 1
         /\ Value(Loop(step, m).words, m) + (1 * Loop(step, m).carry) * Weight(m) = all[m]
    BY <1>4, <1>5, <1>6, <1>8, <1>9, <1>10, <1>11, LoopCounts
  <1>13. m \in 0 .. m /\ Loop(step, m).carry \in Word
    BY <1>5, <1>12, SMT
  <1>14. all[m] \in Int /\ all[m] = Value(x, m) + Value(y, m)
    BY <1>8, <1>13 DEF all
  <1> QED  BY <1>1, <1>12, <1>13, <1>14, WithCarry

\* multbignum returns the product by half a word (rsa.c:56-75).
THEOREM MultIs ==
    ASSUME NEW m \in Nat, NEW x, Words(x, m), NEW b \in 0 .. Half - 1
    PROVE  /\ multbignum(x, b, m) \in Arrays(m + 1)
           /\ Value(multbignum(x, b, m), m + 1) = Value(x, m) * b
  <1> DEFINE step == [k \in 1 .. m |-> [carry \in Word |->
                        << MultWord(x[k], b, carry), MultCarry(x[k], b, carry) >>]]
             total == [k \in 1 .. m |-> x[k] * b]
             all == [k \in 0 .. m |-> Value(x, k) * b]
  <1>1. multbignum(x, b, m) = Append(Loop(step, m).words, Loop(step, m).carry)
    BY DEF multbignum, MultWord, MultCarry, MultHigh, MultLow
  <1>2. ASSUME NEW k \in 1 .. m PROVE x[k] \in Nat /\ x[k] \in 0 .. Base - 1
    BY WordIs DEF Words
  <1>b. b \in Nat
    BY Sizes, SMT
  <1>3. ASSUME NEW a \in Nat, NEW c \in Word
        PROVE  MultWord(a, b, c) \in Int /\ MultCarry(a, b, c) \in Word
    <2>1. (Low(a) * b) % Base \in Nat /\ (High(a) * b) % Base \in Nat
      BY <1>b, LowIsNat, Sums
    <2>2. MultLow(a, b, c) \in Nat
      BY <2>1, WordIs, LowIsNat, Sums DEF MultLow
    <2>3. MultHigh(a, b, c) \in Nat
      BY <2>1, <2>2, LowIsNat, Sums DEF MultHigh
    <2>4. MultWord(a, b, c) \in Int
      BY <2>2, <2>3, WordIs DEF MultWord
    <2>5. High((High(a) * b) % Base) + High(MultHigh(a, b, c)) \in Int
      BY <2>1, <2>3, LowIsNat, SMT
    <2> QED  BY <2>4, <2>5, WordIs DEF MultCarry, Carry2
  <1>4. step \in [1 .. m -> [Word -> Int \X Word]]
    BY <1>2, <1>3
  <1>5. 0 .. Half - 1 \in SUBSET Word /\ 0 \in 0 .. Half - 1 /\ 1 \in Int
    <2>1. Half \in Nat /\ Base \in Nat /\ Half >= 2 /\ Base >= 2 * Half
      BY Sizes
    <2> QED  BY <2>1, WordIs, SMT
  <1>6. total \in [1 .. m -> Int]
    BY <1>2, <1>b, SMT
  <1>7. ASSUME NEW k \in 0 .. m PROVE Value(x, k) \in Int
    BY ValueInt
  <1>8. all \in [0 .. m -> Int]
    BY <1>7, <1>b, SMT
  <1>9. ASSUME NEW k \in 1 .. m, NEW v \in 0 .. Half - 1
        PROVE  /\ step[k][v][1] \in Word /\ step[k][v][2] \in 0 .. Half - 1
               /\ total[k] + 1 * v = step[k][v][1] + (1 * step[k][v][2]) * Base
    <2>1. /\ MultWord(x[k], b, v) \in 0 .. Base - 1 /\ MultCarry(x[k], b, v) \in 0 .. Half - 1
          /\ x[k] * b + v = MultWord(x[k], b, v) + MultCarry(x[k], b, v) * Base
      BY <1>2, MultTurn
    <2>2. v \in Word
      BY <1>5
    <2>3. step[k][v][1] = MultWord(x[k], b, v) /\ step[k][v][2] = MultCarry(x[k], b, v)
      BY <2>2
    <2>4. 1 * v = v /\ 1 * MultCarry(x[k], b, v) = MultCarry(x[k], b, v)
      <3>1. v \in Int /\ MultCarry(x[k], b, v) \in Int
        BY <2>1, Sizes, SMT
      <3> QED  BY <3>1, SMT
    <2> HIDE DEF step
    <2> QED  BY <2>1, <2>3, <2>4, WordIs
  <1>10. all[0] = 0
    <2>1. Value(x, 0) = 0 /\ 0 \in 0 .. m /\ 0 * b = 0
      BY <1>b, ValueOfWords, SMT
    <2> QED  BY <2>1
  <1>11. ASSUME NEW k \in 1 .. m PROVE all[k] = all[k - 1] + total[k] * Weight(k - 1)
    <2>1. k - 1 \in 0 .. m /\ k \in 0 .. m
      BY SMT
    <2>2. Value(x, k) = Value(x, k - 1) + x[k] * Weight(k - 1) /\ Weight(k - 1) \in Nat
      BY ValueTop
    <2>3. PICK a \in Int, c \in Nat, g \in Nat :
             a = Value(x, k - 1) /\ c = x[k] /\ g = Weight(k - 1)
      BY <1>2, <1>7, <2>1, <2>2, Zenon
    <2>4. (a + c * g) * b = a * b + (c * b) * g
      BY <1>b, SMT
    <2> QED  BY <2>1, <2>2, <2>3, <2>4
  <1> HIDE DEF step, total, all
  <1>12. /\ Loop(step, m).words \in [1 .. m -> Word] /\ Loop(step, m).carry \in 0 .. Half - 1
         /\ Value(Loop(step, m).words, m) + (1 * Loop(step, m).carry) * Weight(m) = all[m]
    BY <1>4, <1>5, <1>6, <1>8, <1>9, <1>10, <1>11, LoopCounts
  <1>13. m \in 0 .. m /\ Loop(step, m).carry \in Word
    BY <1>5, <1>12, SMT
  <1>14. all[m] \in Int /\ all[m] = Value(x, m) * b
    BY <1>8, <1>13 DEF all
  <1> QED  BY <1>1, <1>12, <1>13, <1>14, WithCarry

\* subbignum returns the difference of a number and one that is no larger (rsa.c:265-283).
THEOREM SubIs ==
    ASSUME NEW m \in Nat, NEW x, NEW y, Words(x, m), Words(y, m), Value(y, m) <= Value(x, m)
    PROVE  /\ subbignum(x, y, m) \in Arrays(m)
           /\ Value(subbignum(x, y, m), m) = Value(x, m) - Value(y, m)
  <1> DEFINE step == [k \in 1 .. m |-> [carry \in Word |->
                        << SubWord(x[k], y[k], carry), SubCarry(x[k], y[k], carry) >>]]
             total == [k \in 1 .. m |-> x[k] - y[k]]
             all == [k \in 0 .. m |-> Value(x, k) - Value(y, k)]
  <1>1. subbignum(x, y, m) = Loop(step, m).words
    BY DEF subbignum, SubWord, SubCarry
  <1>2. ASSUME NEW k \in 1 .. m
        PROVE  x[k] \in Nat /\ y[k] \in Nat /\ x[k] \in 0 .. Base - 1 /\ y[k] \in 0 .. Base - 1
    BY WordIs DEF Words
  <1>3. ASSUME NEW a \in Nat, NEW b \in Nat, NEW c \in Word
        PROVE  SubWord(a, b, c) \in Int /\ SubCarry(a, b, c) \in Word
    <2>1. a - c \in Int
      BY WordIs, SMT
    <2>2. (a - c) % Base \in Word
      BY <2>1, WordIs
    <2>3. ((a - c) % Base) - b \in Int
      BY <2>2, WordIs, SMT
    <2>4. SubWord(a, b, c) \in Word
      BY <2>3, WordIs DEF SubWord
    <2>5. 0 \in Word /\ 1 \in Word
      BY WordIs, SMT
    <2> QED  BY <2>4, <2>5, WordIs DEF SubCarry
  <1>4. step \in [1 .. m -> [Word -> Int \X Word]]
    BY <1>2, <1>3
  <1>5. 0 .. 1 \in SUBSET Word /\ 0 \in 0 .. 1 /\ 0 - 1 \in Int
    BY WordIs, SMT
  <1>6. total \in [1 .. m -> Int]
    BY <1>2, SMT
  <1>7. ASSUME NEW k \in 0 .. m PROVE Value(x, k) \in Int /\ Value(y, k) \in Int
    BY ValueInt
  <1>8. all \in [0 .. m -> Int]
    BY <1>7, SMT
  <1>9. ASSUME NEW k \in 1 .. m, NEW v \in 0 .. 1
        PROVE  /\ step[k][v][1] \in Word /\ step[k][v][2] \in 0 .. 1
               /\ total[k] + (0 - 1) * v = step[k][v][1] + ((0 - 1) * step[k][v][2]) * Base
    <2>1. /\ SubWord(x[k], y[k], v) \in 0 .. Base - 1 /\ SubCarry(x[k], y[k], v) \in 0 .. 1
          /\ (x[k] - y[k]) - v = SubWord(x[k], y[k], v) - SubCarry(x[k], y[k], v) * Base
      BY <1>2, SubTurn
    <2>2. v \in Word
      BY <1>5
    <2>3. step[k][v][1] = SubWord(x[k], y[k], v) /\ step[k][v][2] = SubCarry(x[k], y[k], v)
      BY <2>2
    <2>4. PICK a \in Int, b \in Int, w \in Int, c \in 0 .. 1, d \in Int :
             /\ a = x[k] /\ b = y[k] /\ w = SubWord(x[k], y[k], v)
             /\ c = SubCarry(x[k], y[k], v) /\ d = Base
      <3>1. x[k] \in Int /\ y[k] \in Int /\ SubWord(x[k], y[k], v) \in Int /\ Base \in Int
        <4>1. \A u \in Nat : u \in Int
          BY SMT
        <4>2. SubWord(x[k], y[k], v) \in Nat
          BY <2>1, WordIs
        <4> QED  BY <1>2, <4>1, <4>2, WordIs, Zenon
      <3> QED  BY <2>1, <3>1
    <2>5. (a - b) - v = w - c * d
      BY <2>1, <2>4
    <2>6. (a - b) + (0 - 1) * v = w + ((0 - 1) * c) * d
      BY <2>5, SMT
    <2> HIDE DEF step
    <2> QED  BY <2>1, <2>3, <2>4, <2>6, WordIs
  <1>10. all[0] = 0
    <2>1. Value(x, 0) = 0 /\ Value(y, 0) = 0 /\ 0 \in 0 .. m /\ 0 - 0 = 0
      BY ValueOfWords, SMT
    <2> QED  BY <2>1
  <1>11. ASSUME NEW k \in 1 .. m PROVE all[k] = all[k - 1] + total[k] * Weight(k - 1)
    <2>1. k - 1 \in 0 .. m /\ k \in 0 .. m
      BY SMT
    <2>2. /\ Value(x, k) = Value(x, k - 1) + x[k] * Weight(k - 1)
          /\ Value(y, k) = Value(y, k - 1) + y[k] * Weight(k - 1)
          /\ Weight(k - 1) \in Nat
      BY ValueTop
    <2>3. PICK a \in Int, b \in Int, c \in Nat, d \in Nat, g \in Nat :
             /\ a = Value(x, k - 1) /\ b = Value(y, k - 1) /\ c = x[k] /\ d = y[k]
             /\ g = Weight(k - 1)
      BY <1>2, <1>7, <2>1, <2>2, Zenon
    <2>4. (a + c * g) - (b + d * g) = (a - b) + (c - d) * g
      BY SMT
    <2> QED  BY <2>1, <2>2, <2>3, <2>4
  <1> HIDE DEF step, total, all
  <1>12. /\ Loop(step, m).words \in [1 .. m -> Word] /\ Loop(step, m).carry \in 0 .. 1
         /\ Value(Loop(step, m).words, m) + ((0 - 1) * Loop(step, m).carry) * Weight(m) = all[m]
    BY <1>4, <1>5, <1>6, <1>8, <1>9, <1>10, <1>11, LoopCounts
  <1>13. m \in 0 .. m
    BY SMT
  <1>14. all[m] = Value(x, m) - Value(y, m)
    BY <1>13 DEF all
  <1>15. PICK a \in Int, b \in Int, w \in Nat, c \in 0 .. 1, g \in Nat :
            /\ a = Value(x, m) /\ b = Value(y, m) /\ w = Value(Loop(step, m).words, m)
            /\ c = Loop(step, m).carry /\ g = Weight(m) /\ w < g
    <2>1. Words(Loop(step, m).words, m)
      BY <1>12 DEF Words
    <2> QED  BY <1>7, <1>12, <1>13, <2>1, ValueInt, WeightIs
  <1>16. w + ((0 - 1) * c) * g = a - b /\ b <= a
    BY <1>12, <1>14, <1>15
  <1>17. w = a - b
    <2>1. c = 1 => ((0 - 1) * c) * g = 0 - g
      BY SMT
    <2>2. c = 0 => ((0 - 1) * c) * g = 0
      BY SMT
    <2> QED  BY <1>15, <1>16, <2>1, <2>2, SMT
  <1> QED  BY <1>1, <1>12, <1>15, <1>17 DEF Arrays

-----------------------------------------------------------------------------
(* Comparison.                                                               *)

\* A bounded set of numbers has a largest one.
LEMMA LargestNumber ==
    ASSUME NEW m \in Nat, NEW T \in SUBSET (0 .. m), T # {}
    PROVE  Max(T) \in T /\ \A k \in T : k <= Max(T)
  <1> DEFINE D == {m - k : k \in T}
  <1>1. D \in SUBSET Nat /\ D # {}
    <2>1. ASSUME NEW k \in T PROVE m - k \in Nat
      <3>1. k \in 0 .. m
        OBVIOUS
      <3> QED  BY <3>1, SMT
    <2> QED  BY <2>1
  <1>2. PICK d \in D : \A e \in D : d <= e
    <2> HIDE DEF D
    <2> QED  BY <1>1, LeastNumber
  <1>3. PICK k \in T : d = m - k
    BY <1>2
  <1>4. \A e \in T : k >= e
    <2>1. ASSUME NEW e \in T PROVE k >= e
      <3>1. m - e \in D
        OBVIOUS
      <3>2. m - k <= m - e
        BY <1>2, <1>3, <3>1
      <3> QED  BY <3>2, SMT
    <2> QED  BY <2>1
  <1>5. Max(T) \in T /\ \A e \in T : Max(T) >= e
    <2>1. \E u \in T : \A e \in T : u >= e
      BY <1>4
    <2>2. Max(T) = CHOOSE u \in T : \A e \in T : u >= e
      BY DEF Max
    <2> QED  BY <2>1, <2>2
  <1> QED  BY <1>5, SMT

\* Words that are the same at the top do not tell two numbers apart.
LEMMA SameTop ==
    ASSUME NEW m \in Nat, NEW x, NEW y, Words(x, m), Words(y, m), NEW p \in 0 .. m,
           \A k \in p + 1 .. m : x[k] = y[k]
    PROVE  Value(x, m) - Value(y, m) = Value(x, p) - Value(y, p)
  <1> DEFINE S == {k \in Nat : p + k <= m =>
                       Value(x, p + k) - Value(y, p + k) = Value(x, p) - Value(y, p)}
  <1>1. p \in Nat /\ p + 0 = p
    BY SMT
  <1>2. 0 \in S
    BY <1>1
  <1>3. ASSUME NEW k \in Nat, k \in S PROVE k + 1 \in S
    <2>1. CASE p + (k + 1) <= m
      <3>1. /\ p + (k + 1) \in 1 .. m /\ (p + (k + 1)) - 1 = p + k /\ p + k <= m
            /\ p + (k + 1) \in p + 1 .. m
        BY <1>1, <2>1, SMT
      <3>2. /\ Value(x, p + (k + 1)) = Value(x, p + k) + x[p + (k + 1)] * Weight(p + k)
            /\ Value(y, p + (k + 1)) = Value(y, p + k) + x[p + (k + 1)] * Weight(p + k)
            /\ Value(x, p + k) \in Nat /\ Value(y, p + k) \in Nat /\ Weight(p + k) \in Nat
            /\ x[p + (k + 1)] \in 0 .. Base - 1
        BY <3>1, ValueTop
      <3>3. x[p + (k + 1)] \in Nat
        BY <3>2, WordIs
      <3>4. PICK a \in Nat, b \in Nat, c \in Nat, g \in Nat :
               /\ a = Value(x, p + k) /\ b = Value(y, p + k) /\ c = x[p + (k + 1)]
               /\ g = Weight(p + k)
        BY <3>2, <3>3, Zenon
      <3>5. (a + c * g) - (b + c * g) = a - b
        BY SMT
      <3> QED  BY <1>3, <3>1, <3>2, <3>4, <3>5
    <2>2. CASE ~ (p + (k + 1) <= m)
      BY <2>2
    <2> QED  BY <2>1, <2>2
  <1>4. Nat \subseteq S
    <2> HIDE DEF S
    <2> QED  BY <1>2, <1>3, Induction
  <1>5. m - p \in S /\ p + (m - p) = m
    BY <1>1, <1>4, SMT
  <1> QED  BY <1>5, SMT

\* compare orders arrays as their values (rsa.c:241-256).
LEMMA CompareIs ==
    ASSUME NEW m \in Nat, NEW x, NEW y, Words(x, m), Words(y, m)
    PROVE  /\ compare(x, y, m) \in Int
           /\ compare(x, y, m) >= 0 <=> Value(y, m) <= Value(x, m)
           /\ compare(x, y, m) < 0 <=> Value(x, m) < Value(y, m)
  <1> DEFINE different == {k \in 1 .. m : x[k] # y[k]}
             top == Max(different)
  <1>1. compare(x, y, m) = IF different = {} THEN 0
                           ELSE IF x[top] > y[top] THEN 1 ELSE -1
    BY DEF compare
  <1>2. PICK a \in Int, b \in Int : a = Value(x, m) /\ b = Value(y, m)
    <2>1. m \in 0 .. m
      BY SMT
    <2> QED  BY <2>1, ValueInt
  <1>3. CASE different = {}
    <2>1. 0 \in 0 .. m /\ (\A k \in 0 + 1 .. m : x[k] = y[k])
      BY <1>3, SMT
    <2>2. Value(x, m) - Value(y, m) = Value(x, 0) - Value(y, 0)
      BY <2>1, SameTop
    <2>3. Value(x, 0) = 0 /\ Value(y, 0) = 0
      BY ValueOfWords
    <2>4. a = b
      <3>1. a - b = 0 - 0
        BY <1>2, <2>2, <2>3, Zenon
      <3> QED  BY <3>1, SMT
    <2>5. compare(x, y, m) = 0
      BY <1>1, <1>3
    <2> QED  BY <1>2, <2>4, <2>5, SMT
  <1>4. CASE different # {}
    <2>1. top \in different /\ \A k \in different : k <= top
      <3>1. different \in SUBSET (0 .. m)
        BY SMT
      <3> HIDE DEF different
      <3> QED  BY <1>4, <3>1, LargestNumber
    <2>2. PICK t \in 1 .. m : t = top
      BY <2>1
    <2>3. x[t] # y[t]
      BY <2>1, <2>2
    <2>4. t \in 0 .. m /\ \A k \in t + 1 .. m : k \in 1 .. m /\ ~ (k <= t)
      BY SMT
    <2>5. \A k \in t + 1 .. m : x[k] = y[k]
      BY <2>1, <2>2, <2>4
    <2>6. Value(x, m) - Value(y, m) = Value(x, t) - Value(y, t)
      BY <2>4, <2>5, SameTop
    <2>7. /\ Value(x, t) = Value(x, t - 1) + x[t] * Weight(t - 1)
          /\ Value(y, t) = Value(y, t - 1) + y[t] * Weight(t - 1)
          /\ Value(x, t - 1) \in Nat /\ Value(y, t - 1) \in Nat /\ Weight(t - 1) \in Nat
          /\ Value(x, t - 1) < Weight(t - 1) /\ Value(y, t - 1) < Weight(t - 1)
          /\ x[t] \in 0 .. Base - 1 /\ y[t] \in 0 .. Base - 1
      BY ValueTop
    <2>8. x[t] \in Nat /\ y[t] \in Nat
      BY <2>7, WordIs
    <2>9. PICK u \in Nat, v \in Nat, c \in Nat, d \in Nat, g \in Nat :
             /\ u = Value(x, t - 1) /\ v = Value(y, t - 1) /\ g = Weight(t - 1)
             /\ c = x[t] /\ d = y[t]
      BY <2>7, <2>8, Zenon
    <2>10. a - b = (u + c * g) - (v + d * g) /\ u < g /\ v < g /\ c # d
      BY <1>2, <2>3, <2>6, <2>7, <2>9
    <2>11. c > d => a > b
      <3>1. c >= d + 1 => c * g >= d * g + g
        <4>1. c >= d + 1 => c * g >= (d + 1) * g
          BY LessTimes, SMT
        <4>2. (d + 1) * g = d * g + g
          BY SMT
        <4> QED  BY <4>1, <4>2
      <3> QED  BY <2>10, <3>1, SMT
    <2>12. c < d => a < b
      <3>1. d >= c + 1 => d * g >= c * g + g
        <4>1. d >= c + 1 => d * g >= (c + 1) * g
          BY LessTimes, SMT
        <4>2. (c + 1) * g = c * g + g
          BY SMT
        <4> QED  BY <4>1, <4>2
      <3> QED  BY <2>10, <3>1, SMT
    <2>13. compare(x, y, m) = IF c > d THEN 1 ELSE -1
      BY <1>1, <1>4, <2>2, <2>9
    <2>14. c > d \/ c < d
      BY <2>10, SMT
    <2>15. CASE c > d
      BY <1>2, <2>11, <2>13, <2>15, SMT
    <2>16. CASE c < d
      BY <1>2, <2>12, <2>13, <2>16, SMT
    <2> QED  BY <2>14, <2>15, <2>16
  <1> QED  BY <1>3, <1>4

-----------------------------------------------------------------------------
(* Arrays that are cut, extended and moved.                                  *)

\* Zeros are an array of value 0.
LEMMA ZerosAre ==
    ASSUME NEW m \in Nat
    PROVE  /\ Zeros(m) \in Arrays(m) /\ \A k \in 1 .. m : Zeros(m)[k] = 0
           /\ Value(Zeros(m), m) = 0
  <1>1. 0 \in Word
    BY WordIs, SMT
  <1>2. Zeros(m) \in Arrays(m) /\ \A k \in 1 .. m : Zeros(m)[k] = 0
    BY <1>1 DEF Zeros, Arrays
  <1>3. Words(Zeros(m), m)
    BY <1>2, ArrayIs
  <1>4. 0 \in 0 .. m /\ 0 + 1 = 1
    BY SMT
  <1>5. Value(Zeros(m), m) = Value(Zeros(m), 0)
    BY <1>2, <1>3, <1>4, ValueShort
  <1> QED  BY <1>2, <1>3, <1>5, ValueOfWords

\* The first words of an array.
LEMMA FirstWords ==
    ASSUME NEW m \in Nat, NEW x \in Arrays(m), NEW p \in 0 .. m
    PROVE  /\ SubSeq(x, 1, p) \in Arrays(p) /\ Value(SubSeq(x, 1, p), p) = Value(x, p)
           /\ \A k \in 1 .. p : SubSeq(x, 1, p)[k] = x[k]
  <1>1. p \in Nat /\ p \in Int /\ 1 \in Int /\ (p - 1) + 1 = p /\ \A k \in 1 .. p : k \in 1 .. m
    BY SMT
  <1>2. Words(x, m)
    BY ArrayIs
  <1>3. Words(x, p) /\ \A k \in 1 .. p : x[k] \in Word
    BY <1>1, <1>2 DEF Words
  <1>4. /\ SubSeq(x, 1, p) \in Seq(Word)
        /\ Len(SubSeq(x, 1, p)) = IF 1 <= p THEN (p - 1) + 1 ELSE 0
        /\ \A k \in 1 .. (p - 1) + 1 : SubSeq(x, 1, p)[k] = x[(1 + k) - 1]
    BY <1>1, <1>3, SubSeqProperties
  <1>5. Len(SubSeq(x, 1, p)) = p
    BY <1>1, <1>4, SMT
  <1>6. \A k \in 1 .. p : SubSeq(x, 1, p)[k] = x[k]
    <2>1. \A k \in 1 .. p : (1 + k) - 1 = k
      BY SMT
    <2> QED  BY <1>1, <1>4, <2>1
  <1>7. SubSeq(x, 1, p) \in Arrays(p)
    BY <1>4, <1>5, LenProperties DEF Arrays
  <1>8. p \in 0 .. p
    BY <1>1, SMT
  <1>9. Value(SubSeq(x, 1, p), p) = Value(x, p)
    <2>1. \A u \in 0 .. p : Value(SubSeq(x, 1, p), u) = Value(x, u)
      BY <1>1, <1>3, <1>6, ValueSame, ZenonT(60)
    <2> QED  BY <1>8, <2>1
  <1> QED  BY <1>6, <1>7, <1>9

\* Two arrays, one after the other.
LEMMA Joined ==
    ASSUME NEW p \in Nat, NEW q \in Nat, NEW x \in Arrays(p), NEW y \in Arrays(q)
    PROVE  /\ x \o y \in Arrays(p + q)
           /\ \A k \in 1 .. p : (x \o y)[k] = x[k]
           /\ \A k \in 1 .. q : (x \o y)[p + k] = y[k]
  <1>1. x \in Seq(Word) /\ Len(x) = p /\ y \in Seq(Word) /\ Len(y) = q
    BY ArrayIs
  <1>2. /\ x \o y \in Seq(Word) /\ Len(x \o y) = p + q
        /\ \A k \in 1 .. p + q : (x \o y)[k] = IF k <= p THEN x[k] ELSE y[k - p]
    BY <1>1, ConcatProperties
  <1>3. x \o y \in Arrays(p + q)
    BY <1>2, LenProperties DEF Arrays
  <1>4. /\ \A k \in 1 .. p : k \in 1 .. p + q /\ k <= p
        /\ \A k \in 1 .. q : p + k \in 1 .. p + q /\ ~ (p + k <= p) /\ (p + k) - p = k
    BY SMT
  <1> QED  BY <1>2, <1>3, <1>4

\* Zeros above a number leave its value.
LEMMA ExtendedIs ==
    ASSUME NEW p \in Nat, NEW m \in Nat, p <= m, NEW x \in Arrays(p)
    PROVE  /\ Extended(x, m) \in Arrays(m) /\ Value(Extended(x, m), m) = Value(x, p)
           /\ \A k \in 1 .. p : Extended(x, m)[k] = x[k]
  <1>1. m - p \in Nat /\ p + (m - p) = m /\ p \in 0 .. m /\ p \in 0 .. p
    BY SMT
  <1>2. Words(x, p) /\ Len(x) = p
    BY ArrayIs
  <1>3. Zeros(m - p) \in Arrays(m - p) /\ \A k \in 1 .. m - p : Zeros(m - p)[k] = 0
    BY <1>1, ZerosAre
  <1>4. Extended(x, m) = x \o Zeros(m - p)
    BY <1>2 DEF Extended
  <1>5. /\ Extended(x, m) \in Arrays(m)
        /\ \A k \in 1 .. p : Extended(x, m)[k] = x[k]
        /\ \A k \in 1 .. m - p : Extended(x, m)[p + k] = 0
    <2> DEFINE z == Zeros(m - p)
    <2> HIDE DEF z
    <2>1. z \in Arrays(m - p) /\ (\A k \in 1 .. m - p : z[k] = 0) /\ Extended(x, m) = x \o z
      BY <1>3, <1>4 DEF z
    <2>2. /\ x \o z \in Arrays(p + (m - p)) /\ \A k \in 1 .. p : (x \o z)[k] = x[k]
          /\ \A k \in 1 .. m - p : (x \o z)[p + k] = z[k]
      BY <1>1, <2>1, Joined
    <2> QED  BY <1>1, <2>1, <2>2
  <1>6. \A k \in p + 1 .. m : Extended(x, m)[k] = 0
    <2>1. ASSUME NEW k \in p + 1 .. m PROVE k - p \in 1 .. m - p /\ p + (k - p) = k
      BY SMT
    <2> QED  BY <1>5, <2>1
  <1>7. Words(Extended(x, m), m)
    BY <1>5, ArrayIs
  <1>8. Value(Extended(x, m), m) = Value(Extended(x, m), p)
    BY <1>1, <1>6, <1>7, ValueShort
  <1>9. Value(Extended(x, m), p) = Value(x, p)
    <2>1. \A u \in 0 .. p : Value(Extended(x, m), u) = Value(x, u)
      <3>1. \A k \in 1 .. p : Extended(x, m)[k] = x[k]
        BY <1>5
      <3>2. Words(x, p)
        BY <1>2
      <3> QED  BY <3>1, <3>2, ValueSame
    <2> QED  BY <1>1, <2>1
  <1> QED  BY <1>5, <1>8, <1>9

\* Zeros below move a number up by whole words.
LEMMA ZerosBelow ==
    ASSUME NEW p \in Nat, NEW q \in Nat, NEW y \in Arrays(p)
    PROVE  /\ Zeros(q) \o y \in Arrays(q + p)
           /\ Value(Zeros(q) \o y, q + p) = Value(y, p) * Weight(q)
  <1> DEFINE x == Zeros(q) \o y
             S == {k \in Nat : k <= p => Value(x, q + k) = Value(y, k) * Weight(q)}
  <1>1. Zeros(q) \in Arrays(q) /\ Value(Zeros(q), q) = 0
    BY ZerosAre
  <1>2. /\ x \in Arrays(q + p)
        /\ \A k \in 1 .. q : x[k] = Zeros(q)[k]
        /\ \A k \in 1 .. p : x[q + k] = y[k]
    BY <1>1, Joined
  <1> HIDE DEF x
  <1>3. Words(x, q + p) /\ Words(y, p) /\ Words(Zeros(q), q) /\ q + p \in Nat
    <2>1. q + p \in Nat
      BY SMT
    <2> QED  BY <1>1, <1>2, <2>1, ArrayIs
  <1>4. 0 \in S
    <2>1. q \in 0 .. q /\ q + 0 = q
      BY SMT
    <2>2. Value(x, q) = 0
      BY <1>1, <1>2, <1>3, <2>1, ValueSame
    <2>3. Value(y, 0) = 0 /\ Weight(q) \in Nat
      BY <1>3, ValueOfWords, WeightIs
    <2>4. 0 * Weight(q) = 0
      BY <2>3, SMT
    <2> QED  BY <2>1, <2>2, <2>3, <2>4
  <1>5. ASSUME NEW k \in Nat, k \in S PROVE k + 1 \in S
    <2>1. CASE k + 1 <= p
      <3>1. /\ k + 1 \in 1 .. p /\ k <= p /\ q + (k + 1) \in 1 .. q + p
            /\ (q + (k + 1)) - 1 = q + k /\ (k + 1) - 1 = k
        BY <2>1, SMT
      <3>2. Value(x, q + (k + 1)) = Value(x, q + k) + y[k + 1] * Weight(q + k)
        BY <1>2, <1>3, <3>1, ValueTop
      <3>3. /\ Value(y, k + 1) = Value(y, k) + y[k + 1] * Weight(k)
            /\ Value(y, k) \in Nat /\ y[k + 1] \in 0 .. Base - 1
        BY <1>3, <3>1, ValueTop
      <3>4. Weight(q + k) = Weight(q) * Weight(k) /\ Weight(q) \in Nat /\ Weight(k) \in Nat
        BY WeightPlus
      <3>5. PICK u \in Nat, c \in Nat, g \in Nat, h \in Nat :
               /\ u = Value(y, k) /\ c = y[k + 1] /\ g = Weight(q) /\ h = Weight(k)
        BY <3>3, <3>4, WordIs
      <3>6. u * g + c * (g * h) = (u + c * h) * g
        BY SMT
      <3> QED  BY <1>5, <3>1, <3>2, <3>3, <3>4, <3>5, <3>6
    <2>2. CASE ~ (k + 1 <= p)
      BY <2>2
    <2> QED  BY <2>1, <2>2
  <1>6. Nat \subseteq S
    <2> HIDE DEF S
    <2> QED  BY <1>4, <1>5, Induction
  <1>7. p <= p
    BY SMT
  <1> QED  BY <1>2, <1>6, <1>7 DEF x

\* The array of a number that is not too long for it.
LEMMA NumberIs ==
    ASSUME NEW m \in Nat, NEW v \in Nat, v < Weight(m)
    PROVE  Number(v, m) \in Arrays(m) /\ Value(Number(v, m), m) = v
  <1> DEFINE x == Number(v, m)
             S == {k \in Nat : k <= m => Value(x, k) = v % Weight(k)}
  <1>1. ASSUME NEW k \in Nat
        PROVE  /\ Weight(k) \in Nat /\ Weight(k) > 0 /\ v \div Weight(k) \in Nat
               /\ v % Weight(k) \in Nat
    <2>1. Weight(k) \in Nat /\ Weight(k) > 0
      BY WeightIs
    <2>2. PICK g \in Nat : g = Weight(k) /\ g > 0
      BY <2>1
    <2>3. v \in Int /\ v >= 0
      BY SMT
    <2>4. v \div g \in Int /\ v % g \in 0 .. g - 1 /\ v \div g >= 0
      BY <2>2, <2>3, Divided
    <2>5. v \div g \in Nat /\ v % g \in Nat
      BY <2>4, SMT
    <2> QED  BY <2>1, <2>2, <2>5
  <1>2. ASSUME NEW k \in 1 .. m
        PROVE  x[k] = (v \div Weight(k - 1)) % Base /\ x[k] \in Word
    <2>1. k - 1 \in Nat
      BY SMT
    <2>2. v \div Weight(k - 1) \in Int
      BY <1>1, <2>1, SMT
    <2> QED  BY <2>2, WordIs DEF Number, Weight
  <1>3. x \in Arrays(m)
    BY <1>2 DEF Arrays, Number, Weight
  <1> HIDE DEF x
  <1>4. Words(x, m)
    BY <1>2 DEF Words
  <1>5. 0 \in S
    <2>1. Value(x, 0) = 0 /\ Weight(0) = 1
      BY <1>4, ValueOfWords, WeightIs
    <2>2. v % 1 = 0
      BY SMT
    <2> QED  BY <2>1, <2>2
  <1>6. ASSUME NEW k \in Nat, k \in S PROVE k + 1 \in S
    <2>1. CASE k + 1 <= m
      <3>1. k + 1 \in 1 .. m /\ (k + 1) - 1 = k /\ k <= m
        BY <2>1, SMT
      <3>2. Value(x, k + 1) = Value(x, k) + x[k + 1] * Weight(k)
        BY <1>4, <3>1, ValueTop
      <3>3. x[k + 1] = (v \div Weight(k)) % Base
        BY <1>2, <3>1
      <3>4. Value(x, k) = v % Weight(k) /\ Weight(k + 1) = Base * Weight(k)
        BY <1>6, <3>1, WeightIs
      <3>5. PICK g \in Nat, h \in Nat : g = Weight(k) /\ h = Base /\ g > 0 /\ h > 0
        <4>1. Base \in Nat /\ Base > 0
          BY Sizes, SMT
        <4> QED  BY <1>1, <4>1
      <3>6. PICK d \in Int, r \in 0 .. g - 1 : d = v \div g /\ r = v % g /\ v = g * d + r
        <4>1. v \in Int
          BY SMT
        <4> QED  BY <3>5, <4>1, Divided
      <3>a. v = g * d + r
        BY <3>6
      <3>7. PICK e \in Int, f \in 0 .. h - 1 : f = d % h /\ d = h * e + f
        BY <3>5, Divided, ZenonT(60)
      <3>b. d = h * e + f
        BY <3>7
      <3>8. v = (h * g) * e + (r + f * g)
        <4>1. g * (h * e + f) = (h * g) * e + f * g
          BY SMT
        <4> QED  BY <3>a, <3>b, <4>1, SMT
      <3>9. r + f * g \in 0 .. (h * g) - 1 /\ h * g \in Nat /\ h * g > 0
        <4>1. (f + 1) * g <= h * g
          BY LessTimes, SMT
        <4>2. (f + 1) * g = f * g + g /\ f * g \in Nat /\ h * g \in Nat
          BY SMT
        <4> QED  BY <3>5, <4>1, <4>2, SMT
      <3>10. v % (h * g) = r + f * g
        BY <3>8, <3>9, DividedIs, SMTT(30)
      <3>11. Value(x, k + 1) = r + f * g
        BY <3>2, <3>3, <3>4, <3>5, <3>6, <3>7, Zenon
      <3>12. v % Weight(k + 1) = r + f * g
        BY <3>4, <3>5, <3>10, Zenon
      <3> QED  BY <3>11, <3>12
    <2>2. CASE ~ (k + 1 <= m)
      BY <2>2
    <2> QED  BY <2>1, <2>2
  <1>7. Nat \subseteq S
    <2> HIDE DEF S
    <2> QED  BY <1>5, <1>6, Induction
  <1>8. Value(x, m) = v % Weight(m)
    <2>1. m <= m
      BY SMT
    <2> QED  BY <1>7, <2>1
  <1>9. v % Weight(m) = v
    <2>1. v \in Int /\ v >= 0
      BY SMT
    <2> QED  BY <1>1, <2>1, Remainder
  <1> QED  BY <1>3, <1>8, <1>9 DEF x

-----------------------------------------------------------------------------
(* Shifts.                                                                   *)

\* One turn of a shift to the left by part of a word (rsa.c:305-317).
LEMMA LeftTurn ==
    ASSUME NEW h \in Nat, NEW t \in Nat, NEW u \in Nat, t > 0, u > 0, h = t * u,
           NEW w \in 0 .. h - 1, NEW v \in 0 .. t - 1
    PROVE  /\ ((w * t) % h) + v \in 0 .. h - 1 /\ (w * t) \div h \in 0 .. t - 1
           /\ w * t + v = (((w * t) % h) + v) + ((w * t) \div h) * h
  <1>1. w \in Int /\ h > 0 /\ w * t \in Int
    <2>1. t * u > 0
      BY Products
    <2> QED  BY <2>1, SMT
  <1>2. PICK a \in Int, b \in 0 .. u - 1 : w = u * a + b
    <2>1. w \div u \in Int /\ w % u \in 0 .. u - 1 /\ w = u * (w \div u) + (w % u)
      BY <1>1, Divided
    <2> QED  BY <2>1
  <1>3. w * t = h * a + b * t
    <2>1. (u * a + b) * t = (t * u) * a + b * t
      BY SMT
    <2> QED  BY <1>2, <2>1
  <1>4. b * t \in 0 .. h - 1 /\ b * t + v \in 0 .. h - 1 /\ b * t \in Int
    <2>1. (b + 1) * t <= u * t
      BY LessTimes, SMT
    <2>2. (b + 1) * t = b * t + t /\ u * t = t * u /\ b * t \in Nat
      BY SMT
    <2> QED  BY <2>1, <2>2, SMT
  <1>5. (w * t) \div h = a /\ (w * t) % h = b * t
    BY <1>1, <1>3, <1>4, DividedIs
  <1>6. a \in 0 .. t - 1
    <2>1. a >= 0
      <3>1. a <= 0 - 1 => u * a <= 0 - u
        BY SMT
      <3> QED  BY <1>2, <3>1, SMT
    <2>2. a < t
      <3>1. a >= t => u * a >= t * u
        BY LessTimes, SMT
      <3> QED  BY <1>2, <3>1, SMT
    <2> QED  BY <2>1, <2>2, SMT
  <1>7. w * t + v = (b * t + v) + a * h
    <2>1. h * a = a * h /\ a * h \in Int
      BY SMT
    <2>2. PICK c \in Int, d \in Int, e \in Int : c = w * t /\ d = b * t /\ e = a * h
      BY <1>1, <1>4, <2>1
    <2>3. c = e + d
      BY <1>3, <2>1, <2>2
    <2>4. c + v = (d + v) + e
      BY <2>3, SMT
    <2> QED  BY <2>2, <2>4
  <1> QED  BY <1>4, <1>5, <1>6, <1>7

\* A number that has room is multiplied.
LEMMA ShiftLeftIs ==
    ASSUME NEW m \in Nat, NEW x \in Arrays(m), NEW s \in Nat, s <= Bits * m
    PROVE  /\ slnbignum(x, m, s) \in Arrays(m)
           /\ Value(x, m) * TwoTo[s] < Weight(m) =>
                 Value(slnbignum(x, m, s), m) = Value(x, m) * TwoTo[s]
  <1>1. PICK q \in 0 .. m, r \in 0 .. Bits - 1 : q = s \div Bits /\ r = s % Bits /\ s = Bits * q + r
    <2>1. s \in Int /\ s >= 0 /\ Bits \in Nat /\ Bits > 0
      BY Sizes, SMT
    <2>2. /\ s \div Bits \in Int /\ s % Bits \in 0 .. Bits - 1
          /\ s = Bits * (s \div Bits) + (s % Bits) /\ s \div Bits >= 0
      BY <2>1, Divided
    <2>3. s \div Bits <= m
      <3>1. PICK d \in Int, e \in Int, h \in Nat :
               d = s \div Bits /\ e = s % Bits /\ h = Bits /\ e >= 0 /\ h > 0
        <4>1. s % Bits \in Int /\ s % Bits >= 0
          BY <2>1, <2>2, SMT
        <4> QED  BY <2>1, <2>2, <4>1
      <3>2. s = h * d + e /\ s <= h * m
        BY <2>2, <3>1
      <3>3. d >= m + 1 => h * d >= h * m + h
        <4>1. d >= m + 1 => d * h >= (m + 1) * h
          BY LessTimes, SMT
        <4>2. d * h = h * d /\ (m + 1) * h = h * m + h
          BY SMT
        <4> QED  BY <4>1, <4>2
      <3>4. h * d \in Int /\ h * m \in Int
        BY SMT
      <3>5. d <= m
        BY <3>1, <3>2, <3>3, <3>4, SMT
      <3> QED  BY <3>1, <3>5
    <2>4. s \div Bits \in 0 .. m
      BY <2>2, <2>3, SMT
    <2> QED  BY <2>2, <2>4
  <1>2. q \in Nat /\ m - q \in Nat /\ q + (m - q) = m /\ m - q \in 0 .. m /\ r \in Nat
        /\ Bits - r \in Nat /\ r + (Bits - r) = Bits
    <2>1. Bits \in Nat
      BY Sizes
    <2> QED  BY <2>1, SMT
  <1>3. PICK t \in Nat, u \in Nat, h \in Nat :
           t = TwoTo[r] /\ u = TwoTo[Bits - r] /\ t > 0 /\ u > 0 /\ h = t * u /\ h = Base
    <2>1. /\ TwoTo[r] \in Nat /\ TwoTo[r] > 0
          /\ TwoTo[Bits - r] \in Nat /\ TwoTo[Bits - r] > 0
      BY <1>2, TwoToType
    <2>2. TwoTo[r + (Bits - r)] = TwoTo[r] * TwoTo[Bits - r]
      BY <1>2, TwoToPlus
    <2> QED  BY <1>2, <2>1, <2>2, Sizes
  <1> DEFINE y == SubSeq(x, 1, m - q)
             moved == Zeros(q) \o y
             step == [k \in 1 .. m |-> [carry \in Word |->
                        << ((moved[k] * t) % Base) + carry, (moved[k] * t) \div Base >>]]
             total == [k \in 1 .. m |-> moved[k] * t]
             all == [k \in 0 .. m |-> Value(moved, k) * t]
  <1>4. slnbignum(x, m, s) = Loop(step, m).words
    BY <1>1, <1>3 DEF slnbignum
  <1>5. y \in Arrays(m - q) /\ Value(y, m - q) = Value(x, m - q)
    BY <1>2, FirstWords
  <1>6. moved \in Arrays(m) /\ Value(moved, m) = Value(y, m - q) * Weight(q)
    <2> HIDE DEF y
    <2>1. /\ Zeros(q) \o y \in Arrays(q + (m - q))
          /\ Value(Zeros(q) \o y, q + (m - q)) = Value(y, m - q) * Weight(q)
      BY <1>2, <1>5, ZerosBelow
    <2> QED  BY <1>2, <2>1
  <1> HIDE DEF moved, y
  <1>7. Words(moved, m)
    BY <1>6, ArrayIs
  <1>8. ASSUME NEW k \in 1 .. m PROVE moved[k] \in 0 .. h - 1 /\ moved[k] \in Nat
    BY <1>3, <1>7, WordIs DEF Words
  <1>9. ASSUME NEW k \in 1 .. m, NEW v \in 0 .. t - 1
        PROVE  /\ ((moved[k] * t) % Base) + v \in Word
               /\ (moved[k] * t) \div Base \in 0 .. t - 1
               /\ moved[k] * t + v = (((moved[k] * t) % Base) + v) + ((moved[k] * t) \div Base) * Base
    <2>1. /\ ((moved[k] * t) % h) + v \in 0 .. h - 1
          /\ (moved[k] * t) \div h \in 0 .. t - 1
          /\ moved[k] * t + v = (((moved[k] * t) % h) + v) + ((moved[k] * t) \div h) * h
      <3>1. t > 0 /\ u > 0 /\ h = t * u
        BY <1>3
      <3>2. ASSUME NEW w \in 0 .. h - 1
            PROVE  /\ ((w * t) % h) + v \in 0 .. h - 1 /\ (w * t) \div h \in 0 .. t - 1
                   /\ w * t + v = (((w * t) % h) + v) + ((w * t) \div h) * h
        BY <3>1, LeftTurn
      <3> QED  BY <1>8, <3>2, Zenon
    <2> QED  BY <1>3, <2>1, WordIs
  <1>10. 0 .. t - 1 \in SUBSET Word /\ 0 \in 0 .. t - 1 /\ 1 \in Int
    <2>1. t <= h
      BY <1>3, Products
    <2>2. \A v \in 0 .. t - 1 : v \in 0 .. h - 1
      BY <2>1, SMT
    <2>3. 0 \in 0 .. t - 1 /\ 1 \in Int
      BY <1>3, SMT
    <2> QED  BY <1>3, <2>2, <2>3, WordIs
  <1>11. step \in [1 .. m -> [Word -> Int \X Word]]
    <2>1. ASSUME NEW k \in 1 .. m, NEW carry \in Word
          PROVE  /\ ((moved[k] * t) % Base) + carry \in Int
                 /\ (moved[k] * t) \div Base \in Word
      <3>1. (moved[k] * t) \div Base \in Word
        BY <1>9, <1>10
      <3>2. moved[k] * t \in Int
        BY <1>8, SMT
      <3>3. (moved[k] * t) % Base \in Nat /\ carry \in Nat
        BY <3>2, WordIs
      <3>4. ((moved[k] * t) % Base) + carry \in Int
        BY <3>3, SMT
      <3> QED  BY <3>1, <3>4
    <2> QED  BY <2>1
  <1>12. total \in [1 .. m -> Int]
    BY <1>8, SMT
  <1>13. ASSUME NEW k \in 0 .. m PROVE Value(moved, k) \in Int
    BY <1>7, ValueInt
  <1>14. all \in [0 .. m -> Int]
    BY <1>13, SMT
  <1>15. ASSUME NEW k \in 1 .. m, NEW v \in 0 .. t - 1
         PROVE  /\ step[k][v][1] \in Word /\ step[k][v][2] \in 0 .. t - 1
                /\ total[k] + 1 * v = step[k][v][1] + (1 * step[k][v][2]) * Base
    <2>1. v \in Word
      BY <1>10
    <2>2. /\ step[k][v][1] = ((moved[k] * t) % Base) + v
          /\ step[k][v][2] = (moved[k] * t) \div Base
      BY <2>1
    <2>3. \A a \in 0 .. t - 1 : 1 * a = a
      BY SMT
    <2>4. total[k] = moved[k] * t
      OBVIOUS
    <2> HIDE DEF step, total
    <2> QED  BY <1>9, <2>2, <2>3, <2>4
  <1>16. all[0] = 0
    <2>1. Value(moved, 0) = 0 /\ 0 \in 0 .. m /\ 0 * t = 0
      BY <1>7, ValueOfWords, SMT
    <2> QED  BY <2>1
  <1>17. ASSUME NEW k \in 1 .. m PROVE all[k] = all[k - 1] + total[k] * Weight(k - 1)
    <2>1. k - 1 \in 0 .. m /\ k \in 0 .. m
      BY SMT
    <2>2. Value(moved, k) = Value(moved, k - 1) + moved[k] * Weight(k - 1) /\ Weight(k - 1) \in Nat
      BY <1>7, ValueTop
    <2>3. PICK a \in Int, c \in Nat, g \in Nat :
             a = Value(moved, k - 1) /\ c = moved[k] /\ g = Weight(k - 1)
      BY <1>8, <1>13, <2>1, <2>2, Zenon
    <2>4. (a + c * g) * t = a * t + (c * t) * g
      BY SMT
    <2> QED  BY <2>1, <2>2, <2>3, <2>4
  <1> HIDE DEF step, total, all
  <1>18. /\ Loop(step, m).words \in [1 .. m -> Word] /\ Loop(step, m).carry \in 0 .. t - 1
         /\ Value(Loop(step, m).words, m) + (1 * Loop(step, m).carry) * Weight(m) = all[m]
    BY <1>10, <1>11, <1>12, <1>14, <1>15, <1>16, <1>17, LoopCounts, ZenonT(60)
  <1>19. m \in 0 .. m
    BY SMT
  <1>20. ASSUME Value(x, m) * TwoTo[s] < Weight(m)
         PROVE  Value(Loop(step, m).words, m) = Value(x, m) * TwoTo[s]
    <2>1. Words(x, m) /\ Words(Loop(step, m).words, m)
      BY <1>18, ArrayIs DEF Words
    <2>2. PICK v \in Nat, w \in Nat, c \in Nat, g \in Nat, f \in Nat, e \in Nat, z \in Nat :
             /\ v = Value(x, m) /\ w = Value(Loop(step, m).words, m)
             /\ c = Loop(step, m).carry /\ g = Weight(m) /\ f = Weight(q) /\ e = Weight(m - q)
             /\ z = TwoTo[s]
      <3>1. Loop(step, m).carry \in Nat
        BY <1>18, SMT
      <3>2. Value(x, m) \in Nat /\ Value(Loop(step, m).words, m) \in Nat
        BY <1>19, <2>1, ValueInt
      <3>3. Weight(m) \in Nat /\ Weight(q) \in Nat /\ Weight(m - q) \in Nat /\ TwoTo[s] \in Nat
        BY <1>2, WeightIs, TwoToType
      <3> QED  BY <3>1, <3>2, <3>3, Zenon
    <2>3. z = f * t /\ g = f * e /\ f > 0
      <3>1. Bits * q \in Nat /\ Weight(q) > 0
        BY <1>2, WeightIs
      <3>2. TwoTo[Bits * q + r] = TwoTo[Bits * q] * TwoTo[r]
        BY <1>2, <3>1, TwoToPlus
      <3>3. Weight(q + (m - q)) = Weight(q) * Weight(m - q)
        BY <1>2, WeightPlus
      <3> QED  BY <1>1, <1>2, <1>3, <2>2, <3>1, <3>2, <3>3 DEF Weight
    <2>4. v * z < g
      BY <1>20, <2>2
    <2>5. v < e
      <3>1. v * (f * t) = (v * f) * t /\ v * f \in Nat
        BY SMT
      <3>2. v * f <= (v * f) * t
        <4>1. PICK a \in Nat : a = v * f
          BY <3>1
        <4>2. a <= a * t
          BY <1>3, SMT
        <4> QED  BY <4>1, <4>2
      <3>3. v * f < e * f
        <4>1. e * f = f * e /\ v * f \in Int /\ (v * f) * t \in Int
          BY SMT
        <4>2. (v * f) * t < g
          BY <2>3, <2>4, <3>1
        <4>3. v * f < g
          <5>1. PICK a \in Int, b \in Int : a = v * f /\ b = (v * f) * t
            BY <4>1
          <5>2. a <= b /\ b < g
            BY <3>2, <4>2, <5>1
          <5>3. a < g
            BY <5>2, SMT
          <5> QED  BY <5>1, <5>3
        <4> QED  BY <2>3, <4>1, <4>3
      <3> QED  BY <3>3, LessTimes, SMT
    <2>6. Value(x, m - q) = v
      BY <1>2, <2>1, <2>2, <2>5, ValueLow
    <2>7. all[m] = (v * f) * t
      BY <1>5, <1>6, <1>19, <2>2, <2>6 DEF all
    <2>8. w + (1 * c) * g = v * z
      <3>1. v * (f * t) = (v * f) * t
        BY SMT
      <3> QED  BY <1>18, <2>2, <2>3, <2>7, <3>1
    <2>9. c = 0
      <3>1. c >= 1 => (1 * c) * g >= g
        <4>1. c >= 1 => (c - 1) * g >= 0
          BY SMT
        <4>2. (1 * c) * g = (c - 1) * g + g
          BY SMT
        <4> QED  BY <4>1, <4>2, SMT
      <3> QED  BY <2>4, <2>8, <3>1, SMT
    <2>10. (1 * 0) * g = 0 /\ w + 0 = w
      BY SMT
    <2> QED  BY <2>2, <2>8, <2>9, <2>10
  <1> QED  BY <1>4, <1>18, <1>20 DEF Arrays

\* One turn of a shift to the right by one bit (rsa.c:340-353).
LEMMA HalfTurn ==
    ASSUME NEW h \in Nat, NEW u \in Nat, u > 0, h = 2 * u, NEW w \in 0 .. h - 1
    PROVE  /\ w \div 2 \in 0 .. u - 1 /\ w % 2 \in 0 .. 1 /\ w = 2 * (w \div 2) + (w % 2)
           /\ (w * u) % h = (w % 2) * u
  <1>1. PICK a \in Int, b \in 0 .. 1 : a = w \div 2 /\ b = w % 2 /\ w = 2 * a + b
    BY SMT
  <1>2. a \in 0 .. u - 1 /\ w = 2 * a + b
    <2>1. w = 2 * a + b
      BY <1>1
    <2> QED  BY <2>1, SMT
  <1>3. w * u = h * a + b * u
    <2>1. (2 * a + b) * u = (2 * u) * a + b * u
      BY SMT
    <2> QED  BY <1>2, <2>1
  <1>4. b * u \in 0 .. h - 1 /\ w * u \in Int /\ h > 0
    <2>1. b = 0 => b * u = 0
      BY SMT
    <2>2. b = 1 => b * u = u
      BY SMT
    <2>3. b = 0 \/ b = 1
      BY SMT
    <2>4. w * u \in Int
      BY SMT
    <2> QED  BY <2>1, <2>2, <2>3, <2>4, SMT
  <1>5. (w * u) % h = b * u
    BY <1>3, <1>4, DividedIs
  <1> QED  BY <1>1, <1>2, <1>5

\* A shift by one bit halves, and an odd bit is lost.
LEMMA ShiftRightIs ==
    ASSUME NEW m \in Nat, NEW x \in Arrays(m)
    PROVE  /\ srnbignum(x, m, 1) \in Arrays(m)
           /\ \E b \in 0 .. 1 : Value(x, m) = 2 * Value(srnbignum(x, m, 1), m) + b
  <1>1. 1 \div Bits = 0 /\ 1 % Bits = 1 /\ 1 + 0 = 1
    <2>1. Bits \in Nat /\ Bits >= 2
      BY Sizes
    <2>2. Bits > 0 /\ 1 \in 0 .. Bits - 1 /\ 1 = Bits * 0 + 1 /\ 0 \in Int /\ 1 \in Int
      BY <2>1, SMT
    <2>3. 1 \div Bits = 0 /\ 1 % Bits = 1
      BY <2>1, <2>2, DividedIs
    <2> QED  BY <2>3
  <1>2. PICK u \in Nat, h \in Nat : u = TwoTo[Bits - 1] /\ h = Base /\ u > 0 /\ h = 2 * u
    <2>1. Bits \in Nat /\ Bits >= 2 /\ Base \in Nat /\ Base = TwoTo[Bits]
      BY Sizes
    <2>2. Bits - 1 \in Nat /\ (Bits - 1) + 1 = Bits
      BY <2>1, SMT
    <2> QED  BY <2>1, <2>2, TwoToIs, TwoToType
  <1>3. TwoTo[1] = 2
    <2>1. 0 \in Nat /\ 0 + 1 = 1 /\ 2 * 1 = 2
      BY SMT
    <2> QED  BY <2>1, TwoToIs
  <1> DEFINE moved == Extended(SubSeq(x, 1, m), m)
  <1>4. \A k \in 1 .. m : moved[k] = x[k]
    <2>1. m \in 0 .. m /\ m <= m
      BY SMT
    <2>2. SubSeq(x, 1, m) \in Arrays(m) /\ \A k \in 1 .. m : SubSeq(x, 1, m)[k] = x[k]
      BY <2>1, FirstWords
    <2>3. \A k \in 1 .. m : moved[k] = SubSeq(x, 1, m)[k]
      BY <2>1, <2>2, ExtendedIs
    <2> QED  BY <2>2, <2>3
  <1> HIDE DEF moved
  <1> DEFINE step == [k \in 1 .. m |-> [carry \in Word |->
                        << (moved[(m + 1) - k] \div 2) + carry,
                           CarriedDown(moved[(m + 1) - k], 1) >>]]
             r == srnbignum(x, m, 1)
  <1>5. r = [k \in 1 .. m |-> Loop(step, m).words[(m + 1) - k]]
    <2> DEFINE from == Extended(SubSeq(x, 1 + 1 \div Bits, m), m)
               written == [k \in 1 .. m |-> [carry \in Word |->
                            << (from[(m + 1) - k] \div TwoTo[1 % Bits]) + carry,
                               CarriedDown(from[(m + 1) - k], 1 % Bits) >>]]
    <2>1. srnbignum(x, m, 1) = Turned(Loop(written, m).words, m)
      BY DEF srnbignum
    <2>2. from = moved
      BY <1>1 DEF moved
    <2> HIDE DEF from
    <2>3. ASSUME NEW k \in 1 .. m PROVE written[k] = step[k]
      <3>1. ASSUME NEW w PROVE w \div TwoTo[1 % Bits] = w \div 2 /\ CarriedDown(w, 1 % Bits) = CarriedDown(w, 1)
        BY <1>1, <1>3
      <3> QED  BY <2>2, <3>1
    <2>4. written = step
      BY <2>3
    <2> HIDE DEF written, step
    <2> QED  BY <2>1, <2>4 DEF Turned
  <1>6. Words(x, m)
    BY ArrayIs
  <1>7. ASSUME NEW k \in 1 .. m
        PROVE  /\ x[k] \div 2 \in 0 .. u - 1 /\ x[k] % 2 \in 0 .. 1
               /\ x[k] = 2 * (x[k] \div 2) + (x[k] % 2)
               /\ CarriedDown(x[k], 1) = (x[k] % 2) * u
    <2>1. x[k] \in 0 .. h - 1
      BY <1>2, <1>6, WordIs DEF Words
    <2>2. CarriedDown(x[k], 1) = (x[k] * u) % h
      BY <1>2 DEF CarriedDown
    <2>3. PICK w \in 0 .. h - 1 : w = x[k]
      BY <2>1
    <2>4. /\ w \div 2 \in 0 .. u - 1 /\ w % 2 \in 0 .. 1 /\ w = 2 * (w \div 2) + (w % 2)
          /\ (w * u) % h = (w % 2) * u
      BY <1>2, HalfTurn
    <2> QED  BY <2>2, <2>3, <2>4
  <1>8. ASSUME NEW k \in 1 .. m PROVE (m + 1) - k \in 1 .. m /\ (m + 1) - ((m + 1) - k) = k
                                      /\ ((m + 1) - k) - 1 = m - k
    BY SMT
  <1>9. ASSUME NEW b \in 0 .. 1 PROVE b * u \in Word /\ b * u \in Nat /\ b * u <= u
    <2>1. b = 0 => b * u = 0
      BY SMT
    <2>2. b = 1 => b * u = u
      BY SMT
    <2>3. b = 0 \/ b = 1
      BY SMT
    <2>4. b * u \in 0 .. h - 1 /\ b * u \in Nat /\ b * u <= u
      BY <1>2, <2>1, <2>2, <2>3, SMT
    <2> QED  BY <1>2, <2>4, WordIs
  <1>10. step \in [1 .. m -> [Word -> Int \X Word]]
    <2>1. ASSUME NEW k \in 1 .. m, NEW carry \in Word
          PROVE  /\ (moved[(m + 1) - k] \div 2) + carry \in Int
                 /\ CarriedDown(moved[(m + 1) - k], 1) \in Word
      <3>1. (m + 1) - k \in 1 .. m
        BY <1>8
      <3>2. moved[(m + 1) - k] = x[(m + 1) - k]
        BY <1>4, <3>1
      <3>3. PICK d \in Int, e \in Int : d = moved[(m + 1) - k] \div 2 /\ e = carry
        <4>1. \A d \in 0 .. u - 1 : d \in Int
          BY SMT
        <4>2. carry \in Int
          BY WordIs, SMT
        <4> QED  BY <1>7, <3>1, <3>2, <4>1, <4>2
      <3>4. d + e \in Int
        BY SMT
      <3> QED  BY <1>7, <1>9, <3>1, <3>2, <3>3, <3>4
    <2> QED  BY <2>1
  <1>11. PICK c \in [0 .. m -> Word] :
            /\ c[0] = 0 /\ \A k \in 1 .. m : c[k] = step[k][c[k - 1]][2]
            /\ Loop(step, m) = [words |-> [k \in 1 .. m |-> step[k][c[k - 1]][1]],
                                carry |-> c[m]]
    <2> HIDE DEF step
    <2> QED  BY <1>10, LoopIs
  <1>12. ASSUME NEW k \in 1 .. m
         PROVE  /\ c[k] = (x[(m + 1) - k] % 2) * u
                /\ Loop(step, m).words[k] = (x[(m + 1) - k] \div 2) + c[k - 1]
    <2>1. k - 1 \in 0 .. m
      BY SMT
    <2>2. c[k - 1] \in Word
      BY <2>1
    <2>3. /\ step[k][c[k - 1]][1] = (moved[(m + 1) - k] \div 2) + c[k - 1]
          /\ step[k][c[k - 1]][2] = CarriedDown(moved[(m + 1) - k], 1)
      BY <2>2
    <2>4. c[k] = step[k][c[k - 1]][2] /\ Loop(step, m).words[k] = step[k][c[k - 1]][1]
      <3> HIDE DEF step
      <3> QED  BY <1>11
    <2> HIDE DEF step
    <2> QED  BY <1>4, <1>7, <1>8, <2>3, <2>4
  <1> DEFINE odd(k) == IF k = m THEN 0 ELSE x[k + 1] % 2
  <1>13. ASSUME NEW k \in 0 .. m PROVE odd(k) \in 0 .. 1 /\ c[m - k] = odd(k) * u
    <2>1. CASE k = m
      <3>1. m - k = 0 /\ 0 * u = 0 /\ 0 \in 0 .. 1
        BY <2>1, SMT
      <3> QED  BY <1>11, <2>1, <3>1
    <2>2. CASE k # m
      <3>1. m - k \in 1 .. m /\ (m + 1) - (m - k) = k + 1 /\ k + 1 \in 1 .. m
        BY <2>2, SMT
      <3>2. odd(k) = x[k + 1] % 2
        BY <2>2
      <3> QED  BY <1>7, <1>12, <3>1, <3>2
    <2> QED  BY <2>1, <2>2
  <1> HIDE DEF step, r
  <1>14. ASSUME NEW k \in 1 .. m
         PROVE  r[k] = (x[k] \div 2) + odd(k) * u /\ r[k] \in 0 .. h - 1
    <2>1. r[k] = Loop(step, m).words[(m + 1) - k]
      BY <1>5
    <2>2. r[k] = (x[k] \div 2) + c[m - k]
      BY <1>8, <1>12, <2>1
    <2>3. k \in 0 .. m
      BY SMT
    <2>4. PICK d \in 0 .. u - 1, e \in Nat : d = x[k] \div 2 /\ e = odd(k) * u /\ e <= u
      BY <1>7, <1>9, <1>13, <2>3
    <2>5. d + e \in 0 .. h - 1
      <3>1. h = 2 * u /\ e <= u
        BY <1>2, <2>4
      <3> QED  BY <3>1, SMT
    <2> QED  BY <1>13, <2>2, <2>3, <2>4, <2>5
  <1>15. r \in Arrays(m)
    <2>1. DOMAIN r = 1 .. m /\ r = [k \in 1 .. m |-> r[k]]
      BY <1>5
    <2>2. \A k \in 1 .. m : r[k] \in Word
      BY <1>2, <1>14, WordIs
    <2> QED  BY <2>1, <2>2 DEF Arrays
  <1>16. Words(r, m)
    BY <1>15, ArrayIs
  <1> HIDE DEF odd
  <1> DEFINE S == {k \in Nat : k <= m =>
                      2 * Value(r, k) + odd(0) = Value(x, k) + odd(k) * Weight(k)}
  <1>17. 0 \in S
    <2>1. Value(r, 0) = 0 /\ Value(x, 0) = 0 /\ Weight(0) = 1 /\ odd(0) \in 0 .. 1
      <3>1. 0 \in 0 .. m
        BY SMT
      <3> QED  BY <1>6, <1>13, <1>16, <3>1, ValueOfWords, WeightIs
    <2>2. \A b \in 0 .. 1 : 2 * 0 + b = 0 + b * 1
      BY SMT
    <2> QED  BY <2>1, <2>2
  <1>18. ASSUME NEW k \in Nat, k \in S PROVE k + 1 \in S
    <2>1. CASE k + 1 <= m
      <3>1. /\ k + 1 \in 1 .. m /\ (k + 1) - 1 = k /\ k <= m /\ k \in 0 .. m /\ k # m
            /\ k + 1 \in 0 .. m
        BY <2>1, SMT
      <3>2. /\ Value(r, k + 1) = Value(r, k) + r[k + 1] * Weight(k)
            /\ Value(x, k + 1) = Value(x, k) + x[k + 1] * Weight(k)
            /\ Value(r, k) \in Nat /\ Value(x, k) \in Nat
            /\ Weight(k) \in Nat /\ Weight(k + 1) = Base * Weight(k)
        <4>1. /\ Value(r, k + 1) = Value(r, k) + r[k + 1] * Weight(k)
              /\ Value(r, k) \in Nat /\ Weight(k) \in Nat
          BY <1>16, <3>1, ValueTop
        <4>2. /\ Value(x, k + 1) = Value(x, k) + x[k + 1] * Weight(k)
              /\ Value(x, k) \in Nat
          BY <1>6, <3>1, ValueTop
        <4> QED  BY <4>1, <4>2, WeightIs
      <3>3. odd(k) = x[k + 1] % 2
        BY <3>1 DEF odd
      <3>4. PICK a \in Nat, b \in Nat, g \in Nat, d \in 0 .. u - 1, e \in 0 .. 1,
                 f \in 0 .. 1, z \in 0 .. 1 :
               /\ a = Value(r, k) /\ b = Value(x, k) /\ g = Weight(k) /\ d = x[k + 1] \div 2
               /\ e = odd(k) /\ f = odd(k + 1) /\ z = odd(0)
        <4>1. 0 \in 0 .. m
          BY SMT
        <4> QED  BY <1>7, <1>13, <3>1, <3>2, <4>1
      <3>5. x[k + 1] = 2 * d + e /\ r[k + 1] = d + f * u
        BY <1>7, <1>14, <3>1, <3>3, <3>4
      <3>6. 2 * a + z = b + e * g
        BY <1>18, <3>1, <3>4
      <3>7. 2 * (a + (d + f * u) * g) + z = (b + (2 * d + e) * g) + f * (h * g)
        <4>1. (d + f * u) * g = d * g + f * (u * g)
          BY SMT
        <4>2. (2 * d + e) * g = 2 * (d * g) + e * g
          BY SMT
        <4>3. f * (h * g) = 2 * (f * (u * g))
          <5>1. f * ((2 * u) * g) = 2 * (f * (u * g))
            BY SMT
          <5> QED  BY <1>2, <5>1
        <4>4. d * g \in Int /\ f * (u * g) \in Int /\ e * g \in Int
          BY SMT
        <4> QED  BY <3>6, <4>1, <4>2, <4>3, <4>4, SMT
      <3>8. 2 * Value(r, k + 1) + odd(0) = Value(x, k + 1) + odd(k + 1) * Weight(k + 1)
        BY <1>2, <3>2, <3>4, <3>5, <3>7, Zenon
      <3> QED  BY <3>8
    <2>2. CASE ~ (k + 1 <= m)
      BY <2>2
    <2> QED  BY <2>1, <2>2
  <1>19. Nat \subseteq S
    <2> HIDE DEF S
    <2> QED  BY <1>17, <1>18, Induction
  <1>20. Value(x, m) = 2 * Value(r, m) + odd(0) /\ odd(0) \in 0 .. 1
    <2>1. m <= m /\ 0 \in 0 .. m /\ m \in 0 .. m
      BY SMT
    <2>2. 2 * Value(r, m) + odd(0) = Value(x, m) + odd(m) * Weight(m) /\ odd(m) = 0
      BY <1>19, <2>1 DEF odd
    <2>3. Value(x, m) \in Int /\ Weight(m) \in Int
      BY <1>6, <2>1, ValueInt, WeightIs
    <2>4. 0 * Weight(m) = 0 /\ Value(x, m) + 0 = Value(x, m)
      BY <2>3, SMT
    <2> QED  BY <1>13, <2>1, <2>2, <2>4
  <1> QED  BY <1>15, <1>20 DEF r

-----------------------------------------------------------------------------
(* Bits.                                                                     *)

\* The words above a place count in multiples of its weight.
LEMMA HighPart ==
    ASSUME NEW m \in Nat, NEW x, Words(x, m), NEW p \in 0 .. m
    PROVE  \E z \in Nat : Value(x, m) = Value(x, p) + z * Weight(p)
  <1> DEFINE S == {k \in Nat : p + k <= m =>
                      \E z \in Nat : Value(x, p + k) = Value(x, p) + z * Weight(p)}
  <1>1. p \in Nat /\ Value(x, p) \in Int /\ Weight(p) \in Nat
    <2>1. p \in Nat
      BY SMT
    <2> QED  BY <2>1, ValueInt, WeightIs
  <1>2. 0 \in S
    <2>1. p + 0 = p /\ 0 \in Nat /\ Value(x, p) = Value(x, p) + 0 * Weight(p)
      BY <1>1, SMT
    <2> QED  BY <2>1
  <1>3. ASSUME NEW k \in Nat, k \in S PROVE k + 1 \in S
    <2>1. CASE p + (k + 1) <= m
      <3>1. p + (k + 1) \in 1 .. m /\ (p + (k + 1)) - 1 = p + k /\ p + k <= m
        BY <1>1, <2>1, SMT
      <3>2. PICK z \in Nat : Value(x, p + k) = Value(x, p) + z * Weight(p)
        BY <1>3, <3>1
      <3>3. /\ Value(x, p + (k + 1)) = Value(x, p + k) + x[p + (k + 1)] * Weight(p + k)
            /\ x[p + (k + 1)] \in 0 .. Base - 1
        BY <3>1, ValueTop
      <3>4. Weight(p + k) = Weight(p) * Weight(k) /\ Weight(k) \in Nat
        BY <1>1, WeightPlus
      <3>5. PICK v \in Int, g \in Nat, f \in Nat, c \in Nat :
               /\ v = Value(x, p) /\ g = Weight(p) /\ f = Weight(k) /\ c = x[p + (k + 1)]
        BY <1>1, <3>3, <3>4, WordIs
      <3>6. (v + z * g) + c * (g * f) = v + (z + c * f) * g /\ z + c * f \in Nat
        BY SMT
      <3>7. Value(x, p + (k + 1)) = Value(x, p) + (z + c * f) * Weight(p)
        BY <3>2, <3>3, <3>4, <3>5, <3>6, Zenon
      <3> QED  BY <3>6, <3>7
    <2>2. CASE ~ (p + (k + 1) <= m)
      BY <2>2
    <2> QED  BY <2>1, <2>2
  <1>4. Nat \subseteq S
    <2> HIDE DEF S
    <2> QED  BY <1>2, <1>3, Induction
  <1>5. m - p \in Nat /\ p + (m - p) = m /\ m <= m
    BY <1>1, SMT
  <1>6. m - p \in S
    BY <1>4, <1>5
  <1> QED  BY <1>5, <1>6

\* A bit of a word is a bit of the number.
LEMMA BitOfValue ==
    ASSUME NEW m \in Nat, NEW x, Words(x, m), NEW k \in 0 .. m - 1, NEW b \in 0 .. Bits - 1
    PROVE  BitSet(x[k + 1], b) <=> (Value(x, m) \div TwoTo[Bits * k + b]) % 2 = 1
  <1>1. /\ k \in Nat /\ b \in Nat /\ k + 1 \in 1 .. m /\ k + 1 \in 0 .. m /\ (k + 1) - 1 = k
        /\ (Bits - b) - 1 \in Nat /\ ((Bits - b) - 1) + 1 = Bits - b /\ Bits - b \in Nat
        /\ b + (Bits - b) = Bits /\ Bits * k \in Nat
    <2>1. Bits \in Nat
      BY Sizes
    <2>2. k \in Nat
      BY SMT
    <2> QED  BY <2>1, <2>2, SMT
  <1>2. PICK z \in Nat : Value(x, m) = Value(x, k + 1) + z * Weight(k + 1)
    BY <1>1, HighPart
  <1>3. /\ Value(x, k + 1) = Value(x, k) + x[k + 1] * Weight(k)
        /\ Value(x, k) \in Nat /\ Value(x, k) < Weight(k) /\ x[k + 1] \in 0 .. Base - 1
    BY <1>1, ValueTop
  <1>4. PICK t \in Nat, u \in Nat, g \in Nat, h \in Nat :
           /\ t = TwoTo[b] /\ u = TwoTo[(Bits - b) - 1] /\ g = Weight(k) /\ h = Base
           /\ t > 0 /\ g > 0 /\ h = t * (2 * u) /\ TwoTo[Bits * k + b] = g * t
           /\ Weight(k + 1) = h * g
    <2>1. /\ TwoTo[b] \in Nat /\ TwoTo[b] > 0 /\ TwoTo[(Bits - b) - 1] \in Nat
          /\ TwoTo[Bits - b] = 2 * TwoTo[(Bits - b) - 1]
      BY <1>1, TwoToType, TwoToIs
    <2>2. TwoTo[b + (Bits - b)] = TwoTo[b] * TwoTo[Bits - b]
      BY <1>1, TwoToPlus
    <2>3. TwoTo[Bits * k + b] = TwoTo[Bits * k] * TwoTo[b]
      BY <1>1, TwoToPlus
    <2>4. TwoTo[(Bits - b)] = TwoTo[((Bits - b) - 1) + 1]
      BY <1>1
    <2>5. Base = TwoTo[b] * (2 * TwoTo[(Bits - b) - 1])
      BY <1>1, <2>1, <2>2, Sizes
    <2>6. /\ Weight(k) \in Nat /\ Weight(k) > 0 /\ Weight(k + 1) = Base * Weight(k)
          /\ Weight(k) = TwoTo[Bits * k] /\ Base \in Nat
      BY <1>1, WeightIs, Sizes DEF Weight
    <2> QED  BY <2>1, <2>3, <2>5, <2>6, Zenon
  <1>5. PICK w \in Nat, v \in Nat : w = x[k + 1] /\ v = Value(x, k) /\ v < g
    BY <1>3, <1>4, WordIs
  <1>6. PICK e \in Int, f \in 0 .. t - 1 : e = w \div t /\ w = t * e + f
    <2>1. w \in Int
      BY SMT
    <2>2. w \div t \in Int /\ w % t \in 0 .. t - 1 /\ w = t * (w \div t) + (w % t)
      BY <1>4, <2>1, Divided
    <2> QED  BY <2>2
  <1>7. PICK a \in Int : a = Value(x, m) /\ a = (v + (t * e + f) * g) + z * ((t * (2 * u)) * g)
    <2>1. (v + (t * e + f) * g) + z * ((t * (2 * u)) * g) \in Int
      BY SMT
    <2>2. Value(x, m) = (v + (t * e + f) * g) + z * ((t * (2 * u)) * g)
      <3>1. w = t * e + f
        BY <1>6
      <3> QED  BY <1>2, <1>3, <1>4, <1>5, <3>1, Zenon
    <2> QED  BY <2>1, <2>2
  <1>8. a = (g * t) * (e + (z * u) * 2) + (v + f * g)
    <2>1. (t * e + f) * g = (g * t) * e + f * g
      BY SMT
    <2>2. z * ((t * (2 * u)) * g) = (g * t) * ((z * u) * 2)
      BY SMT
    <2>3. (g * t) * (e + (z * u) * 2) = (g * t) * e + (g * t) * ((z * u) * 2)
      BY SMT
    <2>4. f * g \in Int /\ (g * t) * e \in Int /\ (g * t) * ((z * u) * 2) \in Int
      BY SMT
    <2>5. PICK c \in Int, d \in Int, r \in Int :
             c = f * g /\ d = (g * t) * e /\ r = (g * t) * ((z * u) * 2)
      BY <2>4
    <2>6. a = (v + (d + c)) + r
      BY <1>7, <2>1, <2>2, <2>5
    <2>7. (v + (d + c)) + r = (d + r) + (v + c)
      BY SMT
    <2> QED  BY <2>3, <2>5, <2>6, <2>7
  <1>9. v + f * g \in 0 .. (g * t) - 1 /\ g * t \in Nat /\ g * t > 0 /\ e + (z * u) * 2 \in Int
    <2>1. (f + 1) * g <= t * g
      BY LessTimes, SMT
    <2>2. (f + 1) * g = f * g + g /\ t * g = g * t /\ f * g \in Nat /\ g * t \in Nat
      BY SMT
    <2>3. g * t > 0
      BY <1>4, Products
    <2>4. e + (z * u) * 2 \in Int
      BY SMT
    <2>5. v < g
      BY <1>5
    <2> QED  BY <2>1, <2>2, <2>3, <2>4, <2>5, SMT
  <1>10. a \div (g * t) = e + (z * u) * 2
    BY <1>8, <1>9, DividedIs
  <1>11. (e + (z * u) * 2) % 2 = e % 2
    <2>1. PICK y \in Int : y = z * u
      BY SMT
    <2>2. (e + y * 2) % 2 = e % 2
      BY SMT
    <2> QED  BY <2>1, <2>2
  <1>12. (Value(x, m) \div TwoTo[Bits * k + b]) % 2 = e % 2
    BY <1>4, <1>7, <1>10, <1>11
  <1>13. BitSet(x[k + 1], b) <=> e % 2 = 1
    BY <1>4, <1>5, <1>6, Zenon DEF BitSet
  <1> QED  BY <1>12, <1>13

\* Above its highest bit a number has none.
LEMMA BitLengthIs ==
    ASSUME NEW m \in Nat, m > 0, NEW x, Words(x, m)
    PROVE  /\ bit_length(x, m) \in 0 .. Bits * m
           /\ Value(x, m) < TwoTo[bit_length(x, m)]
           /\ bit_length(x, m) > 0 => TwoTo[bit_length(x, m) - 1] <= Value(x, m)
  <1> DEFINE Q == {q \in 0 .. (Bits * m - 1) : BitSet(x[1 + q \div Bits], q % Bits)}
             T == {0} \cup {p + 1 : p \in Q}
  <1>1. bit_length(x, m) = Max(T)
    BY DEF bit_length
  <1>2. PICK B \in Nat, v \in Nat : B = Bits * m /\ v = Value(x, m) /\ v < TwoTo[B]
    <2>1. m \in 0 .. m
      BY SMT
    <2> QED  BY <2>1, ValueInt, WeightIs DEF Weight
  <1>3. ASSUME NEW q \in 0 .. B - 1
        PROVE  BitSet(x[1 + q \div Bits], q % Bits) <=> (v \div TwoTo[q]) % 2 = 1
    <2>1. q \in Int /\ q >= 0 /\ Bits \in Nat /\ Bits > 0
      BY Sizes, SMT
    <2>2. /\ q \div Bits \in Int /\ q % Bits \in 0 .. Bits - 1
          /\ q = Bits * (q \div Bits) + (q % Bits) /\ q \div Bits >= 0
      BY <2>1, Divided
    <2>3. PICK d \in Nat, e \in Nat, h \in Nat : d = q \div Bits /\ e = q % Bits /\ h = Bits
      <3>1. q \div Bits \in Nat /\ q % Bits \in Nat
        BY <2>1, <2>2, SMT
      <3> QED  BY <2>1, <3>1
    <2>4. q = h * d + e /\ q < h * m /\ h * m \in Int
      <3>1. q < B /\ B \in Int
        BY SMT
      <3> QED  BY <1>2, <2>2, <2>3, <3>1
    <2>5. d < m
      <3>1. h * d <= q /\ h * d \in Int
        BY <2>4, SMT
      <3>2. d * h < m * h
        <4>1. d * h = h * d /\ m * h = h * m
          BY SMT
        <4>2. h * d < h * m
          BY <2>4, <3>1, SMT
        <4> QED  BY <4>1, <4>2
      <3> QED  BY <3>2, LessTimes, SMT
    <2>6. d \in 0 .. m - 1 /\ 1 + d = d + 1
      BY <2>5, SMT
    <2>7. e \in 0 .. Bits - 1
      BY <2>2, <2>3
    <2>8. BitSet(x[d + 1], e) <=> (Value(x, m) \div TwoTo[Bits * d + e]) % 2 = 1
      BY <2>6, <2>7, BitOfValue
    <2> QED  BY <1>2, <2>3, <2>4, <2>6, <2>8
  <1>4. Q = {q \in 0 .. B - 1 : (v \div TwoTo[q]) % 2 = 1}
    BY <1>2, <1>3
  <1> HIDE DEF Q
  <1>5. T \in SUBSET (0 .. B) /\ T # {} /\ 0 \in T
    <2>1. ASSUME NEW q \in 0 .. B - 1 PROVE q + 1 \in 0 .. B
      BY SMT
    <2>2. 0 \in 0 .. B
      BY SMT
    <2> QED  BY <1>4, <2>1, <2>2
  <1>6. PICK L \in 0 .. B : L = bit_length(x, m) /\ L \in T /\ \A k \in T : k <= L
    <2> HIDE DEF T
    <2> QED  BY <1>1, <1>5, LargestNumber
  <1>7. ASSUME L > 0 PROVE TwoTo[L - 1] <= v
    <2>1. L # 0
      BY <1>7, SMT
    <2>2. PICK p \in Q : L = p + 1
      BY <1>6, <2>1
    <2>3. p \in 0 .. B - 1 /\ (v \div TwoTo[p]) % 2 = 1
      BY <1>4
    <2>4. p \in Nat /\ p = L - 1
      BY <2>2, <2>3, SMT
    <2>5. PICK t \in Nat : t = TwoTo[p] /\ t > 0
      BY <2>4, TwoToType
    <2>6. ~ (v < t)
      <3>1. ASSUME v < t PROVE FALSE
        <4>1. v = t * 0 + v /\ v \in 0 .. t - 1 /\ 0 \in Int /\ v \in Int
          BY <3>1, SMT
        <4>2. v \div t = 0
          BY <2>5, <4>1, DividedIs
        <4>3. 0 % 2 = 0
          BY SMT
        <4> QED  BY <2>3, <2>5, <4>2, <4>3
      <3> QED  BY <3>1
    <2> QED  BY <2>4, <2>5, <2>6, SMT
  <1>8. v < TwoTo[L]
    <2> DEFINE S == {k \in Nat : L + k <= B => v < TwoTo[B - k]}
    <2>1. 0 \in S
      <3>1. B - 0 = B
        BY SMT
      <3> QED  BY <1>2, <3>1
    <2>2. ASSUME NEW k \in Nat, k \in S PROVE k + 1 \in S
      <3>1. CASE L + (k + 1) <= B
        <4>1. PICK q \in Nat : q = B - (k + 1)
          BY <3>1, SMT
        <4>2. q \in 0 .. B - 1 /\ ~ (q + 1 <= L) /\ q + 1 = B - k /\ L + k <= B
          BY <3>1, <4>1, SMT
        <4>3. ~ ((v \div TwoTo[q]) % 2 = 1)
          <5>1. q \notin Q
            BY <1>6, <4>2
          <5> QED  BY <1>4, <4>2, <5>1
        <4>4. PICK t \in Nat : t = TwoTo[q] /\ t > 0 /\ TwoTo[q + 1] = 2 * t
          BY TwoToType, TwoToIs
        <4>5. v < 2 * t
          BY <2>2, <4>2, <4>4
        <4>6. v < t
          <5>1. ASSUME v >= t PROVE FALSE
            <6>1. v = t * 1 + (v - t) /\ v - t \in 0 .. t - 1 /\ 1 \in Int /\ v \in Int
              BY <4>5, <5>1, SMT
            <6>2. v \div t = 1
              BY <4>4, <6>1, DividedIs, SMTT(30)
            <6>3. 1 % 2 = 1
              BY SMT
            <6> QED  BY <4>3, <4>4, <6>2, <6>3
          <5> QED  BY <5>1, SMT
        <4> QED  BY <4>1, <4>4, <4>6
      <3>2. CASE ~ (L + (k + 1) <= B)
        BY <3>2
      <3> QED  BY <3>1, <3>2
    <2>3. Nat \subseteq S
      <3> HIDE DEF S
      <3> QED  BY <2>1, <2>2, Induction
    <2>4. B - L \in Nat /\ L + (B - L) <= B /\ B - (B - L) = L
      BY SMT
    <2>5. B - L \in S
      BY <2>3, <2>4
    <2> QED  BY <2>4, <2>5
  <1> QED  BY <1>2, <1>6, <1>7, <1>8

-----------------------------------------------------------------------------
(* The product.                                                              *)

\* Numbers with a word to spare are added.
LEMMA AddShort ==
    ASSUME NEW m \in Nat, NEW x \in Arrays(m + 1), NEW y \in Arrays(m + 1),
           Value(x, m + 1) + Value(y, m + 1) < Weight(m)
    PROVE  /\ addbignum(x, y, m) \in Arrays(m + 1)
           /\ Value(addbignum(x, y, m), m + 1) = Value(x, m + 1) + Value(y, m + 1)
  <1>1. m + 1 \in Nat /\ m \in 0 .. m + 1 /\ m + 1 \in 0 .. m + 1
        /\ \A k \in 1 .. m : k \in 1 .. m + 1
    BY SMT
  <1>2. Words(x, m + 1) /\ Words(y, m + 1)
    BY <1>1, ArrayIs
  <1>3. Words(x, m) /\ Words(y, m)
    BY <1>1, <1>2 DEF Words
  <1>4. PICK a \in Nat, b \in Nat, g \in Nat :
           a = Value(x, m + 1) /\ b = Value(y, m + 1) /\ g = Weight(m)
    BY <1>1, <1>2, ValueInt, WeightIs
  <1>5. a < g /\ b < g
    <2>1. a + b < g
      BY <1>4
    <2> QED  BY <2>1, SMT
  <1>6. Value(x, m) = Value(x, m + 1) /\ Value(y, m) = Value(y, m + 1)
    BY <1>1, <1>2, <1>4, <1>5, ValueLow
  <1> QED  BY <1>3, <1>6, AddIs

Length == 2 * N + 1
Multiple(x, half) == Extended(multbignum(x, half, N), Length)
Row(x, w) ==
  addbignum(slnbignum(Multiple(x, High(w)), Length, HalfBits), Multiple(x, Low(w)), Length - 1)

\* The lengths of the arrays of modmult1024.
LEMMA Lengths ==
    /\ N \in Nat /\ N > 0 /\ Length \in Nat /\ Length - 1 \in Nat /\ (Length - 1) + 1 = Length
    /\ N + 1 \in Nat /\ N + 1 <= Length /\ N + 1 <= Length - 1 /\ N <= Length /\ Length - 1 = N + N
    /\ Length > 0 /\ HalfBits <= Bits * Length /\ N \in 0 .. Length
    /\ Weight(Length - 1) <= Weight(Length) /\ Weight(N) <= Weight(Length)
    /\ \A k \in 1 .. N : Bits * (k - 1) \in Nat /\ Bits * (k - 1) <= Bits * Length
  <1>1. N \in Nat /\ N >= 1 /\ HalfBits \in Nat /\ HalfBits >= 1 /\ Bits = HalfBits + HalfBits
    BY Sizes
  <1>2. /\ N \in Nat /\ N > 0 /\ Length \in Nat /\ Length - 1 \in Nat /\ (Length - 1) + 1 = Length
        /\ N + 1 \in Nat /\ N + 1 <= Length /\ N + 1 <= Length - 1 /\ N <= Length
        /\ Length - 1 = N + N /\ Length > 0 /\ N \in 0 .. Length /\ Length - 1 <= Length
    BY <1>1, SMT DEF Length
  <1>3. PICK h \in Nat, b \in Nat, m \in Nat :
           h = HalfBits /\ b = Bits /\ m = Length /\ h <= b /\ m >= 1 /\ N <= m
    <2>1. Bits \in Nat /\ HalfBits <= Bits
      BY <1>1, SMT
    <2>2. Length >= 1
      BY <1>2, SMT
    <2> QED  BY <1>1, <1>2, <2>1, <2>2
  <1>4. h <= b * m
    <2>1. b * (m - 1) >= 0
      <3>1. m - 1 \in Nat
        BY <1>3, SMT
      <3> QED  BY <3>1, SMT
    <2>2. b * (m - 1) = b * m - b /\ b * m \in Int
      BY SMT
    <2> QED  BY <1>3, <2>1, <2>2, SMT
  <1>5. ASSUME NEW k \in 1 .. N PROVE b * (k - 1) \in Nat /\ b * (k - 1) <= b * m
    <2>1. k - 1 \in Nat /\ k - 1 <= m
      BY <1>1, <1>3, SMT
    <2>2. PICK d \in Nat : d = k - 1 /\ d <= m
      BY <2>1
    <2>3. d * b <= m * b /\ d * b = b * d /\ m * b = b * m /\ b * d \in Nat
      <3>1. d * b <= m * b
        BY <2>2, LessTimes, SMT
      <3> QED  BY <3>1, SMT
    <2> QED  BY <2>2, <2>3
  <1>6. Weight(Length - 1) <= Weight(Length) /\ Weight(N) <= Weight(Length)
    BY <1>2, WeightPlus
  <1> QED  BY <1>2, <1>3, <1>4, <1>5, <1>6

\* A number times half a word (rsa.c:88-93).
LEMMA MultipleIs ==
    ASSUME NEW x \in Arrays(N), NEW b \in 0 .. Half - 1
    PROVE  Multiple(x, b) \in Arrays(Length) /\ Value(Multiple(x, b), Length) = Value(x, N) * b
  <1>1. Words(x, N)
    BY Lengths, ArrayIs
  <1>2. multbignum(x, b, N) \in Arrays(N + 1) /\ Value(multbignum(x, b, N), N + 1) = Value(x, N) * b
    BY <1>1, Lengths, MultIs
  <1> QED  BY <1>2, Lengths, ExtendedIs DEF Multiple

\* A number times a word, from its two halves (rsa.c:88-96).
LEMMA RowIs ==
    ASSUME NEW x \in Arrays(N), NEW w \in Word
    PROVE  Row(x, w) \in Arrays(Length) /\ Value(Row(x, w), Length) = Value(x, N) * w
  <1>1. /\ w \in Nat /\ Low(w) \in 0 .. Half - 1 /\ High(w) \in Nat /\ High(w) < Half
        /\ w = High(w) * Half + Low(w) /\ w < Base /\ Half \in Nat
    <2>1. w \in Nat /\ w < Base
      BY WordIs, SMT
    <2> QED  BY <2>1, Halves, Sizes
  <1>2. PICK a \in Nat, c \in Nat, h \in Nat, v \in Nat, g \in Nat, e \in Nat :
           /\ a = High(w) /\ c = Low(w) /\ h = Half /\ v = Value(x, N) /\ g = Weight(N) /\ e = Base
           /\ w = a * h + c /\ a < h /\ v < g /\ w < e /\ g > 0 /\ h = TwoTo[HalfBits]
    <2>1. Low(w) \in Nat
      BY <1>1, LowIsNat
    <2>2. Words(x, N) /\ N \in 0 .. N
      BY Lengths, ArrayIs, SMT
    <2>3. Value(x, N) \in Nat /\ Value(x, N) < Weight(N) /\ Weight(N) \in Nat /\ Weight(N) > 0
      BY <2>2, Lengths, ValueInt, WeightIs
    <2>4. Half = TwoTo[HalfBits] /\ Base \in Nat
      BY Sizes
    <2> QED  BY <1>1, <2>1, <2>3, <2>4
  <1>3. a \in 0 .. Half - 1 /\ c \in 0 .. Half - 1
    <2>1. a \in 0 .. h - 1
      BY <1>2, SMT
    <2> QED  BY <1>1, <1>2, <2>1
  <1>4. /\ Multiple(x, a) \in Arrays(Length) /\ Value(Multiple(x, a), Length) = v * a
        /\ Multiple(x, c) \in Arrays(Length) /\ Value(Multiple(x, c), Length) = v * c
    BY <1>2, <1>3, MultipleIs
  <1>5. PICK f \in Nat, z \in Nat : f = Weight(Length - 1) /\ z = Weight(Length) /\ f <= z
    BY Lengths, WeightIs
  <1>6. v * w < f /\ v * w = (v * a) * h + v * c /\ (v * a) * h \in Nat /\ v * c \in Nat
    <2>1. v * w = (v * a) * h + v * c
      <3>1. v * (a * h + c) = (v * a) * h + v * c
        BY SMT
      <3> QED  BY <1>2, <3>1
    <2>2. v * w < g * e
      <3>1. v * w <= v * e
        <4>1. w * v <= e * v
          <5>1. w <= e
            BY <1>1, <1>2, SMT
          <5> QED  BY <1>1, <5>1, LessTimes, SMT
        <4>2. w * v = v * w /\ e * v = v * e
          BY <1>1, SMT
        <4> QED  BY <4>1, <4>2
      <3>2. v * e < g * e
        <4>1. e > 0
          BY <1>1, <1>2, SMT
        <4> QED  BY <1>2, <4>1, LessTimes, SMT
      <3>3. v * w \in Int /\ v * e \in Int /\ g * e \in Int
        BY <1>1, SMT
      <3>4. PICK p \in Int, q \in Int, r \in Int : p = v * w /\ q = v * e /\ r = g * e
        BY <3>3
      <3>5. p <= q /\ q < r
        BY <3>1, <3>2, <3>4
      <3>6. p < r
        BY <3>5, SMT
      <3> QED  BY <3>4, <3>6
    <2>3. g * e <= f
      <3>1. Weight(N + 1) = Base * Weight(N) /\ Weight(N + 1) <= Weight(Length - 1)
        BY Lengths, WeightPlus
      <3>2. e * g = g * e
        BY SMT
      <3> QED  BY <1>2, <1>5, <3>1, <3>2
    <2>4. (v * a) * h \in Nat /\ v * c \in Nat
      BY SMT
    <2>5. v * w < f
      <3>1. v * w \in Int /\ g * e \in Int
        BY <1>1, SMT
      <3>2. PICK p \in Int, r \in Int : p = v * w /\ r = g * e
        BY <3>1
      <3>3. p < r /\ r <= f
        BY <2>2, <2>3, <3>2
      <3>4. p < f
        BY <3>3, SMT
      <3> QED  BY <3>2, <3>4
    <2> QED  BY <2>1, <2>4, <2>5
  <1>7. PICK p \in Nat, q \in Nat : p = (v * a) * h /\ q = v * c
    BY <1>6
  <1>8. p + q < f /\ p < z
    <2>1. p + q < f
      BY <1>6, <1>7
    <2> QED  BY <1>5, <2>1, SMT
  <1> DEFINE s == slnbignum(Multiple(x, a), Length, HalfBits)
  <1>9. s \in Arrays(Length) /\ Value(s, Length) = p
    <2>1. Value(Multiple(x, a), Length) * TwoTo[HalfBits] < Weight(Length)
      BY <1>2, <1>4, <1>5, <1>7, <1>8
    <2>2. HalfBits \in Nat /\ HalfBits <= Bits * Length /\ Length \in Nat
      BY Lengths, Sizes
    <2>3. s \in Arrays(Length) /\ Value(s, Length) = Value(Multiple(x, a), Length) * TwoTo[HalfBits]
      BY <1>4, <2>1, <2>2, ShiftLeftIs
    <2> QED  BY <1>2, <1>4, <1>7, <2>3
  <1> HIDE DEF s
  <1>10. /\ addbignum(s, Multiple(x, c), Length - 1) \in Arrays(Length)
         /\ Value(addbignum(s, Multiple(x, c), Length - 1), Length) = p + q
    <2>1. Length - 1 \in Nat /\ (Length - 1) + 1 = Length
      BY Lengths
    <2>2. PICK m \in Nat : m = Length - 1 /\ m + 1 = Length
      BY <2>1
    <2>3. /\ s \in Arrays(m + 1) /\ Multiple(x, c) \in Arrays(m + 1)
          /\ Value(s, m + 1) = p /\ Value(Multiple(x, c), m + 1) = q
          /\ Value(s, m + 1) + Value(Multiple(x, c), m + 1) < Weight(m)
      BY <1>4, <1>5, <1>7, <1>8, <1>9, <2>2
    <2>4. /\ addbignum(s, Multiple(x, c), m) \in Arrays(m + 1)
          /\ Value(addbignum(s, Multiple(x, c), m), m + 1)
                = Value(s, m + 1) + Value(Multiple(x, c), m + 1)
      BY <2>3, AddShort
    <2> QED  BY <2>2, <2>3, <2>4
  <1> QED  BY <1>2, <1>6, <1>7, <1>10 DEF Row, s

\* The sum after k words of y.
ProductStep(s, x, y, k) ==
    addbignum(s, slnbignum(Row(x, y[k]), Length, Bits * (k - 1)), Length - 1)

\* One turn of modmult1024: the row of one word more is added in its place (rsa.c:86-99).
LEMMA ProductTurn ==
    ASSUME NEW x \in Arrays(N), NEW y \in Arrays(N), NEW k \in 1 .. N, NEW s \in Arrays(Length),
           Value(s, Length) = Value(x, N) * Value(y, k - 1)
    PROVE  /\ ProductStep(s, x, y, k) \in Arrays(Length)
           /\ Value(ProductStep(s, x, y, k), Length) = Value(x, N) * Value(y, k)
  <1>1. Words(x, N) /\ Words(y, N) /\ N \in 0 .. N /\ k - 1 \in Nat /\ k \in Nat /\ (k - 1) + 1 = k
        /\ k <= N
    BY Lengths, ArrayIs, SMT
  <1>2. PICK v \in Nat, u \in Nat, w \in Nat, h \in Nat, g \in Nat, f \in Nat, z \in Nat, d \in Nat :
           /\ v = Value(x, N) /\ u = Value(y, k - 1) /\ w = y[k] /\ h = Weight(k - 1)
           /\ g = Weight(N) /\ f = Weight(Length - 1) /\ z = Weight(Length) /\ d = Value(y, k)
           /\ d = u + w * h /\ v < g /\ d < Base * h /\ f <= z /\ y[k] \in Word
    <2>1. /\ Value(y, k) = Value(y, k - 1) + y[k] * Weight(k - 1)
          /\ Value(y, k - 1) \in Nat /\ Value(y, k) \in Nat /\ y[k] \in 0 .. Base - 1
          /\ Weight(k - 1) \in Nat
      BY <1>1, Lengths, ValueTop
    <2>2. Value(x, N) \in Nat /\ Value(x, N) < Weight(N) /\ Weight(N) \in Nat
      BY <1>1, Lengths, ValueInt, WeightIs
    <2>3. Weight(Length - 1) \in Nat /\ Weight(Length) \in Nat /\ Weight(Length - 1) <= Weight(Length)
      BY Lengths, WeightIs
    <2>4. k \in 0 .. N
      BY <1>1, SMT
    <2>5. Value(y, k) < Weight(k) /\ Weight(k) = Base * Weight(k - 1)
      <3>1. Weight((k - 1) + 1) = Base * Weight(k - 1)
        BY <1>1, WeightIs
      <3> QED  BY <1>1, <2>4, <3>1, Lengths, ValueInt
    <2>6. y[k] \in Nat /\ y[k] \in Word
      BY <2>1, WordIs
    <2>7. Value(y, k) < Base * Weight(k - 1)
      BY <2>5
    <2> QED  BY <2>1, <2>2, <2>3, <2>6, <2>7, Zenon
  <1>3. v * d < f /\ v * d = v * u + (v * w) * h /\ v * u \in Nat /\ (v * w) * h \in Nat
    <2>1. v * d = v * u + (v * w) * h
      <3>1. v * (u + w * h) = v * u + (v * w) * h
        BY SMT
      <3> QED  BY <1>2, <3>1
    <2>2. PICK e \in Nat : e = Weight(k)
      BY <1>1, WeightIs
    <2>3. d < e
      <3>1. Weight((k - 1) + 1) = Base * Weight(k - 1)
        BY <1>1, WeightIs
      <3> QED  BY <1>1, <1>2, <2>2, <3>1
    <2>4. v * d <= v * e
      <3>1. d * v <= e * v
        BY <2>3, LessTimes, SMT
      <3>2. d * v = v * d /\ e * v = v * e
        BY SMT
      <3> QED  BY <3>1, <3>2
    <2>5. v * e < g * e
      BY <1>2, <2>3, LessTimes, SMT
    <2>6. g * e <= f
      <3>1. Weight(N + k) = Weight(N) * Weight(k)
        BY <1>1, Lengths, WeightPlus
      <3>2. N + k \in Nat /\ N + k <= Length - 1
        BY <1>1, Lengths, SMT
      <3>3. Weight(N + k) <= Weight(Length - 1)
        BY <3>2, Lengths, WeightPlus
      <3> QED  BY <1>2, <2>2, <3>1, <3>3
    <2>7. PICK a \in Int, b \in Int, c \in Int : a = v * d /\ b = v * e /\ c = g * e
      BY SMT
    <2>8. a <= b /\ b < c /\ c <= f
      BY <2>4, <2>5, <2>6, <2>7
    <2>9. a < f
      BY <2>8, SMT
    <2>10. v * u \in Nat /\ (v * w) * h \in Nat
      BY SMT
    <2> QED  BY <2>1, <2>7, <2>9, <2>10
  <1>4. PICK p \in Nat, q \in Nat : p = v * u /\ q = (v * w) * h
    BY <1>3
  <1>5. p + q < f /\ q < z
    <2>1. p + q < f
      BY <1>3, <1>4
    <2> QED  BY <1>2, <2>1, SMT
  <1>6. Row(x, y[k]) \in Arrays(Length) /\ Value(Row(x, y[k]), Length) = v * w
    BY <1>2, RowIs
  <1> DEFINE t == slnbignum(Row(x, y[k]), Length, Bits * (k - 1))
  <1>7. t \in Arrays(Length) /\ Value(t, Length) = q
    <2>1. Bits * (k - 1) \in Nat /\ Bits * (k - 1) <= Bits * Length /\ Length \in Nat
      BY Lengths
    <2>2. TwoTo[Bits * (k - 1)] = h
      BY <1>2 DEF Weight
    <2>3. Value(Row(x, y[k]), Length) * TwoTo[Bits * (k - 1)] < Weight(Length)
      BY <1>2, <1>4, <1>5, <1>6, <2>2
    <2>4. /\ t \in Arrays(Length)
          /\ Value(t, Length) = Value(Row(x, y[k]), Length) * TwoTo[Bits * (k - 1)]
      BY <1>6, <2>1, <2>3, ShiftLeftIs
    <2> QED  BY <1>4, <1>6, <2>2, <2>4
  <1> HIDE DEF t
  <1>8. /\ addbignum(s, t, Length - 1) \in Arrays(Length)
        /\ Value(addbignum(s, t, Length - 1), Length) = p + q
    <2>1. PICK m \in Nat : m = Length - 1 /\ m + 1 = Length
      BY Lengths
    <2>2. /\ s \in Arrays(m + 1) /\ t \in Arrays(m + 1)
          /\ Value(s, m + 1) = p /\ Value(t, m + 1) = q
          /\ Value(s, m + 1) + Value(t, m + 1) < Weight(m)
      BY <1>2, <1>4, <1>5, <1>7, <2>1
    <2>3. /\ addbignum(s, t, m) \in Arrays(m + 1)
          /\ Value(addbignum(s, t, m), m + 1) = Value(s, m + 1) + Value(t, m + 1)
      BY <2>2, AddShort
    <2> QED  BY <2>1, <2>2, <2>3
  <1> QED  BY <1>2, <1>3, <1>4, <1>8 DEF ProductStep, t

\* modmult1024 multiplies without losing a carry: the array it reduces holds the product,
\* whatever the factors (rsa.c:85-101).
THEOREM ProductIs ==
    ASSUME NEW x \in Arrays(N), NEW y \in Arrays(N)
    PROVE  /\ Product(x, y) \in Arrays(Length)
           /\ Value(Product(x, y), Length) = Value(x, N) * Value(y, N)
  <1> DEFINE Is(g) == g = [k \in 0 .. N |-> IF k = 0 THEN Zeros(Length)
                                            ELSE ProductStep(g[k - 1], x, y, k)]
             D == Arrays(Length)
             next == [k \in Nat |-> [s \in D |->
                        IF ProductStep(s, x, y, k) \in D THEN ProductStep(s, x, y, k) ELSE s]]
             Good(g, k) == g[k] \in D /\ Value(g[k], Length) = Value(x, N) * Value(y, k)
  <1>0. Words(y, N) /\ N \in 0 .. N /\ 0 \in 0 .. N /\ N <= N /\ N \in Nat
    BY Lengths, ArrayIs, SMT
  <1>1. Zeros(Length) \in D /\ Value(Zeros(Length), Length) = Value(x, N) * Value(y, 0)
    <2>1. Zeros(Length) \in D /\ Value(Zeros(Length), Length) = 0
      BY Lengths, ZerosAre
    <2>2. Value(y, 0) = 0 /\ Value(x, N) \in Int
      BY <1>0, Lengths, ArrayIs, ValueInt, ValueOfWords
    <2>3. Value(x, N) * 0 = 0
      BY <2>2, SMT
    <2> QED  BY <2>1, <2>2, <2>3
  <1>2. next \in [Nat -> [D -> D]]
    <2> HIDE DEF D
    <2> QED  OBVIOUS
  <1>3. PICK f \in [Nat -> D] : \A p \in Nat : Steps(f, Zeros(Length), next, p)
    <2> HIDE DEF next, D
    <2> QED  BY <1>1, <1>2, Recursion
  <1>4. ASSUME NEW g, g[0] = Zeros(Length),
               \A k \in 1 .. N : Good(g, k - 1) => g[k] = ProductStep(g[k - 1], x, y, k)
        PROVE  \A k \in 0 .. N : Good(g, k)
    <2> DEFINE S == {k \in Nat : k <= N => Good(g, k)}
    <2>1. 0 \in S
      BY <1>1, <1>4
    <2>2. ASSUME NEW k \in Nat, k \in S PROVE k + 1 \in S
      <3>1. CASE k + 1 <= N
        <4>1. k + 1 \in 1 .. N /\ (k + 1) - 1 = k /\ k <= N
          BY <1>0, <3>1, SMT
        <4>2. Good(g, k)
          BY <2>2, <4>1
        <4>3. g[k + 1] = ProductStep(g[k], x, y, k + 1)
          BY <1>4, <4>1, <4>2
        <4>4. /\ ProductStep(g[k], x, y, k + 1) \in Arrays(Length)
              /\ Value(ProductStep(g[k], x, y, k + 1), Length) = Value(x, N) * Value(y, k + 1)
          BY <4>1, <4>2, ProductTurn
        <4> QED  BY <4>3, <4>4
      <3>2. CASE ~ (k + 1 <= N)
        BY <3>2
      <3> QED  BY <3>1, <3>2
    <2>3. Nat \subseteq S
      <3> HIDE DEF S
      <3> QED  BY <2>1, <2>2, Induction
    <2>4. \A k \in 0 .. N : k \in Nat /\ k <= N
      BY <1>0, SMT
    <2> QED  BY <2>3, <2>4
  <1>5. ASSUME NEW k \in 1 .. N, Good(f, k - 1) PROVE f[k] = ProductStep(f[k - 1], x, y, k)
    <2>1. k \in Nat /\ k \in 1 .. k
      BY SMT
    <2>2. f[k] = next[k][f[k - 1]]
      BY <1>3, <2>1 DEF Steps
    <2>3. ProductStep(f[k - 1], x, y, k) \in D /\ f[k - 1] \in D
      BY <1>5, ProductTurn
    <2> HIDE DEF D
    <2> QED  BY <2>1, <2>2, <2>3
  <1>6. f[0] = Zeros(Length)
    BY <1>0, <1>3 DEF Steps
  <1>7. \A k \in 0 .. N : Good(f, k)
    <2> HIDE DEF Good
    <2> QED  BY <1>4, <1>5, <1>6
  <1>8. Is([k \in 0 .. N |-> f[k]])
    <2>1. ASSUME NEW k \in 0 .. N
          PROVE  f[k] = IF k = 0 THEN Zeros(Length)
                        ELSE ProductStep([q \in 0 .. N |-> f[q]][k - 1], x, y, k)
      <3>1. CASE k = 0
        BY <1>6, <3>1
      <3>2. CASE k # 0
        <4>1. k \in 1 .. N /\ k - 1 \in 0 .. N
          BY <1>0, <3>2, SMT
        <4>2. f[k] = ProductStep(f[k - 1], x, y, k)
          BY <1>5, <1>7, <4>1
        <4> QED  BY <3>2, <4>1, <4>2
      <3> QED  BY <3>1, <3>2
    <2> QED  BY <2>1
  <1>9. PICK g : Is(g) /\ Product(x, y) = g[N]
    <2> DEFINE c == CHOOSE g : Is(g)
    <2>1. Product(x, y) = c[N]
      BY DEF Product, ProductStep, Row, Multiple, Length
    <2> HIDE DEF Is
    <2>2. Is(c)
      BY <1>8
    <2> HIDE DEF c
    <2> QED  BY <2>1, <2>2
  <1>10. Good(g, N)
    <2>1. g[0] = Zeros(Length)
      BY <1>0, <1>9
    <2>2. \A k \in 1 .. N : k \in 0 .. N /\ k # 0
      BY <1>0, SMT
    <2>3. \A k \in 1 .. N : g[k] = ProductStep(g[k - 1], x, y, k)
      BY <1>9, <2>2
    <2> HIDE DEF Good, Is
    <2> QED  BY <1>0, <1>4, <2>1, <2>3
  <1> QED  BY <1>9, <1>10

-----------------------------------------------------------------------------
(* Powers modulo a number.                                                   *)

PowersOf(f, b, m) ==
    /\ f \in [Nat -> Int] /\ f[0] = 1 % m
    /\ \A k \in Nat : f[k + 1] = (f[k] * b) % m /\ f[k] \in 0 .. m - 1

\* There is a function that holds the powers of b, from halves of the exponent.
LEMMA ThereArePowers ==
    ASSUME NEW b \in Nat, NEW m \in Nat, m > 0
    PROVE  \E f : PowersOf(f, b, m)
  <1> DEFINE D == 0 .. m - 1
             step == [k \in Nat |-> [v \in D |-> (v * b) % m]]
  <1>1. ASSUME NEW v \in Int PROVE v % m \in D
    BY <1>1, Divided
  <1>2. 1 % m \in D
    BY <1>1, SMT
  <1>3. \A v \in D : v \in Int
    BY SMT
  <1>4. step \in [Nat -> [D -> D]]
    <2>1. ASSUME NEW v \in D PROVE (v * b) % m \in D
      <3>1. v * b \in Int
        BY SMT
      <3> QED  BY <1>1, <3>1
    <2> HIDE DEF D
    <2> QED  BY <2>1
  <1>5. PICK f \in [Nat -> D] : \A p \in Nat : Steps(f, 1 % m, step, p)
    <2> HIDE DEF step, D
    <2> QED  BY <1>2, <1>4, Recursion
  <1>6. f[0] = 1 % m
    <2>1. 0 \in Nat
      BY SMT
    <2> QED  BY <1>5, <2>1 DEF Steps
  <1>7. ASSUME NEW k \in Nat PROVE f[k + 1] = (f[k] * b) % m /\ f[k] \in D
    <2>1. k + 1 \in Nat /\ k + 1 \in 1 .. k + 1 /\ (k + 1) - 1 = k
      BY SMT
    <2>2. f[k + 1] = step[k + 1][f[k]] /\ f[k] \in D
      <3> HIDE DEF step, D
      <3> QED  BY <1>5, <2>1 DEF Steps
    <2> QED  BY <2>1, <2>2
  <1>8. f \in [Nat -> Int]
    <2> HIDE DEF D
    <2> QED  BY <1>3
  <1> QED  BY <1>6, <1>7, <1>8 DEF PowersOf

\* Powers of a sum are products.
LEMMA PowersAdd ==
    ASSUME NEW b \in Nat, NEW m \in Nat, m > 0, NEW f, PowersOf(f, b, m), NEW p \in Nat, NEW q \in Nat
    PROVE  f[p + q] = (f[p] * f[q]) % m
  <1> DEFINE S == {k \in Nat : f[p + k] = (f[p] * f[k]) % m}
  <1>1. PICK a \in Int : a = f[p] /\ a % m = a /\ a * 1 = a
    <2>1. f[p] \in 0 .. m - 1 /\ f[p] \in Int
      BY DEF PowersOf
    <2>2. f[p] % m = f[p]
      BY <2>1, CongruentIs
    <2>3. \A c \in Int : c * 1 = c
      BY SMT
    <2> QED  BY <2>1, <2>2, <2>3
  <1>2. 0 \in S
    <2>1. p + 0 = p /\ 0 \in Nat /\ 1 \in Int
      BY SMT
    <2>2. 1 % m \in Int
      BY <2>1, Divided, SMT
    <2>3. (1 * a) % m = ((1 % m) * a) % m
      BY <2>1, RemainderOfProduct
    <2>4. 1 * a = a /\ (1 % m) * a = a * (1 % m)
      <3>1. \A c \in Int : c * a = a * c /\ 1 * a = a
        BY SMT
      <3> QED  BY <2>2, <3>1
    <2>5. f[0] = 1 % m
      BY DEF PowersOf
    <2> QED  BY <1>1, <2>1, <2>3, <2>4, <2>5
  <1>3. ASSUME NEW k \in Nat, k \in S PROVE k + 1 \in S
    <2>1. p + k \in Nat /\ (p + k) + 1 = p + (k + 1)
      BY SMT
    <2>2. PICK c \in Int : c = f[k]
      BY DEF PowersOf
    <2>3. f[p + (k + 1)] = (((a * c) % m) * b) % m
      <3>1. f[(p + k) + 1] = (f[p + k] * b) % m
        BY <2>1 DEF PowersOf
      <3> QED  BY <1>1, <1>3, <2>1, <2>2, <3>1
    <2>4. f[k + 1] = (c * b) % m
      BY <2>2 DEF PowersOf
    <2>5. a * c \in Int /\ c * b \in Int /\ b \in Int
      BY SMT
    <2>6. ((a * c) * b) % m = (((a * c) % m) * b) % m
      BY <2>5, RemainderOfProduct
    <2>7. ((c * b) * a) % m = (((c * b) % m) * a) % m
      BY <2>5, RemainderOfProduct
    <2>8. (c * b) * a = (a * c) * b
      BY SMT
    <2>9. ((c * b) % m) * a = a * ((c * b) % m)
      <3>1. (c * b) % m \in Int
        BY <2>5, Divided, SMT
      <3>2. \A d \in Int : d * a = a * d
        BY SMT
      <3> QED  BY <3>1, <3>2
    <2> QED  BY <1>1, <2>3, <2>4, <2>6, <2>7, <2>8, <2>9
  <1>4. Nat \subseteq S
    <2> HIDE DEF S
    <2> QED  BY <1>2, <1>3, Induction
  <1> QED  BY <1>4

\* One turn of Power: the power from the one with half the exponent.
LEMMA PowerTurn ==
    ASSUME NEW b \in Nat, NEW m \in Nat, m > 0, NEW f, PowersOf(f, b, m), NEW k \in Nat, k # 0
    PROVE  /\ k \div 2 \in 0 .. k - 1
           /\ f[k] = (f[k \div 2] * f[k \div 2] * (IF k % 2 = 1 THEN b ELSE 1)) % m
  <1>1. PICK d \in Nat, r \in 0 .. 1 : d = k \div 2 /\ r = k % 2 /\ k = (d + d) + r
    BY SMT
  <1>2. PICK a \in Int : a = f[d]
    BY DEF PowersOf
  <1>3. d \in 0 .. k - 1 /\ d + d \in Nat /\ a * a \in Int /\ b \in Int
    <2>1. k = (d + d) + r
      BY <1>1
    <2>2. a * a \in Int
      BY SMT
    <2> QED  BY <2>1, <2>2, SMT
  <1>4. f[d + d] = (a * a) % m
    BY <1>2, PowersAdd, SMTT(30)
  <1>5. CASE r = 0
    <2>1. d + d = k /\ (a * a) * 1 = a * a
      <3>1. k = (d + d) + r
        BY <1>1
      <3>2. \A c \in Int : c * 1 = c
        BY SMT
      <3>3. d + d = k
        BY <1>5, <3>1, SMT
      <3> QED  BY <1>3, <3>2, <3>3
    <2>2. ~ (k % 2 = 1)
      BY <1>1, <1>5
    <2>3. f[k] = (a * a * (IF k % 2 = 1 THEN b ELSE 1)) % m
      BY <1>4, <2>1, <2>2
    <2> QED  BY <1>1, <1>2, <1>3, <2>3
  <1>6. CASE r = 1
    <2>1. k = (d + d) + 1 /\ k % 2 = 1
      BY <1>1, <1>6
    <2>2. f[(d + d) + 1] = (f[d + d] * b) % m
      BY <1>3 DEF PowersOf
    <2>3. ((a * a) * b) % m = (((a * a) % m) * b) % m
      BY <1>3, RemainderOfProduct
    <2>4. f[k] = (a * a * (IF k % 2 = 1 THEN b ELSE 1)) % m
      BY <1>4, <2>1, <2>2, <2>3
    <2> QED  BY <1>1, <1>2, <1>3, <2>4
  <1>7. r = 0 \/ r = 1
    BY SMT
  <1> QED  BY <1>5, <1>6, <1>7

\* Power finds them.
LEMMA PowerIs ==
    ASSUME NEW b \in Nat, NEW m \in Nat, m > 0, NEW f, PowersOf(f, b, m), NEW e \in Nat
    PROVE  Power(b, e, m) = f[e]
  <1> DEFINE turn(k, half) == (half * half * (IF k % 2 = 1 THEN b ELSE 1)) % m
             Is(g) == g = [k \in 0 .. e |-> IF k = 0 THEN 1 % m ELSE turn(k, g[k \div 2])]
  <1>1. ASSUME NEW k \in Nat, k # 0
        PROVE  k \div 2 \in 0 .. k - 1 /\ f[k] = turn(k, f[k \div 2])
    BY <1>1, PowerTurn
  <1>2. f[0] = 1 % m
    BY DEF PowersOf
  <1> HIDE DEF turn
  <1>3. Is([k \in 0 .. e |-> f[k]])
    <2>1. ASSUME NEW k \in 0 .. e
          PROVE  f[k] = IF k = 0 THEN 1 % m ELSE turn(k, [q \in 0 .. e |-> f[q]][k \div 2])
      <3>1. CASE k = 0
        BY <1>2, <3>1
      <3>2. CASE k # 0
        <4>1. k \in Nat /\ \A q \in 0 .. k - 1 : q \in 0 .. e
          BY <3>2, SMT
        <4>2. k \div 2 \in 0 .. e /\ f[k] = turn(k, f[k \div 2])
          BY <1>1, <3>2, <4>1
        <4> QED  BY <3>2, <4>2
      <3> QED  BY <3>1, <3>2
    <2> QED  BY <2>1
  <1>4. PICK g : Is(g) /\ Power(b, e, m) = g[e]
    <2> DEFINE c == CHOOSE g : Is(g)
    <2>1. Power(b, e, m) = c[e]
      BY DEF Power, turn
    <2> HIDE DEF Is
    <2>2. Is(c)
      BY <1>3
    <2> HIDE DEF c
    <2> QED  BY <2>1, <2>2
  <1> DEFINE S == {k \in Nat : \A q \in 0 .. k : q <= e => g[q] = f[q]}
  <1>5. g[0] = f[0]
    <2>1. 0 \in 0 .. e
      BY SMT
    <2> QED  BY <1>2, <1>4, <2>1
  <1>6. 0 \in S
    <2>1. \A q \in 0 .. 0 : q = 0
      BY SMT
    <2> QED  BY <1>5, <2>1
  <1>7. ASSUME NEW k \in Nat, k \in S PROVE k + 1 \in S
    <2>1. ASSUME NEW q \in 0 .. k + 1, q <= e PROVE g[q] = f[q]
      <3>1. CASE q \in 0 .. k
        BY <1>7, <2>1, <3>1
      <3>2. CASE ~ (q \in 0 .. k)
        <4>1. q \in Nat /\ q # 0 /\ q \in 0 .. e /\ \A d \in 0 .. q - 1 : d \in 0 .. k /\ d <= e
          BY <2>1, <3>2, SMT
        <4>2. g[q] = turn(q, g[q \div 2])
          BY <1>4, <4>1
        <4>3. q \div 2 \in 0 .. q - 1 /\ f[q] = turn(q, f[q \div 2])
          BY <1>1, <4>1
        <4>4. g[q \div 2] = f[q \div 2]
          BY <1>7, <4>1, <4>3
        <4> QED  BY <4>2, <4>3, <4>4
      <3> QED  BY <3>1, <3>2
    <2> QED  BY <2>1
  <1>8. Nat \subseteq S
    <2> HIDE DEF S
    <2> QED  BY <1>6, <1>7, Induction
  <1>9. e \in 0 .. e /\ e <= e
    BY SMT
  <1>10. g[e] = f[e]
    BY <1>8, <1>9
  <1> QED  BY <1>4, <1>10

\* What the proofs use of Power.
LEMMA PowerFacts ==
    ASSUME NEW b \in Nat, NEW m \in Nat, m > 1
    PROVE  /\ Power(b, 0, m) = 1 /\ Power(b, 1, m) = b % m
           /\ \A p \in Nat, q \in Nat :
                 Power(b, p + q, m) = (Power(b, p, m) * Power(b, q, m)) % m
           /\ \A p \in Nat : Power(b, p, m) \in 0 .. m - 1
  <1>1. m > 0 /\ m \in Nat
    BY SMT
  <1>2. PICK f : PowersOf(f, b, m)
    BY <1>1, ThereArePowers
  <1>3. \A p \in Nat : Power(b, p, m) = f[p]
    BY <1>1, <1>2, PowerIs
  <1>4. \A p \in Nat, q \in Nat : f[p + q] = (f[p] * f[q]) % m
    BY <1>1, <1>2, PowersAdd
  <1>5. 1 % m = 1
    <2>1. 1 \in Int /\ 1 >= 0
      BY SMT
    <2> QED  BY <1>1, <2>1, Remainder
  <1>6. f[0] = 1 /\ 0 \in Nat /\ 1 \in Nat
    BY <1>2, <1>5, SMT DEF PowersOf
  <1>7. f[1] = b % m
    <2>1. 0 + 1 = 1 /\ 1 * b = b
      BY SMT
    <2>2. f[0 + 1] = (f[0] * b) % m
      BY <1>2, <1>6 DEF PowersOf
    <2> QED  BY <1>6, <2>1, <2>2
  <1>8. \A p \in Nat : f[p] \in 0 .. m - 1
    BY <1>2 DEF PowersOf
  <1>9. \A p \in Nat, q \in Nat : p + q \in Nat
    BY SMT
  <1>10. Power(b, 0, m) = 1 /\ Power(b, 1, m) = b % m
    BY <1>3, <1>6, <1>7
  <1>11. ASSUME NEW p \in Nat, NEW q \in Nat
         PROVE  Power(b, p + q, m) = (Power(b, p, m) * Power(b, q, m)) % m
    <2>1. Power(b, p + q, m) = f[p + q] /\ Power(b, p, m) = f[p] /\ Power(b, q, m) = f[q]
      BY <1>3, <1>9
    <2> QED  BY <1>4, <2>1, Zenon
  <1>12. \A p \in Nat : Power(b, p, m) \in 0 .. m - 1
    BY <1>3, <1>8
  <1> QED  BY <1>10, <1>11, <1>12

-----------------------------------------------------------------------------
(* The inductive invariant: what the arguments are, what the reduction keeps *)
(* and how far it is, and which powers mod_data and result hold.             *)

\* The bit of the exponent that is being worked off.
Place == Bits * i + j

ReducingFor(for) == Reducing /\ target = for

Arguments ==
  /\ call \in Instance
  /\ data = Number(call.data, N) /\ expo = Number(call.expo, N + 1)
  /\ ~ ReducingFor("data") => Value(key, N) = call.key

Reduction ==
  /\ turns \in 0 .. 3
  /\ Reducing =>
       /\ target \in {"data", "result", "mod_data"}
       /\ n = IF target = "data" THEN N ELSE 2 * N + 1
       /\ pc = "shift" => left > 0 /\ Value(res, n) < 2 * Value(op2, n)
       /\ pc = "subtract" => Value(res, n) + turns * Value(op2, n) < 4 * Value(op2, n)
       /\ pc = "return" => left = 0
  /\ ReductionIsCongruent

\* The bits of the exponent below this one are in result.
BitsDone == IF pc = "square" \/ ReducingFor("mod_data") THEN Place + 1 ELSE Place

Powers ==
  /\ pc = "start" \/ ReducingFor("data") => i = 0 /\ j = 0
  /\ pc \in {"bit", "square"} \/ ReducingFor("result") \/ ReducingFor("mod_data") =>
       /\ i <= expo_len
       /\ Value(mod_data, N) = Power(call.data, TwoTo[Place], call.key)
       /\ Value(result, N) = Power(call.data, call.expo % TwoTo[BitsDone], call.key)
  /\ ReducingFor("result") => (call.expo \div TwoTo[Place]) % 2 = 1
  /\ ReturnsPower

IInv == TypeOK /\ Arguments /\ Reduction /\ Powers

\* What modbignum starts with: as long as its first argument, and no bit is lost.
LEMMA Aligned ==
    ASSUME NEW m \in Nat, m > 0, NEW x \in Arrays(m), NEW y \in Arrays(m), Value(y, m) > 0,
           NEW d \in Int, d = bit_length(x, m) - bit_length(y, m)
    PROVE  /\ d <= Bits * m
           /\ d < 0 => Value(x, m) < Value(y, m)
           /\ d = 0 => Value(x, m) < 2 * Value(y, m)
           /\ d > 0 => /\ slnbignum(y, m, d) \in Arrays(m)
                       /\ Value(slnbignum(y, m, d), m) = Value(y, m) * TwoTo[d]
                       /\ Value(x, m) < 2 * (Value(y, m) * TwoTo[d])
  <1>1. Words(x, m) /\ Words(y, m) /\ m \in 0 .. m
    BY ArrayIs, SMT
  <1>2. PICK a \in Nat, b \in Nat, B \in Nat, v \in Nat, k \in Nat :
           /\ a = bit_length(x, m) /\ b = bit_length(y, m) /\ B = Bits * m /\ a <= B
           /\ v = Value(x, m) /\ k = Value(y, m) /\ v < TwoTo[a] /\ k < TwoTo[b]
           /\ b > 0 => TwoTo[b - 1] <= k
    <2>1. /\ bit_length(x, m) \in 0 .. Bits * m /\ Value(x, m) < TwoTo[bit_length(x, m)]
          /\ bit_length(y, m) \in 0 .. Bits * m /\ Value(y, m) < TwoTo[bit_length(y, m)]
          /\ bit_length(y, m) > 0 => TwoTo[bit_length(y, m) - 1] <= Value(y, m)
      BY <1>1, BitLengthIs
    <2>2. Bits * m \in Nat /\ Value(x, m) \in Nat /\ Value(y, m) \in Nat
      BY <1>1, ValueInt, WeightIs
    <2>3. \A q \in 0 .. Bits * m : q \in Nat /\ q <= Bits * m
      BY <2>2, SMT
    <2> QED  BY <2>1, <2>2, <2>3
  <1>3. d = a - b /\ d <= B
    <2>1. d = a - b
      BY <1>2
    <2>2. a <= B
      BY <1>2
    <2> QED  BY <2>1, <2>2, SMT
  <1>4. b > 0 /\ b - 1 \in Nat /\ (b - 1) + 1 = b
    <2>1. b # 0
      <3>1. ASSUME b = 0 PROVE FALSE
        <4>1. k < 1 /\ k > 0
          BY <1>2, <3>1, TwoToIs
        <4> QED  BY <4>1, SMT
      <3> QED  BY <3>1
    <2> QED  BY <2>1, SMT
  <1>5. PICK h \in Nat, g \in Nat, t \in Nat :
           /\ h = TwoTo[b - 1] /\ g = TwoTo[b] /\ t = TwoTo[a] /\ g = 2 * h /\ h <= k /\ k < g /\ v < t
    <2>1. TwoTo[b - 1] \in Nat /\ TwoTo[b] \in Nat /\ TwoTo[a] \in Nat
      BY <1>4, TwoToType
    <2>2. TwoTo[b] = 2 * TwoTo[b - 1]
      BY <1>4, TwoToIs
    <2> QED  BY <1>2, <1>4, <2>1, <2>2
  <1>6. d < 0 => v < k
    <2>1. ASSUME d < 0 PROVE v < k
      <3>1. a <= b - 1
        <4>1. d = a - b
          BY <1>3
        <4> QED  BY <2>1, <4>1, SMT
      <3>2. t <= h
        BY <1>4, <1>5, <3>1, TwoToGrows
      <3>3. v < t /\ h <= k
        BY <1>5
      <3> QED  BY <3>2, <3>3, SMT
    <2> QED  BY <2>1
  <1>7. d = 0 => v < 2 * k
    <2>1. ASSUME d = 0 PROVE v < 2 * k
      <3>1. a = b
        <4>1. d = a - b
          BY <1>3
        <4> QED  BY <2>1, <4>1, SMT
      <3>2. t = 2 * h /\ v < t /\ h <= k
        BY <1>5, <3>1
      <3> QED  BY <3>2, SMT
    <2> QED  BY <2>1
  <1>8. ASSUME d > 0
        PROVE  /\ slnbignum(y, m, d) \in Arrays(m)
               /\ Value(slnbignum(y, m, d), m) = k * TwoTo[d] /\ v < 2 * (k * TwoTo[d])
    <2>1. d \in Nat /\ b + d = a
      <3>1. d = a - b
        BY <1>3
      <3> QED  BY <1>8, <3>1, SMT
    <2>2. PICK z \in Nat : z = TwoTo[d] /\ z > 0
      BY <2>1, TwoToType
    <2>3. t = g * z
      <3>1. TwoTo[b + d] = TwoTo[b] * TwoTo[d]
        BY <2>1, TwoToPlus
      <3> QED  BY <1>5, <2>1, <2>2, <3>1
    <2>4. k * z < t
      <3>1. k * z < g * z
        BY <1>5, <2>2, LessTimes, SMT
      <3> QED  BY <2>3, <3>1
    <2>5. v < 2 * (k * z)
      <3>1. h * z <= k * z
        BY <1>5, LessTimes, SMT
      <3>2. t = 2 * (h * z)
        <4>1. (2 * h) * z = 2 * (h * z)
          BY SMT
        <4> QED  BY <1>5, <2>3, <4>1
      <3>3. PICK p \in Int, q \in Int : p = h * z /\ q = k * z
        BY SMT
      <3>4. p <= q /\ t = 2 * p /\ v < t
        BY <1>5, <3>1, <3>2, <3>3
      <3>5. v < 2 * q
        BY <3>4, SMT
      <3> QED  BY <3>3, <3>5
    <2>6. PICK w \in Nat : w = Weight(m) /\ t <= w
      <3>1. t <= TwoTo[B]
        BY <1>2, <1>5, TwoToGrows
      <3> QED  BY <1>2, <3>1, WeightIs DEF Weight
    <2>7. k * z < w
      <3>1. PICK q \in Int : q = k * z
        BY SMT
      <3>2. q < t /\ t <= w
        BY <2>4, <2>6, <3>1
      <3>3. q < w
        BY <3>2, SMT
      <3> QED  BY <3>1, <3>3
    <2>8. d <= Bits * m
      BY <1>2, <1>3
    <2>9. Value(y, m) * TwoTo[d] < Weight(m)
      BY <1>2, <2>2, <2>6, <2>7
    <2> QED  BY <1>2, <2>1, <2>2, <2>5, <2>8, <2>9, ShiftLeftIs
  <1> QED  BY <1>2, <1>3, <1>6, <1>7, <1>8

\* The next bit of a number.
LEMMA NextBit ==
    ASSUME NEW e \in Nat, NEW t \in Nat, t > 0
    PROVE  /\ (e \div t) % 2 \in 0 .. 1
           /\ (e \div t) % 2 = 1 => e % (2 * t) = (e % t) + t
           /\ (e \div t) % 2 = 0 => e % (2 * t) = e % t
           /\ e < t => e % t = e
           /\ e % t \in Nat
  <1>1. e \in Int /\ e >= 0 /\ 2 * t \in Nat /\ 2 * t > 0
    BY SMT
  <1>2. PICK d \in Int, r \in 0 .. t - 1 : d = e \div t /\ r = e % t /\ e = t * d + r
    <2>1. e \div t \in Int /\ e % t \in 0 .. t - 1 /\ e = t * (e \div t) + (e % t)
      BY <1>1, Divided
    <2> QED  BY <2>1
  <1>3. PICK a \in Int, b \in 0 .. 1 : b = d % 2 /\ d = 2 * a + b
    BY SMT
  <1>4. e = (2 * t) * a + (b * t + r)
    <2>1. t * (2 * a + b) = (2 * t) * a + b * t
      BY SMT
    <2>2. e = t * (2 * a + b) + r
      BY <1>2, <1>3
    <2>3. (2 * t) * a \in Int /\ b * t \in Int
      BY SMT
    <2> QED  BY <2>1, <2>2, <2>3, SMT
  <1>5. ASSUME NEW c \in Int, c = b * t + r, c \in 0 .. 2 * t - 1 PROVE e % (2 * t) = c
    BY <1>1, <1>4, <1>5, DividedIs
  <1>6. ASSUME b = 1 PROVE e % (2 * t) = r + t
    <2>1. r + t = b * t + r /\ r + t \in 0 .. 2 * t - 1 /\ r + t \in Int
      BY <1>6, SMT
    <2> QED  BY <1>5, <2>1
  <1>7. ASSUME b = 0 PROVE e % (2 * t) = r
    <2>1. r = b * t + r /\ r \in 0 .. 2 * t - 1 /\ r \in Int
      BY <1>7, SMT
    <2> QED  BY <1>5, <2>1
  <1>8. e < t => e % t = e
    BY <1>1, Remainder
  <1>9. r \in Nat
    BY SMT
  <1> QED  BY <1>2, <1>3, <1>6, <1>7, <1>8, <1>9

\* The numbers of a call fit in N words.
LEMMA Calls ==
    ASSUME call \in Instance
    PROVE  /\ call.data \in Nat /\ call.data < Weight(N)
           /\ call.expo \in Nat /\ call.expo < Weight(N)
           /\ call.key \in Nat /\ call.key < Weight(N) /\ call.key > 1 /\ call.key > 0
  <1>1. call.data \in 0 .. (TwoTo[Bits * N] - 1) /\ call.expo \in 0 .. (TwoTo[Bits * N] - 1)
        /\ call.key \in 0 .. (TwoTo[Bits * N] - 1) /\ call.key > 1
    BY InstanceAssumption
  <1>2. PICK w \in Nat : w = Weight(N) /\ w = TwoTo[Bits * N]
    BY Lengths, WeightIs DEF Weight
  <1>3. \A v \in 0 .. w - 1 : v \in Nat /\ v < w /\ (v > 1 => v > 0)
    BY SMT
  <1> QED  BY <1>1, <1>2, <1>3

\* What the arrays of the arguments are.
LEMMA ArgumentsAre ==
    ASSUME Arguments
    PROVE  /\ data \in Arrays(N) /\ Value(data, N) = call.data
           /\ expo \in Arrays(N + 1) /\ Value(expo, N) = call.expo /\ Words(expo, N + 1)
           /\ Value(expo, N + 1) = call.expo /\ Words(expo, N)
  <1>1. call \in Instance /\ data = Number(call.data, N) /\ expo = Number(call.expo, N + 1)
    BY DEF Arguments
  <1>2. data \in Arrays(N) /\ Value(data, N) = call.data
    BY <1>1, Calls, Lengths, NumberIs
  <1>3. call.expo \in Nat /\ call.expo < Weight(N + 1)
    <2>1. Weight(N) <= Weight(N + 1) /\ Weight(N) \in Nat /\ Weight(N + 1) \in Nat
      <3>1. N <= N + 1
        BY Lengths, SMT
      <3> QED  BY <3>1, Lengths, WeightPlus
    <2>2. call.expo \in Nat /\ call.expo < Weight(N)
      BY <1>1, Calls
    <2> QED  BY <2>1, <2>2, SMT
  <1>4. expo \in Arrays(N + 1) /\ Value(expo, N + 1) = call.expo
    BY <1>1, <1>3, Lengths, NumberIs
  <1>5. Words(expo, N + 1) /\ N \in 0 .. N + 1 /\ \A k \in 1 .. N : k \in 1 .. N + 1
    BY <1>4, Lengths, ArrayIs, SMT
  <1>6. Value(expo, N) = Value(expo, N + 1)
    BY <1>1, <1>4, <1>5, Calls, Lengths, ValueLow
  <1>7. Words(expo, N)
    BY <1>5 DEF Words
  <1> QED  BY <1>2, <1>4, <1>5, <1>6, <1>7

\* The loop looks at enough words of the exponent, and at no more than there are.
LEMMA LengthOfExponent ==
    ASSUME Arguments
    PROVE  expo_len \in 0 .. N /\ call.expo < TwoTo[Bits * (expo_len + 1)]
  <1>1. /\ bit_length(expo, N) \in 0 .. Bits * N
        /\ call.expo < TwoTo[bit_length(expo, N)]
    BY ArgumentsAre, Lengths, BitLengthIs
  <1>2. PICK h \in Nat, b \in Nat, q \in Int, r \in Int :
           /\ h = Bits /\ b = bit_length(expo, N) /\ q = expo_len /\ b = h * q + r /\ b <= h * N
           /\ h > 0 /\ r >= 0 /\ r < h
    <2>1. Bits \in Nat /\ Bits > 0
      BY Sizes, SMT
    <2>2. bit_length(expo, N) \in Nat /\ bit_length(expo, N) <= Bits * N
          /\ bit_length(expo, N) \in Int
      BY <1>1, <2>1, Lengths, SMT
    <2>3. /\ bit_length(expo, N) \div Bits \in Int /\ bit_length(expo, N) % Bits \in 0 .. Bits - 1
          /\ bit_length(expo, N) = Bits * (bit_length(expo, N) \div Bits) + (bit_length(expo, N) % Bits)
      BY <2>1, <2>2, Divided
    <2>4. bit_length(expo, N) % Bits \in Int /\ bit_length(expo, N) % Bits >= 0
          /\ bit_length(expo, N) % Bits < Bits
      BY <2>1, <2>3, SMT
    <2> QED  BY <2>1, <2>2, <2>3, <2>4 DEF expo_len
  <1>a. b = h * q + r /\ b <= h * N /\ h > 0 /\ N \in Nat /\ r >= 0 /\ r < h
    BY <1>2, Lengths
  <1>3. q >= 0
    <2>1. q <= 0 - 1 => h * q <= 0 - h
      BY SMT
    <2> QED  BY <1>a, <2>1, SMT
  <1>4. q <= N
    <2>1. q >= N + 1 => h * q >= h * N + h
      <3>1. q >= N + 1 => q * h >= (N + 1) * h
        BY <1>a, LessTimes, SMT
      <3>2. q * h = h * q /\ (N + 1) * h = h * N + h
        BY <1>a, SMT
      <3> QED  BY <3>1, <3>2
    <2>2. h * q \in Int /\ h * N \in Int
      BY <1>a, SMT
    <2> QED  BY <1>a, <2>1, <2>2, SMT
  <1>5. q \in 0 .. N /\ q + 1 \in Nat /\ h * (q + 1) \in Nat /\ b <= h * (q + 1)
    <2>1. q \in 0 .. N /\ q + 1 \in Nat
      BY <1>a, <1>3, <1>4, SMT
    <2>2. h * (q + 1) = h * q + h /\ h * q \in Int
      BY SMT
    <2>3. h * (q + 1) \in Nat
      BY <2>1, Products
    <2> QED  BY <1>a, <2>1, <2>2, <2>3, SMT
  <1>6. TwoTo[b] <= TwoTo[h * (q + 1)] /\ TwoTo[b] \in Nat /\ TwoTo[h * (q + 1)] \in Nat
    BY <1>5, TwoToGrows, TwoToType
  <1>7. call.expo < TwoTo[b] /\ call.expo \in Nat
    BY <1>1, <1>2, Calls DEF Arguments
  <1>8. call.expo < TwoTo[h * (q + 1)]
    BY <1>6, <1>7, SMT
  <1> QED  BY <1>2, <1>5, <1>8

\* A bit that the loop looks at is the bit of the exponent at this place.
LEMMA BitLookedAt ==
    ASSUME Arguments, i \in 0 .. N, j \in 0 .. Bits - 1
    PROVE  BitSet(expo[i + 1], j) <=> (call.expo \div TwoTo[Place]) % 2 = 1
  <1>1. i \in 0 .. (N + 1) - 1 /\ N + 1 \in Nat
    BY Lengths, SMT
  <1> QED  BY <1>1, ArgumentsAre, BitOfValue DEF Place

\* The place of a bit is a number.
LEMMA PlaceIs ==
    ASSUME i \in Nat, j \in 0 .. Bits - 1
    PROVE  /\ Place \in Nat /\ TwoTo[Place] \in Nat /\ TwoTo[Place] > 0
           /\ TwoTo[Place + 1] = 2 * TwoTo[Place]
  <1>1. Place \in Nat
    <2>1. Bits * i \in Nat /\ j \in Nat
      BY Sizes, SMT
    <2> QED  BY <2>1, SMT DEF Place
  <1> QED  BY <1>1, TwoToIs, TwoToType

\* modbignum begins to reduce x, by the key.
LEMMA ReductionBegins ==
    ASSUME NEW m \in Nat, m > 0, NEW x \in Arrays(m), NEW y \in Arrays(m), NEW for,
           call \in Instance, Value(y, m) = call.key, modbignum(for, x, y, m)
    PROVE  /\ target' = for /\ n' = m /\ res' = x /\ turns' = 0
           /\ pc' \in {"shift", "subtract", "return"}
           /\ op2' \in Arrays(m) /\ left' \in 0 .. Bits * m
           /\ Value(op2', m) = call.key * TwoTo[left']
           /\ pc' = "shift" => left' > 0 /\ Value(x, m) < 2 * Value(op2', m)
           /\ pc' = "subtract" => Value(x, m) + 0 * Value(op2', m) < 4 * Value(op2', m)
           /\ pc' = "return" => left' = 0 /\ Value(x, m) < call.key
  <1>1. call.key \in Nat /\ call.key > 0
    BY Calls
  <1>2. PICK d \in Int : d = bit_length(x, m) - bit_length(y, m)
    <2>1. Words(x, m) /\ Words(y, m)
      BY ArrayIs
    <2>2. bit_length(x, m) \in 0 .. Bits * m /\ bit_length(y, m) \in 0 .. Bits * m /\ Bits * m \in Nat
      BY <2>1, BitLengthIs, WeightIs
    <2> QED  BY <2>2, SMT
  <1>3. /\ target' = for /\ n' = m /\ res' = x /\ turns' = 0
        /\ left' = (IF d < 0 THEN 0 ELSE d)
        /\ op2' = (IF d > 0 THEN slnbignum(y, m, d) ELSE y)
        /\ pc' = (IF d < 0 THEN "return" ELSE IF d = 0 THEN "subtract" ELSE "shift")
    BY <1>2 DEF modbignum
  <1>4. /\ d <= Bits * m
        /\ d < 0 => Value(x, m) < Value(y, m)
        /\ d = 0 => Value(x, m) < 2 * Value(y, m)
        /\ d > 0 => /\ slnbignum(y, m, d) \in Arrays(m)
                    /\ Value(slnbignum(y, m, d), m) = Value(y, m) * TwoTo[d]
                    /\ Value(x, m) < 2 * (Value(y, m) * TwoTo[d])
    BY <1>1, <1>2, Aligned
  <1>5. Bits * m \in Nat /\ call.key * TwoTo[0] = call.key
    <2>1. call.key * 1 = call.key
      BY <1>1, SMT
    <2> QED  BY <2>1, TwoToIs, WeightIs
  <1>6. CASE d < 0
    <2>1. /\ left' = 0 /\ op2' = y /\ pc' = "return"
      <3>1. ~ (d > 0)
        BY <1>6, SMT
      <3> QED  BY <1>3, <1>6, <3>1
    <2>2. 0 \in 0 .. Bits * m
      BY <1>5, SMT
    <2> QED  BY <1>3, <1>4, <1>5, <1>6, <2>1, <2>2
  <1>7. CASE d = 0
    <2>1. left' = 0 /\ op2' = y /\ pc' = "subtract"
      <3>1. ~ (d > 0) /\ ~ (d < 0)
        BY <1>7, SMT
      <3> QED  BY <1>3, <1>7, <3>1
    <2>2. 0 \in 0 .. Bits * m
      BY <1>5, SMT
    <2>3. PICK v \in Nat, k \in Nat : v = Value(x, m) /\ k = call.key /\ v < 2 * k
      <3>1. m \in 0 .. m
        BY SMT
      <3> QED  BY <1>1, <1>4, <1>7, <3>1, ArrayIs, ValueInt
    <2>4. v + 0 * k < 4 * k
      <3>1. v < 2 * k
        BY <2>3
      <3> QED  BY <3>1, SMT
    <2> QED  BY <1>3, <1>5, <2>1, <2>2, <2>3, <2>4
  <1>8. CASE d > 0
    <2>1. left' = d /\ op2' = slnbignum(y, m, d) /\ pc' = "shift"
      <3>1. ~ (d = 0) /\ ~ (d < 0)
        BY <1>8, SMT
      <3> QED  BY <1>3, <1>8, <3>1
    <2>2. d \in 0 .. Bits * m
      BY <1>4, <1>5, <1>8, SMT
    <2> QED  BY <1>3, <1>4, <1>8, <2>1, <2>2
  <1>9. d < 0 \/ d = 0 \/ d > 0
    BY SMT
  <1> QED  BY <1>6, <1>7, <1>8, <1>9

-----------------------------------------------------------------------------
(* The steps of the reduction.                                               *)

\* The call begins in the invariant.
LEMMA InitInv ==
    Init => IInv
  <1> SUFFICES ASSUME Init PROVE IInv
    OBVIOUS
  <1>1. call \in Instance /\ pc = "start" /\ ~ Reducing /\ i = 0 /\ j = 0 /\ left = 0 /\ turns = 0
        /\ data = Number(call.data, N) /\ expo = Number(call.expo, N + 1)
        /\ key = Number(call.key, N)
        /\ mod_data = Number(0, N) /\ result = Number(0, N)
    BY DEF Init, Reducing
  <1>2. key \in Arrays(N) /\ Value(key, N) = call.key
    BY <1>1, Calls, Lengths, NumberIs
  <1>3. Number(0, N) \in Arrays(N)
    <2>1. 0 \in Nat /\ 0 < Weight(N)
      BY Lengths, WeightIs
    <2> QED  BY <2>1, Lengths, NumberIs
  <1>4. Arguments
    BY <1>1, <1>2 DEF Arguments
  <1>5. data \in Arrays(N) /\ expo \in Arrays(N + 1)
    BY <1>4, ArgumentsAre
  <1>6. 0 \in 0 .. N + 1 /\ 0 \in 0 .. (Bits - 1) /\ 0 \in 0 .. Bits * n /\ 0 \in 0 .. 3
    <2>1. n = 0 /\ Bits \in Nat /\ Bits >= 2 /\ N \in Nat
      BY Sizes DEF Init
    <2>2. Bits * 0 = 0
      BY <2>1, SMT
    <2> QED  BY <2>1, <2>2, SMT
  <1>7. TypeOK
    BY <1>1, <1>2, <1>3, <1>5, <1>6 DEF TypeOK
  <1>8. Reduction
    BY <1>1, <1>6 DEF Reduction, ReductionIsCongruent
  <1>9. Powers
    BY <1>1 DEF Powers, ReducingFor, ReturnsPower
  <1> QED  BY <1>4, <1>7, <1>8, <1>9 DEF IInv

\* What is known while modbignum runs.
LEMMA WhileReducing ==
    ASSUME IInv, Reducing
    PROVE  /\ n \in Nat /\ n > 0 /\ res \in Arrays(n) /\ op2 \in Arrays(n)
           /\ left \in 0 .. Bits * n /\ left \in Nat
           /\ target \in {"data", "result", "mod_data"}
           /\ n = (IF target = "data" THEN N ELSE Length)
           /\ call \in Instance /\ call.key \in Nat /\ call.key > 1 /\ call.key > 0
           /\ Value(res, n) \in Nat /\ Value(op2, n) \in Nat
           /\ Value(op2, n) = call.key * TwoTo[left] /\ Words(res, n) /\ Words(op2, n)
           /\ turns \in 0 .. 3
  <1>1. /\ res \in Arrays(n) /\ op2 \in Arrays(n) /\ left \in 0 .. Bits * n
        /\ target \in {"data", "result", "mod_data"}
        /\ n = (IF target = "data" THEN N ELSE 2 * N + 1)
        /\ Value(op2, n) = call.key * TwoTo[left] /\ turns \in 0 .. 3 /\ call \in Instance
    BY DEF IInv, TypeOK, Reduction, ReductionIsCongruent, Arguments
  <1>2. n = (IF target = "data" THEN N ELSE Length) /\ n \in Nat /\ n > 0
    BY <1>1, Lengths DEF Length
  <1>3. left \in Nat
    <2>1. Bits * n \in Nat
      BY <1>2, WeightIs
    <2> QED  BY <1>1, <2>1, SMT
  <1>4. n \in 0 .. n
    BY <1>2, SMT
  <1>5. Words(res, n) /\ Words(op2, n)
    BY <1>1, <1>2, ArrayIs
  <1>6. Value(res, n) \in Nat /\ Value(op2, n) \in Nat
    BY <1>2, <1>4, <1>5, ValueInt
  <1> QED  BY <1>1, <1>2, <1>3, <1>5, <1>6, Calls

\* What the steps of modbignum leave alone.
Outside == << data, expo, key, mod_data, result, i, j, target, n, call >>

\* A step inside modbignum leaves the rest of the invariant.
LEMMA InsideReduction ==
    ASSUME IInv, Reducing, UNCHANGED Outside, Reducing',
           res' \in Arrays(n), op2' \in Arrays(n), left' \in 0 .. Bits * n,
           pc' \in {"shift", "subtract", "return"}
    PROVE  TypeOK' /\ Arguments' /\ Powers'
  <1>1. TypeOK'
    BY DEF IInv, TypeOK, Outside
  <1>2. Arguments'
    BY DEF IInv, Arguments, ReducingFor, Outside
  <1>3. Powers'
    <2>1. /\ ReducingFor("data") => i = 0 /\ j = 0
          /\ ReducingFor("result") \/ ReducingFor("mod_data") =>
                /\ i <= expo_len
                /\ Value(mod_data, N) = Power(call.data, TwoTo[Place], call.key)
                /\ Value(result, N) = Power(call.data, call.expo % TwoTo[BitsDone], call.key)
          /\ ReducingFor("result") => (call.expo \div TwoTo[Place]) % 2 = 1
      BY DEF IInv, Powers
    <2>2. /\ ReducingFor("data")' <=> ReducingFor("data")
          /\ ReducingFor("result")' <=> ReducingFor("result")
          /\ ReducingFor("mod_data")' <=> ReducingFor("mod_data")
      BY DEF ReducingFor, Outside
    <2>3. pc # "square" /\ pc' # "square" /\ pc' # "start" /\ pc' # "bit" /\ pc' # "done"
      BY DEF Reducing
    <2>4. Place' = Place
      BY DEF Place, Outside
    <2>5. BitsDone' = BitsDone
      BY <2>2, <2>3, <2>4 DEF BitsDone
    <2>6. expo_len' = expo_len
      BY DEF expo_len, Outside
    <2>7. i' = i /\ j' = j /\ mod_data' = mod_data /\ result' = result /\ call' = call
      BY DEF Outside
    <2>8. (pc \in {"bit", "square"})' = FALSE
      BY <2>3
    <2> QED  BY <2>1, <2>2, <2>3, <2>4, <2>5, <2>6, <2>7 DEF Powers, ReturnsPower
  <1> QED  BY <1>1, <1>2, <1>3

\* The same reduction is under way, and what it reduces is the same modulo the key.
LEMMA StillCongruent ==
    ASSUME IInv, Reducing, UNCHANGED Outside, Reducing',
           Value(op2, n)' = call.key * TwoTo[left'],
           Value(res, n)' % call.key = Value(res, n) % call.key,
           pc' = "return" => Value(res, n)' < call.key
    PROVE  ReductionIsCongruent'
  <1> DEFINE goal == CASE target = "data" -> call.data % call.key
                       [] target = "result" -> (Value(result, N) * Value(mod_data, N)) % call.key
                       [] target = "mod_data" -> (Value(mod_data, N) * Value(mod_data, N)) % call.key
  <1>1. Value(res, n) % call.key = goal
    BY DEF IInv, Reduction, ReductionIsCongruent
  <1>2. goal' = goal
    BY DEF Outside
  <1>3. call' = call
    BY DEF Outside
  <1> QED  BY <1>1, <1>2, <1>3 DEF ReductionIsCongruent

\* Half the shifted modulus (rsa.c:168-170).
LEMMA ShiftInv ==
    ASSUME IInv, Shift
    PROVE  IInv'
  <1>1. /\ pc = "shift" /\ Reducing /\ op2' = srnbignum(op2, n, 1) /\ left' = left - 1
        /\ turns' = 0 /\ pc' = "subtract" /\ Reducing' /\ UNCHANGED Outside /\ res' = res /\ n' = n
    BY DEF Shift, Reducing, Outside
  <1>2. left > 0 /\ Value(res, n) < 2 * Value(op2, n)
    BY <1>1 DEF IInv, Reduction
  <1>3. PICK t \in Nat, k \in Nat, r \in Nat :
           /\ t = TwoTo[left - 1] /\ k = call.key /\ r = Value(res, n)
           /\ Value(op2, n) = 2 * (k * t) /\ r < 2 * (2 * (k * t))
    <2>1. left - 1 \in Nat /\ (left - 1) + 1 = left
      BY <1>1, <1>2, WhileReducing, SMT
    <2>2. TwoTo[left] = 2 * TwoTo[left - 1] /\ TwoTo[left - 1] \in Nat
      BY <2>1, TwoToIs, TwoToType
    <2>3. call.key \in Nat /\ Value(op2, n) = call.key * TwoTo[left] /\ Value(res, n) \in Nat
      BY <1>1, WhileReducing
    <2>4. PICK a \in Nat, b \in Nat : a = call.key /\ b = TwoTo[left - 1]
      BY <2>2, <2>3
    <2>5. a * (2 * b) = 2 * (a * b)
      BY SMT
    <2>6. Value(op2, n) = 2 * (a * b)
      BY <2>2, <2>3, <2>4, <2>5
    <2> QED  BY <1>2, <2>3, <2>4, <2>6
  <1>4. op2' \in Arrays(n) /\ Value(op2', n) = k * t
    <2>1. /\ srnbignum(op2, n, 1) \in Arrays(n)
          /\ \E b \in 0 .. 1 : Value(op2, n) = 2 * Value(srnbignum(op2, n, 1), n) + b
      BY <1>1, WhileReducing, ShiftRightIs
    <2>2. PICK v \in Int : v = Value(srnbignum(op2, n, 1), n)
      <3>1. n \in 0 .. n /\ n \in Nat
        BY <1>1, WhileReducing, SMT
      <3> QED  BY <2>1, <3>1, ArrayIs, ValueInt
    <2>3. PICK b \in 0 .. 1 : 2 * (k * t) = 2 * v + b
      BY <1>3, <2>1, <2>2
    <2>4. PICK q \in Int : q = k * t
      BY SMT
    <2>5. 2 * q = 2 * v + b
      BY <2>3, <2>4
    <2>6. v = q
      BY <2>5, SMT
    <2> QED  BY <1>1, <2>1, <2>2, <2>4, <2>6
  <1>5. left' \in 0 .. Bits * n
    <2>1. PICK B \in Nat : B = Bits * n
      BY <1>1, WhileReducing, WeightIs
    <2>2. left \in 0 .. B
      BY <1>1, <2>1, WhileReducing
    <2>3. left - 1 \in 0 .. B
      BY <1>2, <2>2, SMT
    <2> QED  BY <1>1, <2>1, <2>3
  <1>6. TypeOK' /\ Arguments' /\ Powers'
    <2>1. res' \in Arrays(n)
      BY <1>1, WhileReducing
    <2> QED  BY <1>1, <1>4, <1>5, <2>1, InsideReduction
  <1>7. Value(op2, n)' = k * t /\ Value(res, n)' = r
    BY <1>1, <1>3, <1>4
  <1>8. ReductionIsCongruent'
    BY <1>1, <1>3, <1>7, StillCongruent
  <1>9. Reduction'
    <2>1. target' = target /\ n' = n
      BY <1>1 DEF Outside
    <2>2. r + 0 * (k * t) < 4 * (k * t)
      <3>1. PICK q \in Int : q = k * t
        BY SMT
      <3>2. r < 2 * (2 * q)
        BY <1>3, <3>1
      <3>3. r + 0 * q < 4 * q
        BY <3>2, SMT
      <3> QED  BY <3>1, <3>3
    <2>3. (Value(res, n) + turns * Value(op2, n) < 4 * Value(op2, n))'
      BY <1>1, <1>7, <2>2
    <2>4. turns' \in 0 .. 3
      BY <1>1, SMT
    <2>5. target \in {"data", "result", "mod_data"} /\ n = IF target = "data" THEN N ELSE 2 * N + 1
      BY <1>1 DEF IInv, Reduction
    <2>6. pc' # "shift" /\ pc' # "return"
      BY <1>1
    <2> QED  BY <1>8, <2>1, <2>3, <2>4, <2>5, <2>6 DEF Reduction
  <1> QED  BY <1>6, <1>9 DEF IInv

\* One subtraction, of the at most three (rsa.c:171-174).
LEMMA SubtractInv ==
    ASSUME IInv, Subtract
    PROVE  IInv'
  <1>1. /\ pc = "subtract" /\ Reducing /\ compare(res, op2, n) >= 0
        /\ res' = subbignum(res, op2, n) /\ turns' = turns + 1 /\ pc' = "subtract" /\ Reducing'
        /\ UNCHANGED Outside /\ op2' = op2 /\ left' = left /\ n' = n
    BY DEF Subtract, Reducing, Outside
  <1>2. Value(res, n) + turns * Value(op2, n) < 4 * Value(op2, n)
    BY <1>1 DEF IInv, Reduction
  <1>3. PICK r \in Nat, v \in Nat, k \in Nat, t \in Nat :
           /\ r = Value(res, n) /\ v = Value(op2, n) /\ k = call.key /\ t = TwoTo[left]
           /\ v = k * t /\ k > 0
    BY <1>1, WhileReducing, TwoToType
  <1>4. v <= r
    BY <1>1, <1>3, WhileReducing, CompareIs
  <1>5. res' \in Arrays(n) /\ Value(res', n) = r - v
    <2>1. n \in Nat /\ Words(res, n) /\ Words(op2, n)
      BY <1>1, WhileReducing
    <2>2. Value(op2, n) <= Value(res, n)
      BY <1>3, <1>4
    <2>3. /\ subbignum(res, op2, n) \in Arrays(n)
          /\ Value(subbignum(res, op2, n), n) = Value(res, n) - Value(op2, n)
      BY <2>1, <2>2, SubIs
    <2> QED  BY <1>1, <1>3, <2>3
  <1>6. TypeOK' /\ Arguments' /\ Powers'
    BY <1>1, <1>5, WhileReducing, InsideReduction
  <1>7. Value(op2, n)' = v /\ Value(res, n)' = r - v
    BY <1>1, <1>3, <1>5
  <1>8. ReductionIsCongruent'
    <2>1. (r - v) % k = r % k
      <3>1. PICK a \in Int, b \in Int, c \in Int : a = r - v /\ b = r /\ c = 0 - t
        BY SMT
      <3>2. k * c = 0 - k * t
        <4>1. k * (0 - t) = 0 - k * t
          BY SMT
        <4> QED  BY <3>1, <4>1
      <3>3. a = b + k * c
        <4>1. PICK q \in Int : q = k * t
          BY SMT
        <4>2. k * c = 0 - q /\ a = b - q
          BY <1>3, <3>1, <3>2, <4>1
        <4>3. b - q = b + (0 - q)
          BY SMT
        <4> QED  BY <4>2, <4>3
      <3>4. Congruent(a, b, k)
        BY <3>3 DEF Congruent
      <3>5. a % k = b % k
        BY <1>3, <3>4, CongruentIs
      <3> QED  BY <3>1, <3>5
    <2>2. pc' # "return"
      BY <1>1
    <2>3. Value(op2, n)' = call.key * TwoTo[left']
      BY <1>1, <1>3, <1>7
    <2>4. Value(res, n)' % call.key = Value(res, n) % call.key
      BY <1>3, <1>7, <2>1
    <2> QED  BY <1>1, <2>2, <2>3, <2>4, StillCongruent
  <1>9. PICK s \in 0 .. 3 : s = turns /\ r + s * v < 4 * v
    <2>1. turns \in 0 .. 3
      BY <1>1, WhileReducing
    <2> QED  BY <1>2, <1>3, <2>1
  <1>10. (r - v) + (s + 1) * v < 4 * v /\ s + 1 \in 0 .. 3
    <2>1. (s + 1) * v = s * v + v /\ s * v \in Int
      BY SMT
    <2>2. PICK q \in Int : q = s * v
      BY <2>1
    <2>3. r + q < 4 * v /\ (s + 1) * v = q + v
      BY <1>9, <2>1, <2>2
    <2>4. (r - v) + (q + v) < 4 * v
      BY <2>3, SMT
    <2>5. s # 3
      <3>1. ASSUME s = 3 PROVE FALSE
        <4>1. r + 3 * v < 4 * v
          BY <1>9, <3>1
        <4> QED  BY <1>4, <4>1, SMT
      <3> QED  BY <3>1
    <2>6. s + 1 \in 0 .. 3
      BY <2>5, SMT
    <2> QED  BY <2>3, <2>4, <2>6
  <1>11. Reduction'
    <2>1. target' = target /\ n' = n
      BY <1>1 DEF Outside
    <2>2. (Value(res, n) + turns * Value(op2, n) < 4 * Value(op2, n))'
      BY <1>1, <1>7, <1>9, <1>10
    <2>3. turns' \in 0 .. 3
      BY <1>1, <1>9, <1>10
    <2>4. target \in {"data", "result", "mod_data"} /\ n = IF target = "data" THEN N ELSE 2 * N + 1
      BY <1>1 DEF IInv, Reduction
    <2>5. pc' # "shift" /\ pc' # "return"
      BY <1>1
    <2> QED  BY <1>8, <2>1, <2>2, <2>3, <2>4, <2>5 DEF Reduction
  <1> QED  BY <1>6, <1>11 DEF IInv

\* The remainder is below the shifted modulus (rsa.c:158-177).
LEMMA SubtractDoneInv ==
    ASSUME IInv, SubtractDone
    PROVE  IInv'
  <1>1. /\ pc = "subtract" /\ Reducing /\ compare(res, op2, n) < 0
        /\ pc' = (IF left > 0 THEN "shift" ELSE "return") /\ Reducing'
        /\ UNCHANGED Outside /\ UNCHANGED << res, op2, left, turns >> /\ n' = n
    BY DEF SubtractDone, Reducing, Outside, reduction
  <1>2. PICK r \in Nat, v \in Nat, k \in Nat, d \in Nat :
           /\ r = Value(res, n) /\ v = Value(op2, n) /\ k = call.key /\ d = left
           /\ v = k * TwoTo[d]
    BY <1>1, WhileReducing
  <1>3. r < v
    BY <1>1, <1>2, WhileReducing, CompareIs
  <1>4. Value(op2, n)' = v /\ Value(res, n)' = r
    BY <1>1, <1>2
  <1>5. pc' = "shift" => left' > 0 /\ r < 2 * v
    <2>1. r < 2 * v
      BY <1>3, SMT
    <2> QED  BY <1>1, <2>1
  <1>6. pc' = "return" => left' = 0 /\ r < k
    <2>1. ASSUME pc' = "return" PROVE left' = 0 /\ r < k
      <3>1. ~ (d > 0)
        BY <1>1, <1>2, <2>1
      <3>2. d = 0
        BY <3>1, SMT
      <3>3. k * 1 = k
        BY SMT
      <3>4. v = k
        BY <1>2, <3>2, <3>3, TwoToIs
      <3> QED  BY <1>1, <1>2, <1>3, <3>2, <3>4
    <2> QED  BY <2>1
  <1>7. pc' \in {"shift", "subtract", "return"} /\ pc' # "subtract"
    BY <1>1
  <1>8. TypeOK' /\ Arguments' /\ Powers'
    BY <1>1, <1>7, WhileReducing, InsideReduction
  <1>9. ReductionIsCongruent'
    <2>1. Value(op2, n)' = call.key * TwoTo[left']
      BY <1>1, <1>2, <1>4
    <2>2. Value(res, n)' % call.key = Value(res, n) % call.key
      BY <1>2, <1>4
    <2>3. pc' = "return" => Value(res, n)' < call.key
      BY <1>2, <1>4, <1>6
    <2> QED  BY <1>1, <2>1, <2>2, <2>3, StillCongruent
  <1>10. Reduction'
    <2>1. target' = target /\ n' = n
      BY <1>1 DEF Outside
    <2>2. turns' \in 0 .. 3
      BY <1>1, WhileReducing
    <2>3. target \in {"data", "result", "mod_data"} /\ n = IF target = "data" THEN N ELSE 2 * N + 1
      BY <1>1 DEF IInv, Reduction
    <2> QED  BY <1>4, <1>5, <1>6, <1>7, <1>9, <2>1, <2>2, <2>3 DEF Reduction
  <1> QED  BY <1>8, <1>10 DEF IInv

-----------------------------------------------------------------------------
(* The steps that begin a reduction, and the steps that return from one.     *)

\* What the steps that begin a reduction leave alone.
Started == << data, expo, key, mod_data, result, i, j, call >>

\* modbignum has been called.
LEMMA BeginInv ==
    ASSUME IInv, ~ Reducing, NEW for \in {"data", "result", "mod_data"}, NEW m \in Nat,
           m = (IF for = "data" THEN N ELSE Length),
           NEW x \in Arrays(m), NEW y \in Arrays(m), Value(y, m) = call.key,
           modbignum(for, x, y, m), UNCHANGED Started,
           Value(x, m) % call.key =
              CASE for = "data" -> call.data % call.key
                [] for = "result" -> (Value(result, N) * Value(mod_data, N)) % call.key
                [] for = "mod_data" -> (Value(mod_data, N) * Value(mod_data, N)) % call.key
    PROVE  /\ TypeOK' /\ Arguments' /\ Reduction' /\ Reducing' /\ target' = for
           /\ pc' \in {"shift", "subtract", "return"}
  <1>1. call \in Instance /\ m > 0
    BY Lengths DEF IInv, Arguments
  <1>2. /\ target' = for /\ n' = m /\ res' = x /\ turns' = 0
        /\ pc' \in {"shift", "subtract", "return"}
        /\ op2' \in Arrays(m) /\ left' \in 0 .. Bits * m
        /\ Value(op2', m) = call.key * TwoTo[left']
        /\ pc' = "shift" => left' > 0 /\ Value(x, m) < 2 * Value(op2', m)
        /\ pc' = "subtract" => Value(x, m) + 0 * Value(op2', m) < 4 * Value(op2', m)
        /\ pc' = "return" => left' = 0 /\ Value(x, m) < call.key
    BY <1>1, ReductionBegins
  <1>3. Reducing'
    BY <1>2 DEF Reducing
  <1>4. UNCHANGED data /\ UNCHANGED expo /\ UNCHANGED key /\ UNCHANGED mod_data
        /\ UNCHANGED result /\ UNCHANGED i /\ UNCHANGED j /\ UNCHANGED call
    BY DEF Started
  <1>5. TypeOK'
    BY <1>2, <1>4 DEF IInv, TypeOK
  <1>6. Arguments'
    BY <1>2, <1>4 DEF IInv, Arguments, ReducingFor
  <1>7. Value(res, n)' = Value(x, m) /\ Value(op2, n)' = Value(op2', m)
    BY <1>2
  <1>8. ReductionIsCongruent'
    BY <1>2, <1>4, <1>7 DEF ReductionIsCongruent
  <1>9. Reduction'
    <2>1. turns' \in 0 .. 3
      BY <1>2, SMT
    <2>2. n' = (IF target' = "data" THEN N ELSE 2 * N + 1)
      BY <1>2 DEF Length
    <2>3. (Value(res, n) + turns * Value(op2, n) < 4 * Value(op2, n))'
          <=> Value(x, m) + 0 * Value(op2', m) < 4 * Value(op2', m)
      BY <1>2, <1>7
    <2>4. pc' = "shift" => left' > 0 /\ Value(res, n)' < 2 * Value(op2, n)'
      BY <1>2, <1>7
    <2>5. pc' = "subtract" => (Value(res, n) + turns * Value(op2, n) < 4 * Value(op2, n))'
      BY <1>2, <2>3
    <2>6. pc' = "return" => left' = 0
      BY <1>2
    <2> QED  BY <1>2, <1>8, <2>1, <2>2, <2>4, <2>5, <2>6 DEF Reduction
  <1> QED  BY <1>2, <1>3, <1>5, <1>6, <1>9

\* The data is reduced (rsa.c:14).
LEMMA StartInv ==
    ASSUME IInv, Start
    PROVE  IInv'
  <1>1. pc = "start" /\ modbignum("data", data, key, N) /\ UNCHANGED Started
    BY DEF Start, Started
  <1>2. ~ Reducing
    BY <1>1 DEF Reducing
  <1>3. Value(key, N) = call.key /\ key \in Arrays(N) /\ data \in Arrays(N) /\ Value(data, N) = call.data
    BY <1>2, ArgumentsAre DEF IInv, Arguments, TypeOK, ReducingFor
  <1>4. TypeOK' /\ Arguments' /\ Reduction' /\ Reducing' /\ target' = "data"
        /\ pc' \in {"shift", "subtract", "return"}
    BY <1>1, <1>2, <1>3, Lengths, BeginInv
  <1>5. i = 0 /\ j = 0 /\ i' = i /\ j' = j
    BY <1>1 DEF IInv, Powers, Started
  <1>6. Powers'
    BY <1>4, <1>5 DEF Powers, ReducingFor, ReturnsPower
  <1> QED  BY <1>4, <1>6 DEF IInv

\* The modulus of a product: the key, and zeros.
LEMMA ModulusIs ==
    ASSUME IInv, ~ Reducing
    PROVE  /\ Extended(key, Length) \in Arrays(Length)
           /\ Value(Extended(key, Length), Length) = call.key
           /\ call \in Instance /\ mod_data \in Arrays(N) /\ result \in Arrays(N)
           /\ i \in 0 .. N + 1 /\ i \in Nat /\ j \in 0 .. Bits - 1 /\ Arguments
  <1>1. /\ key \in Arrays(N) /\ Value(key, N) = call.key /\ call \in Instance
        /\ mod_data \in Arrays(N) /\ result \in Arrays(N)
        /\ i \in 0 .. N + 1 /\ j \in 0 .. Bits - 1 /\ Arguments
    BY DEF IInv, Arguments, TypeOK, ReducingFor
  <1>2. i \in Nat
    BY <1>1, Lengths, SMT
  <1> QED  BY <1>1, <1>2, Lengths, ExtendedIs

\* The bit is set: the result is multiplied (rsa.c:22-23).
LEMMA MultiplyInv ==
    ASSUME IInv, Multiply
    PROVE  IInv'
  <1>1. /\ pc = "bit" /\ BitSet(expo[i + 1], j) /\ UNCHANGED Started
        /\ modbignum("result", Product(result, mod_data), Extended(key, Length), Length)
    BY DEF Multiply, Started, modmult1024, Length
  <1>2. ~ Reducing
    BY <1>1 DEF Reducing
  <1>3. /\ Product(result, mod_data) \in Arrays(Length)
        /\ Value(Product(result, mod_data), Length) = Value(result, N) * Value(mod_data, N)
    BY <1>2, ModulusIs, ProductIs
  <1>4. TypeOK' /\ Arguments' /\ Reduction' /\ Reducing' /\ target' = "result"
        /\ pc' \in {"shift", "subtract", "return"}
    BY <1>1, <1>2, <1>3, ModulusIs, Lengths, BeginInv
  <1>5. /\ i <= expo_len
        /\ Value(mod_data, N) = Power(call.data, TwoTo[Place], call.key)
        /\ Value(result, N) = Power(call.data, call.expo % TwoTo[Place], call.key)
    <2>1. BitsDone = Place
      BY <1>1, <1>2 DEF BitsDone, ReducingFor
    <2> QED  BY <1>1, <2>1 DEF IInv, Powers
  <1>6. (call.expo \div TwoTo[Place]) % 2 = 1
    <2>1. i \in 0 .. N
      BY <1>2, <1>5, ModulusIs, LengthOfExponent, Lengths, SMT
    <2> QED  BY <1>1, <1>2, <2>1, ModulusIs, BitLookedAt
  <1>7. Powers'
    <2>1. UNCHANGED mod_data /\ UNCHANGED result /\ UNCHANGED i /\ UNCHANGED j /\ UNCHANGED call
          /\ UNCHANGED expo
      BY <1>1 DEF Started
    <2>2. Place' = Place /\ expo_len' = expo_len
      BY <2>1 DEF Place, expo_len
    <2>3. BitsDone' = Place
      BY <1>4, <2>2 DEF BitsDone, ReducingFor
    <2>4. ~ ReducingFor("data")' /\ ~ ReducingFor("mod_data")' /\ pc' # "start" /\ pc' # "done"
      BY <1>4 DEF ReducingFor
    <2> QED  BY <1>4, <1>5, <1>6, <2>1, <2>2, <2>3, <2>4 DEF Powers, ReturnsPower
  <1> QED  BY <1>4, <1>7 DEF IInv

\* The square is computed whatever the bit (rsa.c:25).
LEMMA SquareInv ==
    ASSUME IInv, Square
    PROVE  IInv'
  <1>1. /\ pc = "square" \/ (pc = "bit" /\ ~ BitSet(expo[i + 1], j))
        /\ UNCHANGED Started
        /\ modbignum("mod_data", Product(mod_data, mod_data), Extended(key, Length), Length)
    BY DEF Square, Started, modmult1024, Length
  <1>2. ~ Reducing
    BY <1>1 DEF Reducing
  <1>3. /\ Product(mod_data, mod_data) \in Arrays(Length)
        /\ Value(Product(mod_data, mod_data), Length) = Value(mod_data, N) * Value(mod_data, N)
    BY <1>2, ModulusIs, ProductIs
  <1>4. TypeOK' /\ Arguments' /\ Reduction' /\ Reducing' /\ target' = "mod_data"
        /\ pc' \in {"shift", "subtract", "return"}
    BY <1>1, <1>2, <1>3, ModulusIs, Lengths, BeginInv
  <1>5. /\ i <= expo_len
        /\ Value(mod_data, N) = Power(call.data, TwoTo[Place], call.key)
        /\ Value(result, N) = Power(call.data, call.expo % TwoTo[BitsDone], call.key)
    BY <1>1 DEF IInv, Powers
  <1>6. call.expo % TwoTo[BitsDone] = call.expo % TwoTo[Place + 1]
    <2>1. CASE pc = "square"
      BY <2>1 DEF BitsDone
    <2>2. CASE pc = "bit" /\ ~ BitSet(expo[i + 1], j)
      <3>1. BitsDone = Place
        BY <1>2, <2>2 DEF BitsDone, ReducingFor
      <3>2. i \in 0 .. N
        BY <1>2, <1>5, ModulusIs, LengthOfExponent, Lengths, SMT
      <3>3. (call.expo \div TwoTo[Place]) % 2 # 1
        BY <1>2, <2>2, <3>2, ModulusIs, BitLookedAt
      <3>4. call.expo \in Nat /\ TwoTo[Place] \in Nat /\ TwoTo[Place] > 0
            /\ TwoTo[Place + 1] = 2 * TwoTo[Place]
        BY <1>2, ModulusIs, Calls, PlaceIs
      <3>5. (call.expo \div TwoTo[Place]) % 2 \in 0 .. 1
        BY <3>4, NextBit
      <3>6. (call.expo \div TwoTo[Place]) % 2 = 0
        BY <3>3, <3>5, SMT
      <3>7. call.expo % (2 * TwoTo[Place]) = call.expo % TwoTo[Place]
        BY <3>4, <3>6, NextBit
      <3> QED  BY <3>1, <3>4, <3>7
    <2> QED  BY <1>1, <2>1, <2>2
  <1>7. Powers'
    <2>1. UNCHANGED mod_data /\ UNCHANGED result /\ UNCHANGED i /\ UNCHANGED j /\ UNCHANGED call
          /\ UNCHANGED expo
      BY <1>1 DEF Started
    <2>2. Place' = Place /\ expo_len' = expo_len
      BY <2>1 DEF Place, expo_len
    <2>3. BitsDone' = Place + 1
      BY <1>4, <2>2 DEF BitsDone, ReducingFor
    <2>4. ~ ReducingFor("data")' /\ ~ ReducingFor("result")' /\ pc' # "start" /\ pc' # "done"
      BY <1>4 DEF ReducingFor
    <2> QED  BY <1>5, <1>6, <2>1, <2>2, <2>3, <2>4 DEF Powers, ReturnsPower
  <1> QED  BY <1>4, <1>7 DEF IInv

\* What modbignum returns.
LEMMA Returned ==
    ASSUME IInv, pc = "return"
    PROVE  /\ Reducing /\ left = 0 /\ Value(op2, n) = call.key
           /\ Value(res, n) \in Nat /\ Value(res, n) < call.key
           /\ target = "data" => Value(res, n) = call.data % call.key
           /\ target = "result" => Value(res, n) = (Value(result, N) * Value(mod_data, N)) % call.key
           /\ target = "mod_data" =>
                 Value(res, n) = (Value(mod_data, N) * Value(mod_data, N)) % call.key
  <1>1. Reducing
    BY DEF Reducing
  <1>2. left = 0 /\ Value(res, n) < call.key
        /\ Value(op2, n) = call.key * TwoTo[left]
        /\ Value(res, n) % call.key =
             CASE target = "data" -> call.data % call.key
               [] target = "result" -> (Value(result, N) * Value(mod_data, N)) % call.key
               [] target = "mod_data" -> (Value(mod_data, N) * Value(mod_data, N)) % call.key
    BY <1>1 DEF IInv, Reduction, ReductionIsCongruent
  <1>3. PICK r \in Nat, k \in Nat : r = Value(res, n) /\ k = call.key /\ k > 0 /\ r < k
    BY <1>1, <1>2, WhileReducing
  <1>4. k * 1 = k /\ r % k = r
    BY <1>3, Remainder, SMT
  <1>5. Value(op2, n) = k
    BY <1>2, <1>3, <1>4, TwoToIs
  <1>6. target = "data" => Value(res, n) % call.key = call.data % call.key
    BY <1>2
  <1>7. target = "result" =>
          Value(res, n) % call.key = (Value(result, N) * Value(mod_data, N)) % call.key
    BY <1>2
  <1>8. target = "mod_data" =>
          Value(res, n) % call.key = (Value(mod_data, N) * Value(mod_data, N)) % call.key
    BY <1>2
  <1>9. Value(res, n) % call.key = Value(res, n)
    BY <1>3, <1>4
  <1> QED  BY <1>1, <1>2, <1>3, <1>5, <1>6, <1>7, <1>8, <1>9

\* mod_data is the first power, result the power of no bits (rsa.c:14-15).
LEMMA ReturnDataInv ==
    ASSUME IInv, ReturnData
    PROVE  IInv'
  <1>1. /\ pc = "return" /\ target = "data" /\ mod_data' = res /\ key' = op2
        /\ result' = Number(1, N) /\ pc' = "bit"
        /\ data' = data /\ expo' = expo /\ i' = i /\ j' = j /\ target' = target /\ n' = n
        /\ left' = left /\ turns' = turns /\ call' = call
    BY DEF ReturnData, reduction
  <1>2. Reducing /\ left = 0 /\ Value(op2, n) = call.key /\ Value(res, n) = call.data % call.key
    BY <1>1, Returned
  <1>3. n = N /\ res \in Arrays(N) /\ op2 \in Arrays(N) /\ left \in 0 .. Bits * n
        /\ call \in Instance /\ turns \in 0 .. 3
    <2>1. n = N
      BY <1>1, <1>2 DEF IInv, Reduction
    <2> QED  BY <1>2, <2>1, WhileReducing
  <1>4. call.key \in Nat /\ call.key > 1 /\ call.data \in Nat /\ call.expo \in Nat
    BY <1>3, Calls
  <1>5. Number(1, N) \in Arrays(N) /\ Value(Number(1, N), N) = 1
    <2>1. 1 < Weight(N)
      BY <1>3, Calls, Lengths, WeightIs, SMT
    <2> QED  BY <2>1, Lengths, NumberIs
  <1>6. i = 0 /\ j = 0
    BY <1>1, <1>2 DEF IInv, Powers, ReducingFor
  <1>7. Place = 0 /\ Place' = 0
    <2>1. Bits * 0 + 0 = 0
      BY Sizes, SMT
    <2> QED  BY <1>1, <1>6, <2>1 DEF Place
  <1>8. ~ Reducing' /\ pc' = "bit"
    BY <1>1 DEF Reducing
  <1>9. TypeOK'
    <2>1. /\ data \in Arrays(N) /\ expo \in Arrays(N + 1) /\ i \in 0 .. (N + 1)
          /\ j \in 0 .. (Bits - 1)
      BY DEF IInv, TypeOK
    <2> QED  BY <1>1, <1>3, <1>5, <1>8, <2>1 DEF TypeOK
  <1>10. Arguments'
    BY <1>1, <1>2, <1>3 DEF IInv, Arguments
  <1>11. Reduction'
    BY <1>1, <1>3, <1>8 DEF Reduction, ReductionIsCongruent
  <1>12. Powers'
    <2>1. 0 <= expo_len /\ expo_len' = expo_len
      <3>1. expo_len \in 0 .. N
        BY LengthOfExponent DEF IInv
      <3> QED  BY <1>1, <3>1, Lengths, SMT DEF expo_len
    <2>2. Value(mod_data, N)' = Power(call.data, TwoTo[Place], call.key)'
      <3>1. Value(res, N) = Power(call.data, 1, call.key)
        BY <1>2, <1>3, <1>4, PowerFacts
      <3> QED  BY <1>1, <1>7, <3>1, TwoToIs
    <2>3. BitsDone' = 0
      BY <1>7, <1>8 DEF BitsDone, ReducingFor
    <2>4. Value(result, N)' = Power(call.data, call.expo % TwoTo[BitsDone], call.key)'
      <3>1. call.expo % TwoTo[0] = 0
        <4>1. call.expo % 1 = 0
          BY <1>4, SMT
        <4> QED  BY <4>1, TwoToIs
      <3>2. Power(call.data, 0, call.key) = 1
        BY <1>4, PowerFacts
      <3>3. Power(call.data, call.expo % TwoTo[0], call.key) = 1
        BY <3>1, <3>2
      <3> QED  BY <1>1, <1>5, <2>3, <3>3
    <2>5. i' <= expo_len'
      BY <1>1, <1>6, <2>1
    <2> QED  BY <1>8, <2>2, <2>4, <2>5 DEF Powers, ReturnsPower, ReducingFor
  <1> QED  BY <1>9, <1>10, <1>11, <1>12 DEF IInv

\* The words that modmult1024 hands over: the N low words of what is below the key.
LEMMA Handed ==
    ASSUME IInv, pc = "return", target \in {"result", "mod_data"}
    PROVE  /\ SubSeq(res, 1, N) \in Arrays(N) /\ Value(SubSeq(res, 1, N), N) = Value(res, n)
           /\ data \in Arrays(N) /\ expo \in Arrays(N + 1) /\ key \in Arrays(N)
           /\ mod_data \in Arrays(N) /\ result \in Arrays(N)
           /\ i \in 0 .. N + 1 /\ i \in Nat /\ j \in 0 .. Bits - 1 /\ left \in 0 .. Bits * n
           /\ turns \in 0 .. 3 /\ Value(key, N) = call.key
           /\ call \in Instance /\ call.key \in Nat /\ call.key > 1 /\ call.key > 0
           /\ call.data \in Nat /\ call.expo \in Nat /\ Arguments /\ Reducing
           /\ target # "data" /\ i <= expo_len
  <1>1. Reducing /\ Value(res, n) \in Nat /\ Value(res, n) < call.key
    BY Returned
  <1>2. target # "data"
    OBVIOUS
  <1>3. n = Length /\ res \in Arrays(n) /\ turns \in 0 .. 3 /\ call \in Instance
    BY <1>1, <1>2, WhileReducing
  <1>4. call.key < Weight(N) /\ call.key \in Nat /\ call.key > 1 /\ call.key > 0
        /\ call.data \in Nat /\ call.expo \in Nat
    BY <1>3, Calls
  <1>5. Words(res, n) /\ n \in Nat /\ N \in 0 .. n
    BY <1>3, Lengths, ArrayIs
  <1>6. Value(res, n) < Weight(N)
    BY <1>1, <1>4, Lengths, WeightIs, SMT
  <1>7. Value(res, N) = Value(res, n)
    BY <1>5, <1>6, ValueLow
  <1>8. SubSeq(res, 1, N) \in Arrays(N) /\ Value(SubSeq(res, 1, N), N) = Value(res, N)
    BY <1>3, <1>5, FirstWords
  <1>9. /\ data \in Arrays(N) /\ expo \in Arrays(N + 1) /\ key \in Arrays(N)
        /\ mod_data \in Arrays(N) /\ result \in Arrays(N)
        /\ i \in 0 .. N + 1 /\ j \in 0 .. Bits - 1 /\ left \in 0 .. Bits * n /\ Arguments
    BY DEF IInv, TypeOK
  <1>10. i \in Nat
    BY <1>9, Lengths, SMT
  <1>11. Value(key, N) = call.key
    BY <1>2, <1>9 DEF Arguments, ReducingFor
  <1>12. i <= expo_len
    BY <1>1 DEF IInv, Powers, ReducingFor
  <1> QED  BY <1>1, <1>2, <1>3, <1>4, <1>7, <1>8, <1>9, <1>10, <1>11, <1>12

\* result is the power of one bit more (rsa.c:102-106).
LEMMA ReturnResultInv ==
    ASSUME IInv, ReturnResult
    PROVE  IInv'
  <1>1. /\ pc = "return" /\ target = "result" /\ result' = SubSeq(res, 1, N) /\ pc' = "square"
        /\ data' = data /\ expo' = expo /\ key' = key /\ mod_data' = mod_data /\ i' = i /\ j' = j
        /\ target' = target /\ n' = n /\ left' = left /\ turns' = turns /\ call' = call
    BY DEF ReturnResult, reduction
  <1>2. target \in {"result", "mod_data"}
    BY <1>1
  <1>3. ~ Reducing' /\ pc' = "square"
    BY <1>1 DEF Reducing
  <1>4. TypeOK'
    BY <1>1, <1>2, <1>3, Handed DEF TypeOK
  <1>5. Arguments'
    BY <1>1, <1>2, Handed DEF Arguments
  <1>6. Reduction'
    BY <1>1, <1>2, <1>3, Handed DEF Reduction, ReductionIsCongruent
  <1>7. PICK e \in Nat, t \in Nat, k \in Nat, d \in Nat :
           e = call.expo /\ t = TwoTo[Place] /\ t > 0 /\ k = call.key /\ k > 1 /\ d = call.data
           /\ TwoTo[Place + 1] = 2 * t
    BY <1>1, <1>2, Handed, PlaceIs
  <1>8. /\ Value(mod_data, N) = Power(d, t, k) /\ Value(result, N) = Power(d, e % t, k)
        /\ (e \div t) % 2 = 1
    <2>1. ReducingFor("result") /\ ~ ReducingFor("mod_data") /\ pc # "square"
      BY <1>1, <1>2, Handed DEF ReducingFor
    <2>2. BitsDone = Place
      BY <2>1 DEF BitsDone
    <2> QED  BY <1>7, <2>1, <2>2 DEF IInv, Powers
  <1>9. Value(result, N)' = Power(d, e % (2 * t), k)
    <2>1. e % (2 * t) = (e % t) + t /\ e % t \in Nat
      BY <1>7, <1>8, NextBit
    <2>2. Power(d, (e % t) + t, k) = (Power(d, e % t, k) * Power(d, t, k)) % k
      <3>1. \A p \in Nat, q \in Nat : Power(d, p + q, k) = (Power(d, p, k) * Power(d, q, k)) % k
        BY <1>7, PowerFacts
      <3>2. PICK f \in Nat : f = e % t
        BY <2>1
      <3>3. Power(d, f + t, k) = (Power(d, f, k) * Power(d, t, k)) % k
        BY <3>1, Zenon
      <3> QED  BY <3>2, <3>3
    <2>3. Value(res, n) = (Value(result, N) * Value(mod_data, N)) % k
      BY <1>1, <1>7, Returned
    <2>4. Value(SubSeq(res, 1, N), N) = Value(res, n)
      BY <1>1, <1>2, Handed
    <2> QED  BY <1>1, <1>8, <2>1, <2>2, <2>3, <2>4
  <1>10. Powers'
    <2>1. Place' = Place /\ expo_len' = expo_len
      BY <1>1 DEF Place, expo_len
    <2>2. BitsDone' = Place + 1
      BY <1>1, <2>1 DEF BitsDone
    <2>3. i <= expo_len
      BY <1>1, <1>2, Handed
    <2>4. Value(mod_data, N)' = Power(call.data, TwoTo[Place], call.key)'
      BY <1>1, <1>7, <1>8, <2>1
    <2>5. Value(result, N)' = Power(call.data, call.expo % TwoTo[BitsDone], call.key)'
      BY <1>1, <1>7, <1>9, <2>2
    <2> QED  BY <1>1, <1>3, <2>1, <2>3, <2>4, <2>5 DEF Powers, ReturnsPower, ReducingFor
  <1> QED  BY <1>4, <1>5, <1>6, <1>10 DEF IInv

\* mod_data is the power of the next place (rsa.c:17-34).
LEMMA ReturnSquareInv ==
    ASSUME IInv, ReturnSquare
    PROVE  IInv'
  <1>1. /\ pc = "return" /\ target = "mod_data" /\ mod_data' = SubSeq(res, 1, N)
        /\ IF j < Bits - 1
             THEN j' = j + 1 /\ i' = i /\ pc' = "bit"
             ELSE j' = 0 /\ i' = i + 1 /\ pc' = (IF i = expo_len THEN "done" ELSE "bit")
        /\ data' = data /\ expo' = expo /\ key' = key /\ result' = result
        /\ target' = target /\ n' = n /\ left' = left /\ turns' = turns /\ call' = call
    BY DEF ReturnSquare, reduction, LastWord
  <1>2. target \in {"result", "mod_data"}
    BY <1>1
  <1>3. ~ Reducing' /\ pc' \in {"bit", "done"}
    BY <1>1 DEF Reducing
  <1>4. PICK a \in Nat, b \in Nat, l \in Nat, B \in Nat :
           a = i /\ b = j /\ l = expo_len /\ B = Bits /\ a <= l /\ l <= N /\ b <= B - 1 /\ B >= 2
    <2>1. i \in Nat /\ j \in 0 .. Bits - 1 /\ i <= expo_len
      BY <1>1, <1>2, Handed
    <2>2. expo_len \in 0 .. N
      BY LengthOfExponent DEF IInv
    <2>3. Bits \in Nat /\ Bits >= 2
      BY Sizes
    <2>4. j \in Nat /\ j <= Bits - 1
      BY <2>1, <2>3, SMT
    <2>5. expo_len \in Nat /\ expo_len <= N
      BY <2>2, Lengths, SMT
    <2> QED  BY <2>1, <2>3, <2>4, <2>5
  <1>5. i' \in 0 .. N + 1 /\ j' \in 0 .. Bits - 1
    <2>1. /\ b < B - 1 => b + 1 \in 0 .. B - 1 /\ a \in 0 .. N + 1
          /\ 0 \in 0 .. B - 1 /\ a + 1 \in 0 .. N + 1
      <3>1. a <= l /\ l <= N /\ b <= B - 1 /\ B >= 2 /\ N \in Nat
        BY <1>4, Lengths
      <3> QED  BY <3>1, SMT
    <2> QED  BY <1>1, <1>4, <2>1
  <1>6. TypeOK'
    BY <1>1, <1>2, <1>3, <1>5, Handed DEF TypeOK
  <1>7. Arguments'
    BY <1>1, <1>2, Handed DEF Arguments
  <1>8. Reduction'
    BY <1>1, <1>2, <1>3, Handed DEF Reduction, ReductionIsCongruent
  <1>9. Place' = Place + 1 /\ expo_len' = expo_len
    <2>1. PICK p \in Int : p = B * a /\ B * (a + 1) + 0 = p + B
      BY SMT
    <2>2. CASE b < B - 1
      <3>1. B * a + (b + 1) = (B * a + b) + 1
        BY <2>1, SMT
      <3> QED  BY <1>1, <1>4, <2>2, <3>1 DEF Place, expo_len
    <2>3. CASE ~ (b < B - 1)
      <3>1. b + 1 = B
        <4>1. b <= B - 1
          BY <1>4
        <4> QED  BY <2>3, <4>1, SMT
      <3>2. p + B = (p + b) + 1
        BY <3>1, SMT
      <3>3. B * (a + 1) + 0 = (B * a + b) + 1
        BY <2>1, <3>2
      <3> QED  BY <1>1, <1>4, <2>3, <3>3 DEF Place, expo_len
    <2> QED  BY <2>2, <2>3
  <1>10. PICK e \in Nat, t \in Nat, k \in Nat, d \in Nat :
           e = call.expo /\ t = TwoTo[Place] /\ t > 0 /\ k = call.key /\ k > 1 /\ d = call.data
           /\ TwoTo[Place + 1] = 2 * t
    BY <1>1, <1>2, Handed, PlaceIs
  <1>11. Value(mod_data, N) = Power(d, t, k) /\ Value(result, N) = Power(d, e % (2 * t), k)
    <2>1. ReducingFor("mod_data")
      BY <1>1, <1>2, Handed DEF ReducingFor
    <2>2. BitsDone = Place + 1
      BY <2>1 DEF BitsDone
    <2> QED  BY <1>10, <2>1, <2>2 DEF IInv, Powers
  <1>12. Value(mod_data, N)' = Power(d, 2 * t, k)
    <2>1. t + t = 2 * t
      BY SMT
    <2>2. Power(d, t + t, k) = (Power(d, t, k) * Power(d, t, k)) % k
      <3>1. \A p \in Nat, q \in Nat : Power(d, p + q, k) = (Power(d, p, k) * Power(d, q, k)) % k
        BY <1>10, PowerFacts
      <3> QED  BY <3>1, Zenon
    <2>3. Value(res, n) = (Value(mod_data, N) * Value(mod_data, N)) % k
      BY <1>1, <1>10, Returned
    <2>4. Value(SubSeq(res, 1, N), N) = Value(res, n)
      BY <1>1, <1>2, Handed
    <2> QED  BY <1>1, <1>11, <2>1, <2>2, <2>3, <2>4
  <1>13. TwoTo[Place]' = 2 * t /\ Value(result, N)' = Power(d, e % (2 * t), k)
    BY <1>1, <1>9, <1>10, <1>11
  <1>14. ASSUME pc' = "bit" PROVE i' <= expo_len'
    <2>1. CASE b < B - 1
      BY <1>1, <1>4, <1>9, <2>1
    <2>2. CASE ~ (b < B - 1)
      <3>1. a # l
        BY <1>1, <1>4, <1>14, <2>2
      <3>2. a + 1 <= l
        <4>1. a <= l
          BY <1>4
        <4> QED  BY <3>1, <4>1, SMT
      <3> QED  BY <1>1, <1>4, <1>9, <2>2, <3>2
    <2> QED  BY <2>1, <2>2
  <1>15. ASSUME pc' = "done" PROVE Value(result, N)' = Power(d, e, k)
    <2>1. ~ (b < B - 1) /\ a = l
      BY <1>1, <1>4, <1>15
    <2>2. Place' = Bits * (expo_len + 1)
      <3>1. B * (a + 1) + 0 = B * (a + 1)
        BY SMT
      <3> QED  BY <1>1, <1>4, <2>1, <3>1 DEF Place
    <2>3. e < 2 * t
      BY <1>10, <1>13, <2>2, LengthOfExponent DEF IInv
    <2>4. e % (2 * t) = e
      <3>1. 2 * t \in Nat /\ 2 * t > 0
        BY <1>10, SMT
      <3> QED  BY <2>3, <3>1, NextBit
    <2> QED  BY <1>13, <2>4
  <1>16. Powers'
    <2>1. BitsDone' = Place' \/ pc' = "done"
      BY <1>3 DEF BitsDone, ReducingFor
    <2>2. pc' = "bit" => Value(result, N)' = Power(call.data, call.expo % TwoTo[BitsDone], call.key)'
      <3>1. ASSUME pc' = "bit" PROVE Value(result, N)' = Power(call.data, call.expo % TwoTo[BitsDone], call.key)'
        <4>1. BitsDone' = Place'
          BY <2>1, <3>1
        <4>2. TwoTo[BitsDone'] = 2 * t
          BY <1>13, <4>1
        <4> QED  BY <1>1, <1>10, <1>13, <4>2
      <3> QED  BY <3>1
    <2>3. Value(mod_data, N)' = Power(call.data, TwoTo[Place], call.key)'
      BY <1>1, <1>10, <1>12, <1>13
    <2>4. ReturnsPower'
      BY <1>1, <1>10, <1>15 DEF ReturnsPower
    <2>5. pc' = "bit" => i' <= expo_len'
      BY <1>14
    <2>6. ~ ReducingFor("data")' /\ ~ ReducingFor("result")' /\ ~ ReducingFor("mod_data")'
      BY <1>3 DEF ReducingFor
    <2> QED  BY <1>3, <2>2, <2>3, <2>4, <2>5, <2>6 DEF Powers
  <1> QED  BY <1>6, <1>7, <1>8, <1>16 DEF IInv

-----------------------------------------------------------------------------

\* Every step keeps the invariant.
LEMMA IInvStep ==
    ASSUME IInv, [Next]_vars
    PROVE  IInv'
  <1>1. CASE Start
    BY <1>1, StartInv
  <1>2. CASE ReturnData
    BY <1>2, ReturnDataInv
  <1>3. CASE Multiply
    BY <1>3, MultiplyInv
  <1>4. CASE ReturnResult
    BY <1>4, ReturnResultInv
  <1>5. CASE Square
    BY <1>5, SquareInv
  <1>6. CASE ReturnSquare
    BY <1>6, ReturnSquareInv
  <1>7. CASE Shift
    BY <1>7, ShiftInv
  <1>8. CASE Subtract
    BY <1>8, SubtractInv
  <1>9. CASE SubtractDone
    BY <1>9, SubtractDoneInv
  <1>10. CASE UNCHANGED vars
    <2>1. /\ data' = data /\ expo' = expo /\ key' = key /\ mod_data' = mod_data
          /\ result' = result /\ i' = i /\ j' = j /\ pc' = pc /\ target' = target /\ n' = n
          /\ res' = res /\ op2' = op2 /\ left' = left /\ turns' = turns /\ call' = call
      BY <1>10 DEF vars, reduction
    <2>2. Place' = Place /\ expo_len' = expo_len /\ Reducing' = Reducing
      BY <2>1 DEF Place, expo_len, Reducing
    <2>3. TypeOK'
      BY <2>1, <2>2 DEF IInv, TypeOK
    <2>4. Arguments'
      BY <2>1, <2>2 DEF IInv, Arguments, ReducingFor
    <2>5. ReductionIsCongruent'
      BY <2>1, <2>2 DEF IInv, Reduction, ReductionIsCongruent
    <2>6. Reduction'
      BY <2>1, <2>2, <2>5 DEF IInv, Reduction
    <2>7. /\ ReducingFor("data")' = ReducingFor("data") /\ ReducingFor("result")' = ReducingFor("result")
          /\ ReducingFor("mod_data")' = ReducingFor("mod_data") /\ BitsDone' = BitsDone
      BY <2>1, <2>2 DEF ReducingFor, BitsDone
    <2>8. Powers'
      BY <2>1, <2>2, <2>7 DEF IInv, Powers, ReturnsPower
    <2> QED  BY <2>3, <2>4, <2>6, <2>8 DEF IInv
  <1>11. CASE Finished
    BY <1>10, <1>11 DEF Finished
  <1> QED  BY <1>1, <1>2, <1>3, <1>4, <1>5, <1>6, <1>7, <1>8, <1>9, <1>10, <1>11 DEF Next

\* The inductive invariant holds in every behaviour: rsa1024 and the modbignum it
\* calls keep what they reduce, and after every bit of the exponent mod_data and
\* result are the powers of the bits that are done (rsa.c:9-36, 153-182).
THEOREM RsaInvariant == Spec => []IInv
  <1>1. Init => IInv
    BY InitInv
  <1>2. IInv /\ [Next]_vars => IInv'
    BY IInvStep
  <1> QED  BY <1>1, <1>2, PTL DEF Spec

\* rsa1024 returns the power of its data modulo the key, for every width of a word,
\* every length of a number, and every call whose key is above 1 (rsa.c:9-36).
THEOREM RsaReturnsPower == Spec => []ReturnsPower
  <1>1. IInv => ReturnsPower
    BY DEF IInv, Powers
  <1> QED  BY <1>1, RsaInvariant, PTL

\* The modulus, which the first reduction shifts left in the caller's array and right
\* again, is the key whenever it is used again and when the call has returned
\* (rsa.c:14, 167-175).
THEOREM RsaKeyIsRestored == Spec => []KeyIsRestored
  <1>1. IInv => KeyIsRestored
    BY DEF IInv, Arguments, ReducingFor, KeyIsRestored
  <1> QED  BY <1>1, RsaInvariant, PTL

\* The reduction keeps its congruence and every word and bit of the shifted modulus,
\* subtracts at most three times between shifts, and the loop over the exponent reads no
\* word beyond the one after it (rsa.c:16-19, 160-175).
THEOREM RsaReduction == Spec => []ReductionInv
  <1>1. ASSUME IInv PROVE ReductionInv
    <2>1. TypeOK /\ ReductionIsCongruent /\ turns \in 0 .. 3
      BY <1>1 DEF IInv, Reduction
    <2>2. turns <= 3
      BY <2>1, SMT
    <2>3. ASSUME pc = "bit" PROVE i + 1 \in DOMAIN expo
      <3>1. i <= expo_len /\ i \in 0 .. N + 1 /\ expo \in Arrays(N + 1)
        BY <1>1, <2>1, <2>3 DEF IInv, Powers, TypeOK
      <3>2. expo_len \in 0 .. N
        BY <1>1, LengthOfExponent DEF IInv
      <3>3. i + 1 \in 1 .. N + 1
        BY <3>1, <3>2, Lengths, SMT
      <3> QED  BY <3>1, <3>3 DEF Arrays
    <2> QED  BY <2>1, <2>2, <2>3 DEF ReductionInv, ReadsWithinExponent, SubtractionsAreFew
  <1> QED  BY <1>1, RsaInvariant, PTL

=============================================================================
