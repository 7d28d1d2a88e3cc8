-------------------------- MODULE ArithmeticProofs --------------------------
(***************************************************************************)
(* Proofs about Arithmetic, for operators of every size that compute digit *)
(* by digit: the division by a constant, in its three architectures, the   *)
(* square root, by its two recurrences, and the division, by three radices *)
(* and sets of digits.  They rest on the quotients and remainders of       *)
(* integers, on slices of bit vectors, and on the number of bits of a      *)
(* natural number; the floating-point operators on what becomes of a       *)
(* rounded significand and its exponent.                                   *)
(***************************************************************************)
EXTENDS Arithmetic, SumProofs, TLAPS

-----------------------------------------------------------------------------
(***************************************************************************)
(* Quotients and remainders.                                               *)
(***************************************************************************)
\* A quotient of a quotient is the quotient by the product.
LEMMA QuotientOfQuotient ==
  ASSUME NEW v \in Int, NEW p \in Nat \ {0}, NEW q \in Nat \ {0}
  PROVE  /\ (v \div p) \div q = v \div (p * q)
         /\ v % (p * q) = ((v \div p) % q) * p + (v % p)
<1>1. PICK a \in Int, r \in 0..(p - 1) : v = p * a + r /\ a = v \div p /\ r = v % p
  BY ZenonT(40), Division
<1>2. PICK b \in Int, t \in 0..(q - 1) : a = q * b + t /\ b = a \div q /\ t = a % q
  BY ZenonT(40), Division
<1>3. p * q \in Nat \ {0} /\ t * p + r \in 0..(p * q - 1)
  <2>1. p * q \in Nat \ {0}
    OBVIOUS
  <2>2. t * p <= (q - 1) * p /\ (q - 1) * p = p * q - p /\ t * p \in Nat
    OBVIOUS
  <2> QED BY <2>1, <2>2
<1>4. v = (p * q) * b + (t * p + r)
  <2>1. p * a = p * (q * b) + p * t
    BY <1>2
  <2>2. p * (q * b) = (p * q) * b /\ p * t = t * p
    OBVIOUS
  <2> QED BY <1>1, <2>1, <2>2
<1>5. v \div (p * q) = b /\ v % (p * q) = t * p + r
  BY <1>3, <1>4, DivisionUnique
<1> QED BY <1>1, <1>2, <1>5

\* The quotient grows with the dividend.
LEMMA QuotientMonotone ==
  ASSUME NEW u \in Int, NEW v \in Int, NEW p \in Nat \ {0}
  PROVE  /\ u <= v => u \div p <= v \div p
         /\ \A a \in Int : (p * a <= v <=> a <= v \div p) /\ (v < p * a <=> v \div p < a)
<1>1. PICK b \in Int, r \in 0..(p - 1) : v = p * b + r /\ b = v \div p
  BY ZenonT(40), Division
<1>2. PICK c \in Int, t \in 0..(p - 1) : u = p * c + t /\ c = u \div p
  BY ZenonT(40), Division
<1>3. ASSUME NEW a \in Int PROVE (p * a <= v <=> a <= b) /\ (v < p * a <=> b < a)
  <2>1. CASE a <= b
    <3>1. p * a <= p * b
      BY <2>1
    <3> QED BY <1>1, <2>1, <3>1
  <2>2. CASE b < a
    <3>1. b + 1 <= a /\ p * (b + 1) = p * b + p
      BY <2>2
    <3>2. p * (b + 1) <= p * a
      BY <3>1
    <3> QED BY <1>1, <2>2, <3>1, <3>2
  <2> QED BY <2>1, <2>2
<1>4. ASSUME u <= v PROVE c <= b
  <2>1. p * c <= v /\ c \in Int
    BY <1>2, <1>4
  <2> QED BY <2>1, <1>3
<1> QED BY <1>1, <1>2, <1>3, <1>4

\* A natural number and its quotient and remainder.
LEMMA NaturalDivision ==
  ASSUME NEW v \in Nat, NEW p \in Nat \ {0}
  PROVE  \E q \in Nat, r \in 0..(p - 1) :
           v = p * q + r /\ q = v \div p /\ r = v % p /\ r <= v /\ p * q <= v
<1>0. v \in Int
  OBVIOUS
<1>1. PICK q \in Int, r \in 0..(p - 1) : v = p * q + r /\ q = v \div p /\ r = v % p
  BY ZenonT(40), <1>0, Division
<1>2. q >= 0
  <2>1. p * 0 <= v
    OBVIOUS
  <2>2. 0 <= v \div p
    BY <2>1, QuotientMonotone
  <2> QED BY <1>1, <2>2
<1>3. q \in Nat /\ r <= v /\ p * q <= v
  <2>1. p * q \in Nat
    BY <1>2
  <2> QED BY <1>1, <1>2, <2>1
<1> QED BY ZenonT(40), <1>1, <1>3

-----------------------------------------------------------------------------
(***************************************************************************)
(* Bit vectors.                                                            *)
(***************************************************************************)
\* A slice is the remainder of a quotient.
LEMMA BitsDef ==
  ASSUME NEW v \in Int, NEW lo \in Nat, NEW n \in Nat
  PROVE  /\ Bits(v, (lo + n) - 1, lo) = (v \div Pow2[lo]) % Pow2[n]
         /\ Bits(v, (lo + n) - 1, lo) \in 0..(Pow2[n] - 1)
<1>1. PICK P \in Nat \ {0}, N \in Nat \ {0} : P = Pow2[lo] /\ N = Pow2[n] /\ (n = 0 => N = 1)
  BY Pow2Def
<1>2. PICK q \in Int : q = v \div P
  BY Division
<1>3. q % N \in 0..(N - 1) /\ (n = 0 => q % N = 0)
  <2>1. q % N \in 0..(N - 1)
    BY ZenonT(40), Division
  <2> QED BY <1>1, <2>1
<1>4. CASE n = 0
  BY <1>1, <1>2, <1>3, <1>4 DEF Bits
<1>5. CASE n # 0
  <2>1. ~((lo + n) - 1 < lo) /\ ((lo + n) - 1) - lo + 1 = n
    BY <1>5
  <2> QED BY <1>1, <1>2, <1>3, <2>1 DEF Bits
<1> QED BY <1>4, <1>5

\* The number of bits of a natural number.
Log2Bits(n, k) == k \in Nat /\ (n = 0 => k = 0)
                    /\ (n # 0 => k # 0 /\ Pow2[k - 1] <= n /\ n < Pow2[k])

\* That number is unique.
LEMMA Log2Unique ==
  ASSUME NEW n \in Nat, NEW k, NEW m, Log2Bits(n, k), Log2Bits(n, m)
  PROVE  k = m
<1>1. k \in Nat /\ m \in Nat
  BY DEF Log2Bits
<1>2. CASE n = 0
  BY <1>2 DEF Log2Bits
<1>3. CASE n # 0
  <2>1. ASSUME k < m PROVE FALSE
    <3>1. k <= m - 1 /\ m - 1 \in Nat
      BY <1>1, <2>1
    <3>2. Pow2[k] <= Pow2[m - 1]
      BY <1>1, <3>1, Pow2Monotone
    <3>3. Pow2[m - 1] <= n /\ n < Pow2[k] /\ Pow2[k] \in Nat /\ Pow2[m - 1] \in Nat
      BY <1>1, <1>3, <3>1, Pow2Def DEF Log2Bits
    <3> QED BY <3>2, <3>3
  <2>2. ASSUME m < k PROVE FALSE
    <3>1. m <= k - 1 /\ k - 1 \in Nat
      BY <1>1, <2>2
    <3>2. Pow2[m] <= Pow2[k - 1]
      BY <1>1, <3>1, Pow2Monotone
    <3>3. Pow2[k - 1] <= n /\ n < Pow2[m] /\ Pow2[m] \in Nat /\ Pow2[k - 1] \in Nat
      BY <1>1, <1>3, <3>1, Pow2Def DEF Log2Bits
    <3> QED BY <3>2, <3>3
  <2> QED BY <1>1, <2>1, <2>2
<1> QED BY <1>2, <1>3

\* Twice the number, or one more, has one bit more.
LEMMA Log2Half ==
  ASSUME NEW n \in Nat \ {0}, NEW k, Log2Bits(n \div 2, k)
  PROVE  Log2Bits(n, 1 + k)
<1>1. PICK h \in Nat : h = n \div 2 /\ 2 * h <= n /\ n <= 2 * h + 1
  OBVIOUS
<1>2. k \in Nat /\ (1 + k) - 1 = k /\ Pow2[1 + k] = 2 * Pow2[k] /\ Pow2[k] \in Nat
  BY Pow2Def DEF Log2Bits
<1>3. CASE h = 0
  <2>1. k = 0 /\ n = 1 /\ Pow2[0] = 1
    BY <1>1, <1>3, Pow2Def DEF Log2Bits
  <2> QED BY <1>2, <2>1 DEF Log2Bits
<1>4. CASE h # 0
  <2>1. k # 0 /\ Pow2[k - 1] <= h /\ h < Pow2[k] /\ k - 1 \in Nat
    BY <1>1, <1>4 DEF Log2Bits
  <2>2. Pow2[k] = 2 * Pow2[k - 1] /\ Pow2[k - 1] \in Nat
    <3>1. (k - 1) + 1 = k
      BY <1>2
    <3> QED BY <2>1, <3>1, Pow2Def
  <2> QED BY <1>1, <1>2, <2>1, <2>2 DEF Log2Bits
<1> QED BY <1>3, <1>4

\* And there is one.
LEMMA Log2Exists ==
  \A n \in Nat : \E k \in Nat : Log2Bits(n, k)
<1> DEFINE R == {n \in Nat : \A m \in 0..n : \E k \in Nat : Log2Bits(m, k)}
<1>1. 0 \in R
  <2>1. Log2Bits(0, 0)
    BY DEF Log2Bits
  <2> QED BY <2>1
<1>2. ASSUME NEW n \in Nat, n \in R PROVE n + 1 \in R
  <2>1. \A m \in 0..n : \E k \in Nat : Log2Bits(m, k)
    BY <1>2
  <2>2. (n + 1) \div 2 \in 0..n
    OBVIOUS
  <2>3. PICK k \in Nat : Log2Bits((n + 1) \div 2, k)
    BY <2>1, <2>2
  <2>4. Log2Bits(n + 1, 1 + k) /\ 1 + k \in Nat
    BY <2>3, Log2Half
  <2>5. \A m \in 0..(n + 1) : m \in 0..n \/ m = n + 1
    OBVIOUS
  <2>6. \A m \in 0..(n + 1) : \E j \in Nat : Log2Bits(m, j)
    BY <2>1, <2>4, <2>5
  <2> QED BY <2>6
<1> HIDE DEF R
<1>3. \A n \in Nat : n \in R
  BY <1>1, <1>2, Induction
<1>4. \A n \in Nat : n \in R => \E k \in Nat : Log2Bits(n, k)
  <2> TAKE n \in Nat
  <2>1. n \in 0..n
    OBVIOUS
  <2> QED BY <2>1 DEF R
<1> QED BY <1>3, <1>4

\* intlog2() counts them.
LEMMA IntLog2Is ==
  ASSUME NEW n \in Nat
  PROVE  Log2Bits(n, IntLog2(n))
<1> DEFINE h == [m \in Nat |-> CHOOSE k \in Nat : Log2Bits(m, k)]
           f == CHOOSE g : g = [m \in Nat |-> IF m = 0 THEN 0 ELSE 1 + g[m \div 2]]
<1>1. \A m \in Nat : h[m] \in Nat /\ Log2Bits(m, h[m])
  BY Log2Exists
<1>2. h = [m \in Nat |-> IF m = 0 THEN 0 ELSE 1 + h[m \div 2]]
  <2>1. ASSUME NEW m \in Nat PROVE h[m] = IF m = 0 THEN 0 ELSE 1 + h[m \div 2]
    <3>1. CASE m = 0
      BY <1>1, <3>1 DEF Log2Bits
    <3>2. CASE m # 0
      <4>1. m \div 2 \in Nat /\ m \in Nat \ {0}
        BY <3>2
      <4>2. Log2Bits(m, 1 + h[m \div 2])
        BY <1>1, <4>1, Log2Half
      <4> QED BY <1>1, <3>2, <4>2, Log2Unique
    <3> QED BY <3>1, <3>2
  <2>2. h = [m \in Nat |-> h[m]]
    OBVIOUS
  <2> HIDE DEF h
  <2> QED BY <2>1, <2>2
<1> HIDE DEF h
<1>3. f = [m \in Nat |-> IF m = 0 THEN 0 ELSE 1 + f[m \div 2]]
  BY <1>2
<1> HIDE DEF f
<1>4. f[0] = 0 /\ \A m \in Nat : m # 0 => f[m] = 1 + f[m \div 2]
  BY <1>3
<1> DEFINE R == {b \in Nat : \A m \in 0..b : Log2Bits(m, f[m])}
<1>5. 0 \in R
  BY <1>4 DEF Log2Bits
<1>6. ASSUME NEW b \in Nat, b \in R PROVE b + 1 \in R
  <2>1. \A m \in 0..b : Log2Bits(m, f[m])
    BY <1>6
  <2>2. (b + 1) \div 2 \in 0..b /\ f[b + 1] = 1 + f[(b + 1) \div 2] /\ b + 1 \in Nat \ {0}
    BY <1>4
  <2>3. Log2Bits(b + 1, f[b + 1])
    BY <2>1, <2>2, Log2Half
  <2>4. \A m \in 0..(b + 1) : m \in 0..b \/ m = b + 1
    OBVIOUS
  <2> QED BY <2>1, <2>3, <2>4
<1> HIDE DEF R
<1>7. \A b \in Nat : b \in R
  BY <1>5, <1>6, Induction
<1>8. Log2Bits(n, f[n])
  BY <1>7 DEF R
<1>9. IntLog2(n) = IF n <= 0 THEN 0 ELSE f[n]
  BY DEF IntLog2, f
<1> QED BY <1>4, <1>8, <1>9

\* A number is below the power of two of its number of bits.
LEMMA IntLog2Bounds ==
  ASSUME NEW n \in Nat
  PROVE  /\ IntLog2(n) \in Nat /\ n < Pow2[IntLog2(n)]
         /\ n # 0 => IntLog2(n) # 0 /\ Pow2[IntLog2(n) - 1] <= n
<1>1. Log2Bits(n, IntLog2(n))
  BY IntLog2Is
<1>2. CASE n = 0
  BY <1>1, <1>2, Pow2Def DEF Log2Bits
<1>3. CASE n # 0
  BY <1>1, <1>3 DEF Log2Bits
<1> QED BY <1>2, <1>3

-----------------------------------------------------------------------------
(***************************************************************************)
(* The division by a constant.                                             *)
(***************************************************************************)
\* The i-th chunk of c bits, from the right.
Chunk(v, c, i) == (v \div Pow2[(i - 1) * c]) % Pow2[c]

\* A chunk is a number of c bits, and what is left of the number is zero.
LEMMA ChunkRange ==
  ASSUME NEW v \in Nat, NEW c \in Nat, NEW i \in Nat \ {0}
  PROVE  /\ Chunk(v, c, i) \in 0..(Pow2[c] - 1)
         /\ Chunk(v, c, i) * Pow2[(i - 1) * c] <= v
         /\ v < Pow2[(i - 1) * c] => Chunk(v, c, i) = 0
         /\ v < Pow2[c] => Chunk(v, c, 1) = v
<1>1. (i - 1) * c \in Nat
  <2>1. i - 1 \in Nat
    OBVIOUS
  <2> QED BY <2>1
<1>2. PICK P \in Nat \ {0}, C \in Nat \ {0} : P = Pow2[(i - 1) * c] /\ C = Pow2[c]
  BY <1>1, Pow2Def
<1>3. PICK q \in Nat, r \in 0..(P - 1) : v = P * q + r /\ q = v \div P
  BY ZenonT(40), NaturalDivision
<1>5. PICK t \in 0..(C - 1) : t = q % C /\ t <= q
  BY ZenonT(40), NaturalDivision
<1>6. Chunk(v, c, i) = t
  BY <1>2, <1>3, <1>5 DEF Chunk
<1>7. t * P <= v
  <2>1. t * P <= q * P
    BY <1>5
  <2>2. q * P = P * q
    OBVIOUS
  <2> QED BY <1>3, <2>1, <2>2
<1>8. v < P => t = 0
  <2>1. v < P => q = 0
    <3>1. P * 0 = 0 /\ P * 1 = P
      OBVIOUS
    <3>2. v < P => q < 1
      BY <1>3, <3>1, QuotientMonotone
    <3> QED BY <3>2
  <2> QED BY <1>5, <2>1
<1>9. ASSUME v < C PROVE Chunk(v, c, 1) = v
  <2>1. (1 - 1) * c = 0 /\ Pow2[0] = 1
    BY Pow2Def
  <2>2. v \div 1 = v /\ v % C = v
    BY <1>9, SmallRemainder
  <2> QED BY <1>2, <2>1, <2>2 DEF Chunk
<1> QED BY <1>2, <1>5, <1>6, <1>7, <1>8, <1>9

\* Two neighbours make a chunk of twice the size.
LEMMA ChunkMerge ==
  ASSUME NEW v \in Nat, NEW c \in Nat, NEW i \in Nat \ {0}
  PROVE  Chunk(v, 2 * c, i) = Chunk(v, c, 2 * i) * Pow2[c] + Chunk(v, c, 2 * i - 1)
<1>1. PICK b \in Nat : /\ b = (i - 1) * (2 * c) /\ b = ((2 * i - 1) - 1) * c
                       /\ b + c = (2 * i - 1) * c
  <2>1. (i - 1) * (2 * c) = 2 * (i * c) - 2 * c
    OBVIOUS
  <2>2. ((2 * i - 1) - 1) * c = 2 * (i * c) - 2 * c
    OBVIOUS
  <2>3. (2 * i - 1) * c = 2 * (i * c) - c
    OBVIOUS
  <2>4. (i - 1) * (2 * c) \in Nat
    <3>1. i - 1 \in Nat
      OBVIOUS
    <3> QED BY <3>1
  <2>5. i * c \in Int
    OBVIOUS
  <2> QED BY <2>1, <2>2, <2>3, <2>4, <2>5
<1>2. PICK B \in Nat \ {0}, C \in Nat \ {0} :
        B = Pow2[b] /\ C = Pow2[c] /\ B * C = Pow2[b + c] /\ C * C = Pow2[2 * c]
  <2>1. Pow2[b + c] = Pow2[b] * Pow2[c]
    BY Pow2Sum
  <2>2. Pow2[c + c] = Pow2[c] * Pow2[c] /\ c + c = 2 * c
    BY Pow2Sum
  <2> QED BY <2>1, <2>2, Pow2Def
<1>3. PICK y \in Int : y = v \div B
  BY Division
<1>4. v \div (B * C) = y \div C
  <2>1. v \in Int
    OBVIOUS
  <2>2. (v \div B) \div C = v \div (B * C)
    BY <2>1, QuotientOfQuotient
  <2> QED BY <1>3, <2>2
<1>5. y % (C * C) = ((y \div C) % C) * C + (y % C)
  BY QuotientOfQuotient
<1>6. Chunk(v, 2 * c, i) = y % (C * C)
  BY <1>1, <1>2, <1>3 DEF Chunk
<1>7. Chunk(v, c, 2 * i - 1) = y % C
  BY <1>1, <1>2, <1>3 DEF Chunk
<1>8. Chunk(v, c, 2 * i) = (y \div C) % C
  BY <1>1, <1>2, <1>4 DEF Chunk
<1> QED BY <1>2, <1>5, <1>6, <1>7, <1>8

\* The quotient of the largest dividend.
LEMMA LargestQuotient ==
  ASSUME NEW w \in Nat, NEW v \in Nat, v < Pow2[w], NEW e \in Nat \ {0}, NEW q \in Nat, e * q <= v
  PROVE  /\ (Pow2[w] - 1) \div e \in Nat
         /\ q < Pow2[IntLog2((Pow2[w] - 1) \div e)]
<1>1. PICK W \in Nat : W = Pow2[w] - 1 /\ v <= W
  BY Pow2Def
<1>2. q <= W \div e
  BY <1>1, QuotientMonotone
<1>3. PICK m \in Nat : m = W \div e
  <2>1. W \div e \in Int
    OBVIOUS
  <2> QED BY <1>2, <2>1
<1>4. m < Pow2[IntLog2(m)] /\ Pow2[IntLog2(m)] \in Nat
  BY IntLog2Bounds, Pow2Def
<1> QED BY <1>1, <1>2, <1>3, <1>4

\* What a level keeps of the quotient of a chunk is all of it.
LEMMA ChunkQuotientFits ==
  ASSUME NEW w \in Nat, NEW v \in Nat, v < Pow2[w], NEW e \in Nat \ {0}, NEW c \in Nat \ {0},
         NEW i \in Nat \ {0}, NEW q \in Nat, NEW r \in Nat, Chunk(v, c, i) = e * q + r
  PROVE  q < Pow2[LargerOf(0, SmallerOf(c, IntLog2((Pow2[w] - 1) \div e) - (i - 1) * c))]
<1>1. PICK b \in Nat : b = (i - 1) * c
  <2>1. i - 1 \in Nat
    OBVIOUS
  <2> QED BY <2>1
<1>2. PICK B \in Nat \ {0}, C \in Nat \ {0}, t \in Nat :
        B = Pow2[b] /\ C = Pow2[c] /\ t = Chunk(v, c, i) /\ t < C /\ t * B <= v /\ t = e * q + r
  <2>1. Pow2[b] \in Nat \ {0} /\ Pow2[c] \in Nat \ {0}
    BY Pow2Def
  <2>2. Chunk(v, c, i) \in 0..(Pow2[c] - 1) /\ Chunk(v, c, i) * Pow2[b] <= v
    BY <1>1, ChunkRange
  <2> QED BY <2>1, <2>2
<1>3. q <= e * q /\ q < C
  <2>1. 1 * q <= e * q
    OBVIOUS
  <2> QED BY <1>2, <2>1
<1>4. e * (q * B) <= v /\ q * B \in Nat
  <2>1. (e * q) * B <= t * B
    BY <1>2
  <2>2. (e * q) * B = e * (q * B) /\ e * (q * B) \in Nat /\ t * B \in Nat
    OBVIOUS
  <2> QED BY <1>2, <2>1, <2>2
<1>5. PICK s \in Nat : s = IntLog2((Pow2[w] - 1) \div e) /\ q * B < Pow2[s]
  <2>1. (Pow2[w] - 1) \div e \in Nat /\ q * B < Pow2[IntLog2((Pow2[w] - 1) \div e)]
    BY <1>4, LargestQuotient
  <2> QED BY <2>1, IntLog2Bounds
<1>6. CASE s < b
  <2>1. Pow2[s] <= B /\ Pow2[s] \in Nat
    <3>1. Pow2[s] <= Pow2[b]
      BY <1>6, Pow2Monotone
    <3> QED BY <1>2, <3>1, Pow2Def
  <2>2. q * B < B
    BY <1>4, <1>5, <2>1
  <2>3. q = 0
    <3>1. q >= 1 => q * B >= 1 * B
      OBVIOUS
    <3> QED BY <2>2, <3>1
  <2>4. LargerOf(0, SmallerOf(c, s - b)) \in Nat
    BY DEF LargerOf, SmallerOf
  <2> QED BY <1>1, <1>5, <2>3, <2>4, Pow2Def
<1>7. CASE s >= b
  <2>1. Pow2[s] = B * Pow2[s - b] /\ Pow2[s - b] \in Nat \ {0}
    <3>1. s - b \in Nat /\ b + (s - b) = s
      BY <1>7
    <3>2. Pow2[b + (s - b)] = Pow2[b] * Pow2[s - b]
      BY <3>1, Pow2Sum
    <3> QED BY <1>2, <3>1, <3>2, Pow2Def
  <2>2. q < Pow2[s - b]
    <3>1. PICK U \in Nat : U = Pow2[s - b]
      BY <2>1
    <3>2. U <= q => B * U <= B * q
      OBVIOUS
    <3>3. B * q = q * B
      OBVIOUS
    <3> QED BY <1>5, <2>1, <3>1, <3>2, <3>3
  <2>3. LargerOf(0, SmallerOf(c, s - b)) \in {c, s - b}
    BY <1>7 DEF LargerOf, SmallerOf
  <2> QED BY <1>1, <1>2, <1>3, <1>5, <2>2, <2>3
<1> QED BY <1>6, <1>7

\* The operator that was generated, and its input.
ConstDivTypes ==
  /\ constDiv.arch \in {"linear", "log", "reciprocal"}
  /\ constDiv.wIn \in Nat \ {0} /\ alpha \in Nat \ {0}
  /\ d \in Nat \ {0, 1, 2} /\ d % 2 = 1 /\ d < Pow2[constDiv.wIn]
  /\ constDiv.arch = "reciprocal" => 2 * d <= Pow2[constDiv.wIn]
  /\ constDiv.X \in Nat /\ constDiv.X < Pow2[constDiv.wIn]

\* A slice of c bits that begins at a multiple of c.
LEMMA BitsChunk ==
  ASSUME NEW v \in Nat, NEW c \in Nat, NEW i \in Nat \ {0}
  PROVE  Bits(v, i * c - 1, (i - 1) * c) = Chunk(v, c, i)
<1>1. PICK b \in Nat : b = (i - 1) * c /\ i * c - 1 = (b + c) - 1
  <2>1. i - 1 \in Nat /\ i * c = (i - 1) * c + c
    OBVIOUS
  <2>2. (i - 1) * c \in Nat
    BY <2>1
  <2> QED BY <2>1, <2>2
<1>2. v \in Int
  OBVIOUS
<1>3. Bits(v, (b + c) - 1, b) = (v \div Pow2[b]) % Pow2[c]
  BY <1>2, BitsDef
<1> QED BY <1>1, <1>3 DEF Chunk

\* The digits of X cover it.
LEMMA XDigitsCover ==
  ASSUME ConstDivTypes
  PROVE  /\ XDigits \in Nat \ {0} /\ constDiv.wIn <= XDigits * alpha
         /\ \A i \in Nat \ {0} : XDigit(i - 1) = Chunk(constDiv.X, alpha, i)
<1>1. PICK w \in Nat \ {0}, a \in Nat \ {0}, x \in Nat : w = constDiv.wIn /\ a = alpha /\ x = constDiv.X
  BY DEF ConstDivTypes
<1>2. PICK n \in Nat, r \in 0..(a - 1) : (w + a) - 1 = a * n + r /\ n = ((w + a) - 1) \div a
  <2>1. (w + a) - 1 \in Nat
    OBVIOUS
  <2> QED BY ZenonT(40), <2>1, NaturalDivision
<1>3. XDigits = n
  BY <1>1, <1>2 DEF XDigits, CeilDiv
<1>4. n # 0 /\ w <= n * a
  <2>1. a * 0 = 0 /\ a * n = n * a
    OBVIOUS
  <2> QED BY <1>2, <2>1
<1>5. ASSUME NEW i \in Nat \ {0} PROVE XDigit(i - 1) = Chunk(x, a, i)
  <2>1. (i - 1) + 1 = i
    OBVIOUS
  <2>2. XDigit(i - 1) = Bits(x, i * a - 1, (i - 1) * a)
    BY <1>1, <2>1 DEF XDigit
  <2> QED BY <2>2, BitsChunk
<1> QED BY <1>1, <1>3, <1>4, <1>5

\* No bit that a level drops from a sub-quotient is one.
LEMMA QuotientKept ==
  ASSUME ConstDivTypes
  PROVE  \A level \in Nat, i \in Nat \ {0}, q \in Nat, r \in Nat :
           Chunk(constDiv.X, alpha * Pow2[level], i) = d * q + r => QuotientOf(level, i, q) = q
<1> SUFFICES ASSUME NEW level \in Nat, NEW i \in Nat \ {0}, NEW q \in Nat, NEW r \in Nat,
                    Chunk(constDiv.X, alpha * Pow2[level], i) = d * q + r
             PROVE  QuotientOf(level, i, q) = q
  OBVIOUS
<1>1. PICK w \in Nat \ {0}, e \in Nat \ {0}, x \in Nat :
        w = constDiv.wIn /\ e = d /\ x = constDiv.X /\ x < Pow2[w]
  BY DEF ConstDivTypes
<1>2. PICK c \in Nat \ {0} : c = alpha * Pow2[level]
  <2>1. PICK a \in Nat \ {0}, P \in Nat \ {0} : a = alpha /\ P = Pow2[level]
    BY Pow2Def DEF ConstDivTypes
  <2>2. a * P \in Nat \ {0}
    OBVIOUS
  <2> QED BY <2>1, <2>2
<1> DEFINE n == LargerOf(0, SmallerOf(c, IntLog2((Pow2[w] - 1) \div e) - (i - 1) * c))
<1>3. q < Pow2[n]
  <2>1. Chunk(x, c, i) = e * q + r /\ w \in Nat
    BY <1>1, <1>2
  <2> QED BY <1>1, <2>1, ChunkQuotientFits
<1>4. Pow2[n] \in Nat \ {0}
  <2>1. (Pow2[w] - 1) \div e \in Nat
    <3>1. 0 \in Nat /\ 0 < Pow2[w] /\ e * 0 <= 0 /\ w \in Nat
      BY Pow2Def
    <3> QED BY <3>1, LargestQuotient
  <2>2. IntLog2((Pow2[w] - 1) \div e) \in Nat
    BY <2>1, IntLog2Bounds
  <2>3. PICK s \in Nat, b \in Int : s = IntLog2((Pow2[w] - 1) \div e) /\ b = (i - 1) * c
    <3>1. (i - 1) * c \in Int
      OBVIOUS
    <3> QED BY <2>2, <3>1
  <2>4. n \in Nat
    BY <2>3 DEF LargerOf, SmallerOf
  <2> QED BY <2>4, Pow2Def
<1>5. q % Pow2[n] = q
  BY <1>3, <1>4, SmallRemainder
<1>6. QuotientOf(level, i, q) = q % Pow2[n]
  BY SMTT(60), <1>1, <1>2 DEF QuotientOf, QuotientSize, Ones
<1> QED BY <1>5, <1>6

\* The row of tables has divided the digits from the left.
LinearDivided ==
  constDiv.arch = "linear" =>
    /\ digit \in Nat
    /\ \E q \in Nat, r \in Nat : /\ quotients = <<q>> /\ remainders = <<r>> /\ r < d
                                 /\ constDiv.X \div Pow2[alpha * digit] = d * q + r

\* The tree of tables has divided the chunks of its level.
ChunkDivided(c, i, q, r) == q \in Nat /\ r \in Nat /\ r < d /\ Chunk(constDiv.X, c, i) = d * q + r

LevelDivided ==
  constDiv.arch = "log" =>
    /\ digit \in Nat
    /\ remainders \in Seq(Nat) /\ quotients \in Seq(Nat)
    /\ Len(remainders) # 0 /\ Len(quotients) = Len(remainders)
    /\ constDiv.wIn <= Len(remainders) * (alpha * Pow2[digit])
    /\ \A i \in 1..Len(remainders) :
         ChunkDivided(alpha * Pow2[digit], i, quotients[i], remainders[i])

ConstDivInv ==
  /\ CDIdle => digit = 0 /\ quotients = <<>> /\ remainders = <<>> /\ constDivOut = <<>>
  /\ ~CDIdle => /\ ConstDivTypes /\ LinearDivided /\ LevelDivided
                /\ constDiv.arch = "reciprocal" => remainders = <<>>
  /\ ConstantDivisionIsCorrect

\* A function of 1..n is a sequence.
LEMMA SequenceOf ==
  ASSUME NEW n \in Nat, NEW f, f = [i \in 1..n |-> f[i]], \A i \in 1..n : f[i] \in Nat
  PROVE  f \in Seq(Nat) /\ Len(f) = n
<1>1. f \in [1..n -> Nat]
  OBVIOUS
<1> QED BY <1>1

\* The chunk of a level as one number.
LEMMA ChunkSize ==
  ASSUME ConstDivTypes
  PROVE  \A level \in Nat :
           /\ alpha * Pow2[level] \in Nat \ {0}
           /\ alpha * Pow2[level + 1] = 2 * (alpha * Pow2[level])
<1> SUFFICES ASSUME NEW level \in Nat
             PROVE  /\ alpha * Pow2[level] \in Nat \ {0}
                    /\ alpha * Pow2[level + 1] = 2 * (alpha * Pow2[level])
  OBVIOUS
<1>1. PICK a \in Nat \ {0}, P \in Nat \ {0} : a = alpha /\ P = Pow2[level] /\ Pow2[level + 1] = 2 * P
  BY Pow2Def DEF ConstDivTypes
<1>2. a * P \in Nat \ {0} /\ a * (2 * P) = 2 * (a * P)
  OBVIOUS
<1> QED BY <1>1, <1>2

\* The first level divides each digit of X, or none yet.
LEMMA DivideByConstantInv ==
  ASSUME ConstDivInv, NEW k \in ConstDividers, NEW x \in 0..Ones(k.wIn), DivideByConstant(k, x)
  PROVE  ConstDivInv'
<1>1. /\ constDiv' = [arch |-> k.arch, wIn |-> k.wIn, d |-> k.d, alpha |-> k.alpha, X |-> x]
      /\ Divided(k.arch) /\ constDivOut' = <<>>
      /\ digit = 0 /\ quotients = <<>> /\ remainders = <<>>
  BY DEF DivideByConstant, ConstDivInv
<1>2. /\ constDiv'.arch = k.arch /\ constDiv'.wIn = k.wIn /\ constDiv'.d = k.d
      /\ constDiv'.alpha = k.alpha /\ constDiv'.X = x
  BY <1>1
<1>3. x \in Nat /\ x < Pow2[k.wIn]
  <2>1. Pow2[k.wIn] \in Nat \ {0}
    BY IntConstDivAssumption, Pow2Def
  <2> QED BY <2>1 DEF Ones
<1>4. ConstDivTypes'
  BY <1>2, <1>3, IntConstDivAssumption DEF ConstDivTypes, d, alpha
<1>5. /\ XDigits' \in Nat \ {0} /\ k.wIn <= XDigits' * k.alpha
      /\ \A i \in Nat \ {0} : XDigit(i - 1)' = Chunk(x, k.alpha, i)
  <2>1. (ConstDivTypes => /\ XDigits \in Nat \ {0} /\ constDiv.wIn <= XDigits * alpha
                          /\ \A i \in Nat \ {0} : XDigit(i - 1) = Chunk(constDiv.X, alpha, i))'
    BY XDigitsCover, PTL
  <2> QED BY <1>2, <1>4, <2>1 DEF alpha
<1>6. PICK w \in Nat \ {0}, a \in Nat \ {0}, e \in Nat \ {0}, n \in Nat \ {0} :
        w = k.wIn /\ a = k.alpha /\ e = k.d /\ n = XDigits' /\ w <= n * a
  BY <1>5, IntConstDivAssumption
<1>7. LinearDivided'
  <2> SUFFICES ASSUME k.arch = "linear"
               PROVE  /\ digit' \in Nat
                      /\ \E q \in Nat, r \in Nat : /\ quotients' = <<q>> /\ remainders' = <<r>> /\ r < e
                                                   /\ x \div Pow2[a * digit'] = e * q + r
    BY <1>2, <1>6 DEF LinearDivided, d, alpha
  <2>1. digit' = n /\ quotients' = <<0>> /\ remainders' = <<0>>
    BY <1>1, <1>6 DEF Divided
  <2>2. PICK b \in Nat : b = a * n /\ w <= b
    <3>1. a * n = n * a /\ a * n \in Nat
      OBVIOUS
    <3> QED BY <1>6, <3>1
  <2>3. x < Pow2[b] /\ Pow2[b] \in Nat \ {0}
    <3>1. Pow2[w] <= Pow2[b] /\ Pow2[w] \in Nat /\ Pow2[b] \in Nat \ {0}
      BY <2>2, Pow2Monotone, Pow2Def
    <3> QED BY <1>3, <1>6, <3>1
  <2>4. x \div Pow2[b] = 0
    <3>1. PICK q \in Nat, r \in 0..(Pow2[b] - 1) : x = Pow2[b] * q + r /\ q = x \div Pow2[b]
      BY ZenonT(40), <1>3, <2>3, NaturalDivision
    <3>2. q # 0 => Pow2[b] * q >= Pow2[b]
      BY <2>3
    <3> QED BY <2>3, <3>1, <3>2
  <2>5. e * 0 + 0 = 0
    OBVIOUS
  <2> QED BY <2>1, <2>2, <2>4, <2>5
<1>8. LevelDivided'
  <2> SUFFICES ASSUME k.arch = "log"
               PROVE  /\ digit' \in Nat
                      /\ remainders' \in Seq(Nat) /\ quotients' \in Seq(Nat)
                      /\ Len(remainders') # 0 /\ Len(quotients') = Len(remainders')
                      /\ w <= Len(remainders') * (a * Pow2[digit'])
                      /\ \A i \in 1..Len(remainders') :
                           ChunkDivided(alpha * Pow2[digit], i, quotients[i], remainders[i])'
    BY <1>2, <1>6 DEF LevelDivided, d, alpha
  <2>1. /\ digit' = 0
        /\ quotients' = [i \in 1..XDigits' |-> QuotientOf(0, i, XDigit(i - 1) \div d)']
        /\ remainders' = [i \in 1..XDigits' |-> (XDigit(i - 1) % d)']
    BY <1>1 DEF Divided
  <2>2. (ConstDivTypes => \A level \in Nat, i \in Nat \ {0}, q \in Nat, r \in Nat :
           Chunk(constDiv.X, alpha * Pow2[level], i) = d * q + r => QuotientOf(level, i, q) = q)'
    BY QuotientKept, PTL
  <2>3. a * Pow2[0] = a
    BY Pow2Def
  <2>4. ASSUME NEW i \in 1..n
        PROVE  ChunkDivided(alpha * Pow2[digit], i, quotients[i], remainders[i])'
    <3>1. PICK y \in Nat : y = Chunk(x, a, i) /\ y = XDigit(i - 1)'
      <4>1. i \in Nat \ {0} /\ a \in Nat /\ x \in Nat
        BY <1>3
      <4>2. Chunk(x, a, i) \in Nat
        <5>1. Chunk(x, a, i) \in 0..(Pow2[a] - 1)
          BY <4>1, ChunkRange
        <5> QED BY <5>1
      <4> QED BY <1>5, <1>6, <4>1, <4>2
    <3>2. PICK q \in Nat, r \in 0..(e - 1) : y = e * q + r /\ q = y \div e /\ r = y % e
      BY ZenonT(40), NaturalDivision
    <3>3. QuotientOf(0, i, q)' = q
      <4>1. i \in Nat \ {0} /\ 0 \in Nat /\ q \in Nat /\ r \in Nat
        OBVIOUS
      <4>2. Chunk(x, a * Pow2[0], i) = e * q + r
        BY <2>3, <3>1, <3>2
      <4> QED BY <1>2, <1>4, <1>6, <2>2, <4>1, <4>2 DEF alpha, d
    <3>4. d' = e
      BY <1>2, <1>6 DEF d
    <3>5. (XDigit(i - 1) \div d)' = q /\ (XDigit(i - 1) % d)' = r
      BY <3>1, <3>2, <3>4
    <3>6. QuotientOf(0, i, XDigit(i - 1) \div d)' = QuotientOf(0, i, q)'
      BY <3>5 DEF QuotientOf
    <3>7. quotients'[i] = q /\ remainders'[i] = r
      BY <1>6, <2>1, <3>3, <3>5, <3>6
    <3>8. Chunk(x, a * Pow2[digit'], i) = e * q + r /\ r < e /\ r \in Nat
      <4>1. a * Pow2[digit'] = a
        BY <2>1, <2>3
      <4>2. Chunk(x, a, i) = e * q + r
        BY <3>1, <3>2
      <4>3. r < e /\ r \in Nat
        BY <3>2
      <4> QED BY <4>1, <4>2, <4>3
    <3> QED BY <1>2, <1>6, <3>4, <3>7, <3>8 DEF ChunkDivided, alpha
  <2>5. \A i \in 1..n : quotients'[i] \in Nat /\ remainders'[i] \in Nat
    BY <2>4 DEF ChunkDivided
  <2>6. quotients' = [i \in 1..n |-> quotients'[i]] /\ remainders' = [i \in 1..n |-> remainders'[i]]
    BY <1>6, <2>1
  <2>7. /\ quotients' \in Seq(Nat) /\ Len(quotients') = n
        /\ remainders' \in Seq(Nat) /\ Len(remainders') = n
    BY <2>5, <2>6, SequenceOf
  <2> QED BY <1>6, <2>1, <2>3, <2>4, <2>7
<1>9. k.arch = "reciprocal" => remainders' = <<>>
  BY <1>1 DEF Divided
<1>10. CDIdle' => digit' = 0 /\ quotients' = <<>> /\ remainders' = <<>> /\ constDivOut' = <<>>
  <2>1. DOMAIN constDiv' # {} /\ DOMAIN <<>> = {}
    BY <1>1
  <2>2. constDiv' # <<>>
    BY <2>1
  <2> QED BY <2>2 DEF CDIdle
<1>11. ConstantDivisionIsCorrect'
  BY <1>1 DEF ConstantDivisionIsCorrect
<1> QED BY <1>2, <1>4, <1>7, <1>8, <1>9, <1>10, <1>11 DEF ConstDivInv

\* What a table divides is the remainder so far and t: the quotients concatenate.
Redivided(e, C, q, r, p, t, y) ==
  /\ y \div e \in Nat /\ (y % e) \in Nat /\ (y % e) < e
  /\ (e * q + r) * C + (e * p + t) = e * ((y \div e) + (q * C + p)) + (y % e)

\* By dividing what the table is given.
LEMMA RemaindersDivided ==
  ASSUME NEW e \in Nat \ {0}, NEW C \in Nat, NEW q \in Nat, NEW r \in Nat,
         NEW p \in Nat, NEW t \in Nat, NEW y \in Nat, y = r * C + t
  PROVE  Redivided(e, C, q, r, p, t, y)
<1>2. PICK a \in Nat, b \in 0..(e - 1) : y = e * a + b /\ a = y \div e /\ b = y % e
  BY ZenonT(40), NaturalDivision
<1>3. (e * q + r) * C + (e * p + t) = e * (a + (q * C + p)) + b
  <2>1. (e * q + r) * C = e * (q * C) + r * C
    OBVIOUS
  <2>2. e * (a + (q * C + p)) = e * a + e * (q * C) + e * p
    OBVIOUS
  <2>3. PICK u \in Int, v \in Int, w \in Int, z \in Int : u = e * (q * C) /\ v = r * C /\ w = e * a /\ z = e * p
    OBVIOUS
  <2> QED BY <1>2, <2>1, <2>2, <2>3
<1>4. (y \div e) + (q * C + p) = a + (q * C + p) /\ (y % e) = b
  BY <1>2
<1>5. (e * q + r) * C + (e * p + t) = e * ((y \div e) + (q * C + p)) + (y % e)
  BY Zenon, <1>3, <1>4
<1>6. a \in Nat /\ b \in Nat /\ b < e
  BY <1>2
<1> QED BY Zenon, <1>2, <1>5, <1>6 DEF Redivided

\* A table of the row divides the next digit, with the remainder so far.
LEMMA LinearDigitInv ==
  ASSUME ConstDivInv, LinearDigit
  PROVE  ConstDivInv'
<1>1. /\ ConstDivTypes /\ LinearDivided /\ ~CDIdle /\ constDiv.arch = "linear" /\ digit \in Nat /\ digit > 0
      /\ constDiv' = constDiv /\ constDivOut' = constDivOut /\ digit' = digit - 1
  BY DEF LinearDigit, ConstDivInv, LinearDivided
<1>2. PICK q \in Nat, r \in Nat : /\ quotients = <<q>> /\ remainders = <<r>> /\ r < d
                                  /\ constDiv.X \div Pow2[alpha * digit] = d * q + r
  BY <1>1 DEF LinearDivided
<1>3. PICK a \in Nat \ {0}, e \in Nat \ {0}, x \in Nat, m \in Nat \ {0} :
        a = alpha /\ e = d /\ x = constDiv.X /\ m = digit
  <2>1. alpha \in Nat \ {0} /\ d \in Nat \ {0} /\ constDiv.X \in Nat
    BY <1>1 DEF ConstDivTypes
  <2>2. digit \in Nat \ {0}
    BY <1>1
  <2> QED BY <2>1, <2>2
<1>4. PICK t \in Nat : t = Chunk(x, a, m) /\ t = XDigit(m - 1)
  <2>1. Chunk(x, a, m) \in 0..(Pow2[a] - 1)
    BY ChunkRange
  <2>2. XDigit(m - 1) = Chunk(x, a, m)
    BY <1>1, <1>3, XDigitsCover
  <2>3. Pow2[a] \in Nat
    BY Pow2Def
  <2> QED BY <2>1, <2>2, <2>3
<1>5. PICK A \in Nat \ {0} : A = Pow2[a]
  BY Pow2Def
<1>6. x \div Pow2[a * (m - 1)] = (e * q + r) * A + t
  <2>1. PICK b \in Nat : b = (m - 1) * a /\ b = a * (m - 1) /\ b + a = a * m
    <3>1. m - 1 \in Nat
      OBVIOUS
    <3>2. (m - 1) * a \in Nat /\ (m - 1) * a = a * (m - 1) /\ a * m = a * (m - 1) + a
      BY <3>1
    <3> QED BY <3>2
  <2>2. PICK B \in Nat \ {0} : B = Pow2[b] /\ B * A = Pow2[b + a]
    <3>1. Pow2[b + a] = Pow2[b] * Pow2[a]
      BY Pow2Sum
    <3> QED BY <1>5, <3>1, Pow2Def
  <2>3. PICK y \in Nat : y = x \div B
    <3>1. \E y \in Nat, j \in 0..(B - 1) : x = B * y + j /\ y = x \div B /\ j = x % B /\ j <= x /\ B * y <= x
      BY ZenonT(40), NaturalDivision
    <3> QED BY <3>1
  <2>4. y \div A = e * q + r
    <3>1. x \in Int
      OBVIOUS
    <3>2. (x \div B) \div A = x \div (B * A)
      BY <3>1, QuotientOfQuotient
    <3> QED BY <1>2, <1>3, <2>1, <2>2, <2>3, <3>2
  <2>5. t = y % A
    BY <1>4, <1>5, <2>1, <2>2, <2>3 DEF Chunk
  <2>6. PICK g \in Nat, j \in 0..(A - 1) : y = A * g + j /\ g = y \div A /\ j = y % A
    BY ZenonT(40), NaturalDivision
  <2>7. A * (e * q + r) = (e * q + r) * A
    OBVIOUS
  <2> QED BY <2>1, <2>2, <2>3, <2>4, <2>5, <2>6, <2>7
<1>7. PICK y \in Nat, g \in Nat, j \in Nat :
        /\ y = r * A + t /\ g = y \div e /\ j = y % e /\ j < e
        /\ (e * q + r) * A + t = e * (q * A + g) + j
  <2>2. PICK y \in Nat : y = r * A + t
    OBVIOUS
  <2>3. /\ y \div e \in Nat /\ (y % e) \in Nat /\ (y % e) < e
        /\ (e * q + r) * A + (e * 0 + t) = e * ((y \div e) + (q * A + 0)) + (y % e)
    <3>1. A \in Nat /\ 0 \in Nat
      OBVIOUS
    <3>2. Redivided(e, A, q, r, 0, t, y)
      BY <2>2, <3>1, RemaindersDivided
    <3> QED BY Zenon, <3>2 DEF Redivided
  <2>4. e * 0 + t = t
    OBVIOUS
  <2>5. PICK h \in Nat : h = q * A
    OBVIOUS
  <2>6. (y \div e) + (h + 0) = h + (y \div e)
    BY <2>3
  <2> QED BY <2>2, <2>3, <2>4, <2>5, <2>6
<1>8. quotients' = <<q * A + g>> /\ remainders' = <<j>>
  <2>1. /\ remainders' = << (Cat(remainders[1], alpha, XDigit(digit - 1))) % d >>
        /\ quotients' = << Cat(quotients[1], alpha, Cat(remainders[1], alpha, XDigit(digit - 1)) \div d) >>
    BY DEF LinearDigit, EuclideanDivTable
  <2>2. Cat(remainders[1], alpha, XDigit(digit - 1)) = y
    BY <1>2, <1>3, <1>4, <1>5, <1>7 DEF Cat
  <2>3. Cat(quotients[1], alpha, g) = q * A + g
    BY <1>2, <1>3, <1>5 DEF Cat
  <2> QED BY <1>3, <1>7, <2>1, <2>2, <2>3
<1>9. LinearDivided'
  <2>1. x \div Pow2[a * (m - 1)] = e * (q * A + g) + j
    BY <1>6, <1>7
  <2>2. q * A + g \in Nat /\ digit' = m - 1 /\ m - 1 \in Nat
    BY <1>1, <1>3
  <2>3. d' = e /\ alpha' = a /\ constDiv'.X = x
    BY <1>1, <1>3 DEF d, alpha
  <2> QED BY <1>7, <1>8, <2>1, <2>2, <2>3 DEF LinearDivided
<1>10. LevelDivided' /\ ConstDivTypes' /\ ~CDIdle' /\ constDiv'.arch = "linear"
  BY <1>1 DEF LevelDivided, ConstDivTypes, CDIdle, d, alpha
<1>11. ConstantDivisionIsCorrect'
  BY <1>1 DEF ConstDivInv, ConstantDivisionIsCorrect, d
<1> QED BY <1>9, <1>10, <1>11 DEF ConstDivInv

\* Two neighbours are divided together; on the left of the last chunk nothing is left.
Merged(c, i, q, p, y) ==
  /\ y \div d \in Nat /\ (y % d) \in Nat /\ (y % d) < d
  /\ (y \div d) + (q * Pow2[c] + p) \in Nat
  /\ Chunk(constDiv.X, 2 * c, i) = d * ((y \div d) + (q * Pow2[c] + p)) + (y % d)

\* Their remainders side by side, divided again, give the remainder of both.
LEMMA NeighboursDivided ==
  ASSUME ConstDivTypes, NEW c \in Nat \ {0}, NEW i \in Nat \ {0},
         NEW p \in Nat, NEW t \in Nat, Chunk(constDiv.X, c, 2 * i - 1) = d * p + t,
         NEW q \in Nat, NEW r \in Nat, Chunk(constDiv.X, c, 2 * i) = d * q + r,
         NEW y \in Nat, y = r * Pow2[c] + t
  PROVE  Merged(c, i, q, p, y)
<1>1. PICK x \in Nat, e \in Nat \ {0}, C \in Nat : x = constDiv.X /\ e = d /\ C = Pow2[c]
  BY Pow2Def DEF ConstDivTypes
<1>2. Chunk(x, 2 * c, i) = (e * q + r) * C + (e * p + t)
  <2>1. c \in Nat
    OBVIOUS
  <2>2. Chunk(x, 2 * c, i) = Chunk(x, c, 2 * i) * Pow2[c] + Chunk(x, c, 2 * i - 1)
    BY <2>1, ChunkMerge
  <2> QED BY <1>1, <2>2
<1>3. /\ y \div e \in Nat /\ (y % e) \in Nat /\ (y % e) < e
      /\ (e * q + r) * C + (e * p + t) = e * ((y \div e) + (q * C + p)) + (y % e)
  <2>1. y = r * C + t
    BY Zenon, <1>1
  <2>2. Redivided(e, C, q, r, p, t, y)
    BY <2>1, RemaindersDivided
  <2> QED BY Zenon, <2>2 DEF Redivided
<1>4. (y \div e) + (q * C + p) \in Nat
  <2>1. q * C \in Nat
    OBVIOUS
  <2> QED BY <1>3, <2>1
<1> QED BY Zenon, <1>1, <1>2, <1>3, <1>4 DEF Merged

\* A level of the tree divides its chunks.
LEMMA MergeLevelInv ==
  ASSUME ConstDivInv, MergeLevel
  PROVE  ConstDivInv'
<1>1. /\ ConstDivTypes /\ LevelDivided /\ ~CDIdle /\ constDiv.arch = "log"
      /\ constDiv' = constDiv /\ constDivOut' = constDivOut /\ digit' = digit + 1
  BY DEF MergeLevel, ConstDivInv
<1>2. /\ digit \in Nat /\ remainders \in Seq(Nat) /\ quotients \in Seq(Nat)
      /\ Len(remainders) # 0 /\ Len(quotients) = Len(remainders)
      /\ constDiv.wIn <= Len(remainders) * (alpha * Pow2[digit])
      /\ \A i \in 1..Len(remainders) :
           ChunkDivided(alpha * Pow2[digit], i, quotients[i], remainders[i])
  BY <1>1 DEF LevelDivided
<1>3. PICK n \in Nat \ {0}, w \in Nat, e \in Nat \ {0}, x \in Nat :
        n = Len(remainders) /\ w = constDiv.wIn /\ e = d /\ x = constDiv.X /\ x < Pow2[w]
  <2>1. Len(remainders) \in Nat \ {0}
    BY <1>2
  <2>2. constDiv.wIn \in Nat /\ d \in Nat \ {0} /\ constDiv.X \in Nat
    BY <1>1 DEF ConstDivTypes
  <2> QED BY <1>1, <2>1, <2>2 DEF ConstDivTypes
<1>4. PICK c \in Nat \ {0} : /\ c = alpha * Pow2[digit] /\ 2 * c = alpha * Pow2[digit + 1]
                             /\ w <= n * c
  BY <1>1, <1>2, <1>3, ChunkSize
<1>5. PICK C \in Nat \ {0} : C = Pow2[c]
  BY Pow2Def
<1> DEFINE left(s, i) == IF 2 * i <= Len(s) THEN s[2 * i] ELSE 0
           y(i) == left(remainders, i) * C + remainders[2 * i - 1]
           m == CeilDiv(n, 2)
<1>6. m \in Nat \ {0} /\ n <= 2 * m /\ \A i \in 1..m : 2 * i - 1 \in 1..n /\ 2 * i <= n + 1
  BY DEF CeilDiv
<1>7. /\ remainders' = [i \in 1..m |-> y(i) % d]
      /\ quotients' = [i \in 1..m |->
           QuotientOf(digit + 1, i, (y(i) \div d) + (left(quotients, i) * C + quotients[2 * i - 1]))]
  BY <1>3, <1>4, <1>5 DEF MergeLevel, Cat
<1>8. ASSUME NEW i \in 1..m
      PROVE  ChunkDivided(2 * c, i, quotients'[i], remainders'[i])
  <2>1. PICK p \in Nat, t \in Nat : /\ p = quotients[2 * i - 1] /\ t = remainders[2 * i - 1]
                                    /\ Chunk(x, c, 2 * i - 1) = d * p + t
    BY <1>2, <1>3, <1>4, <1>6 DEF ChunkDivided
  <2>2. PICK q \in Nat, r \in Nat : /\ q = left(quotients, i) /\ r = left(remainders, i)
                                    /\ Chunk(x, c, 2 * i) = d * q + r
    <3>1. CASE 2 * i <= n
      <4>1. 2 * i \in 1..n
        BY <3>1
      <4> QED BY <1>2, <1>3, <1>4, <3>1, <4>1 DEF ChunkDivided
    <3>2. CASE ~(2 * i <= n)
      <4>1. n <= 2 * i - 1 /\ 2 * i - 1 \in Nat /\ 2 * i \in Nat \ {0} /\ c \in Nat
        BY <3>2
      <4>2. n * c <= (2 * i - 1) * c /\ n * c \in Nat /\ (2 * i - 1) * c \in Nat
        BY <4>1
      <4>3. Pow2[w] <= Pow2[(2 * i - 1) * c] /\ Pow2[w] \in Nat /\ Pow2[(2 * i - 1) * c] \in Nat
        <5>1. w <= (2 * i - 1) * c
          BY <1>4, <4>2
        <5> QED BY <4>2, <5>1, Pow2Monotone, Pow2Def
      <4>4. Chunk(x, c, 2 * i) = 0
        <5>1. x < Pow2[(2 * i - 1) * c]
          BY <1>3, <4>3
        <5> QED BY <4>1, <5>1, ChunkRange
      <4>5. left(quotients, i) = 0 /\ left(remainders, i) = 0 /\ d * 0 + 0 = 0
        BY <1>1, <1>2, <1>3, <3>2 DEF ConstDivTypes
      <4> QED BY <4>4, <4>5
    <3> QED BY <3>1, <3>2
  <2>3. PICK u \in Nat : u = r * C + t
    OBVIOUS
  <2>4. i \in Nat \ {0}
    OBVIOUS
  <2>5. /\ (u % d) \in Nat /\ (u % d) < d
        /\ (u \div d) + (q * C + p) \in Nat
        /\ Chunk(x, 2 * c, i) = d * ((u \div d) + (q * C + p)) + (u % d)
    <3>1. /\ Chunk(constDiv.X, c, 2 * i - 1) = d * p + t
          /\ Chunk(constDiv.X, c, 2 * i) = d * q + r
          /\ u = r * Pow2[c] + t
      BY Zenon, <1>3, <1>5, <2>1, <2>2, <2>3
    <3>2. /\ (u % d) \in Nat /\ (u % d) < d
          /\ (u \div d) + (q * Pow2[c] + p) \in Nat
          /\ Chunk(constDiv.X, 2 * c, i) = d * ((u \div d) + (q * Pow2[c] + p)) + (u % d)
      <4>1. Merged(c, i, q, p, u)
        BY <1>1, <2>4, <3>1, NeighboursDivided
      <4> QED BY Zenon, <4>1 DEF Merged
    <3> QED BY Zenon, <1>3, <1>5, <3>2
  <2>6. QuotientOf(digit + 1, i, (u \div d) + (q * C + p)) = (u \div d) + (q * C + p)
    <3>1. digit + 1 \in Nat
      BY <1>2
    <3>2. Chunk(constDiv.X, alpha * Pow2[digit + 1], i) = d * ((u \div d) + (q * C + p)) + (u % d)
      BY <1>3, <1>4, <2>5
    <3> QED BY <1>1, <2>4, <2>5, <3>1, <3>2, QuotientKept
  <2>7. remainders'[i] = u % d /\ quotients'[i] = (u \div d) + (q * C + p)
    BY <1>7, <2>1, <2>2, <2>3, <2>6
  <2> QED BY <1>3, <2>5, <2>7 DEF ChunkDivided
<1>9. /\ quotients' \in Seq(Nat) /\ Len(quotients') = m
      /\ remainders' \in Seq(Nat) /\ Len(remainders') = m
  <2>1. \A i \in 1..m : quotients'[i] \in Nat /\ remainders'[i] \in Nat
    BY <1>8 DEF ChunkDivided
  <2>2. m \in Nat
    BY <1>6
  <2>3. quotients' = [i \in 1..m |-> quotients'[i]] /\ remainders' = [i \in 1..m |-> remainders'[i]]
    BY <1>7
  <2> HIDE DEF m
  <2> QED BY <2>1, <2>2, <2>3, SequenceOf
<1>10. w <= m * (2 * c)
  <2>1. n * c <= (2 * m) * c /\ (2 * m) * c = m * (2 * c)
    BY <1>6
  <2>2. n * c \in Nat /\ m * (2 * c) \in Nat
    BY <1>6
  <2> QED BY <1>4, <2>1, <2>2
<1>11. LevelDivided'
  <2>1. digit' \in Nat /\ alpha' * Pow2[digit'] = 2 * c /\ constDiv'.wIn = w
    BY <1>1, <1>2, <1>3, <1>4 DEF alpha
  <2>2. \A i \in 1..m : ChunkDivided(alpha * Pow2[digit], i, quotients[i], remainders[i])'
    BY <1>1, <1>8, <2>1 DEF ChunkDivided, d
  <2>3. m # 0
    BY <1>6
  <2> HIDE DEF m
  <2> QED BY <1>9, <1>10, <2>1, <2>2, <2>3 DEF LevelDivided
<1>12. LinearDivided' /\ ConstDivTypes' /\ ~CDIdle' /\ constDiv'.arch = "log"
  BY <1>1 DEF LinearDivided, ConstDivTypes, CDIdle, d, alpha
<1>13. ConstantDivisionIsCorrect'
  BY <1>1 DEF ConstDivInv, ConstantDivisionIsCorrect, d
<1> QED BY <1>11, <1>12, <1>13 DEF ConstDivInv

\* The quotient and the remainder are unique.
LEMMA OutputIs ==
  ASSUME ConstDivTypes, NEW q \in Nat, NEW r \in Nat, r < d, constDiv.X = d * q + r
  PROVE  /\ constDiv.X \div d = q /\ (constDiv.X % d) = r
         /\ Bits(q, QuotientSize - 1, 0) = q
<1>1. PICK w \in Nat, e \in Nat \ {0}, x \in Nat : w = constDiv.wIn /\ e = d /\ x = constDiv.X /\ x < Pow2[w]
  BY DEF ConstDivTypes
<1>2. x \div e = q /\ (x % e) = r
  <2>1. q \in Int /\ r \in 0..(e - 1)
    BY <1>1
  <2> QED BY <1>1, <2>1, DivisionUnique
<1>3. PICK s \in Nat : s = QuotientSize /\ q < Pow2[s]
  <2>1. e * q <= x
    <3>1. e * q \in Nat
      OBVIOUS
    <3> QED BY <1>1, <3>1
  <2>2. (Pow2[w] - 1) \div e \in Nat /\ q < Pow2[IntLog2((Pow2[w] - 1) \div e)]
    BY <1>1, <2>1, LargestQuotient
  <2> QED BY <1>1, <2>2, IntLog2Bounds DEF QuotientSize, Ones
<1>4. Bits(q, s - 1, 0) = q
  <2>1. q \in Int /\ 0 \in Nat /\ (0 + s) - 1 = s - 1
    OBVIOUS
  <2>2. Bits(q, (0 + s) - 1, 0) = (q \div Pow2[0]) % Pow2[s]
    BY <2>1, BitsDef
  <2>3. q \div 1 = q /\ Pow2[0] = 1 /\ Pow2[s] \in Nat \ {0}
    BY Pow2Def
  <2>4. q % Pow2[s] = q
    BY <1>3, <2>3, SmallRemainder
  <2> QED BY <2>1, <2>2, <2>3, <2>4
<1> QED BY <1>1, <1>2, <1>3, <1>4

\* The last sub-quotient and the last remainder are the outputs.
LEMMA OutputInv ==
  ASSUME ConstDivInv, Output
  PROVE  ConstDivInv'
<1>1. /\ ConstDivTypes /\ LinearDivided /\ LevelDivided /\ ~CDIdle
      /\ constDiv.arch = "reciprocal" => remainders = <<>>
      /\ constDivOut' = [Q |-> Bits(quotients[1], QuotientSize - 1, 0), R |-> remainders[1]]
      /\ UNCHANGED <<constDiv, digit, quotients, remainders>>
  BY DEF Output, ConstDivInv
<1>2. PICK q \in Nat, r \in Nat : /\ q = quotients[1] /\ r = remainders[1]
                                  /\ r < d /\ constDiv.X = d * q + r
  <2>0. PICK x \in Nat, w \in Nat : x = constDiv.X /\ w = constDiv.wIn /\ x < Pow2[w]
    BY <1>1 DEF ConstDivTypes
  <2>1. CASE constDiv.arch = "linear" /\ digit = 0
    <3>1. PICK q \in Nat, r \in Nat : /\ quotients = <<q>> /\ remainders = <<r>> /\ r < d
                                      /\ constDiv.X \div Pow2[alpha * digit] = d * q + r
      BY <1>1, <2>1 DEF LinearDivided
    <3>2. alpha * digit = 0 /\ Pow2[0] = 1 /\ x \div 1 = x
      BY <1>1, <2>1, Pow2Def DEF ConstDivTypes
    <3> QED BY <2>0, <3>1, <3>2
  <2>2. CASE constDiv.arch = "log" /\ Len(remainders) = 1
    <3>1. /\ digit \in Nat /\ remainders \in Seq(Nat) /\ quotients \in Seq(Nat)
          /\ w <= 1 * (alpha * Pow2[digit])
          /\ ChunkDivided(alpha * Pow2[digit], 1, quotients[1], remainders[1])
      BY <1>1, <2>0, <2>2 DEF LevelDivided
    <3>2. PICK c \in Nat \ {0} : c = alpha * Pow2[digit] /\ w <= c
      <4>1. alpha * Pow2[digit] \in Nat \ {0}
        BY Zenon, <1>1, <3>1, ChunkSize
      <4>2. PICK c \in Nat \ {0} : c = alpha * Pow2[digit]
        BY Zenon, <4>1
      <4>3. w <= 1 * c
        BY Zenon, <3>1, <4>2
      <4>4. w <= c
        BY <4>3
      <4> QED BY Zenon, <4>2, <4>4
    <3>3. x < Pow2[c]
      <4>1. Pow2[w] <= Pow2[c] /\ Pow2[w] \in Nat /\ Pow2[c] \in Nat
        BY <3>2, Pow2Monotone, Pow2Def
      <4> QED BY <2>0, <4>1
    <3>4. Chunk(x, c, 1) = x
      <4>1. c \in Nat /\ 1 \in Nat \ {0}
        OBVIOUS
      <4> QED BY <3>3, <4>1, ChunkRange
    <3> QED BY <2>0, <3>1, <3>2, <3>4 DEF ChunkDivided
  <2> QED BY <2>1, <2>2 DEF Output
<1>3. constDivOut' = [Q |-> constDiv.X \div d, R |-> constDiv.X % d]
  BY <1>1, <1>2, OutputIs
<1>4. ConstantDivisionIsCorrect'
  BY <1>1, <1>3 DEF ConstantDivisionIsCorrect, d
<1>5. ConstDivTypes' /\ LinearDivided' /\ LevelDivided' /\ ~CDIdle'
      /\ (constDiv'.arch = "reciprocal" => remainders' = <<>>)
  BY <1>1 DEF ConstDivTypes, LinearDivided, LevelDivided, ChunkDivided, CDIdle, d, alpha
<1> QED BY <1>4, <1>5 DEF ConstDivInv

-----------------------------------------------------------------------------
(***************************************************************************)
(* The multiplication by a rounded reciprocal.                             *)
(***************************************************************************)
\* A product by a positive number keeps the order.
LEMMA ProductOrder ==
  ASSUME NEW a \in Nat \ {0}, NEW u \in Int, NEW v \in Int
  PROVE  (a * u < a * v => u < v) /\ (u <= v => a * u <= a * v)
<1>1. u <= v => a * u <= a * v
  OBVIOUS
<1>2. v <= u => a * v <= a * u
  OBVIOUS
<1>3. a * u \in Int /\ a * v \in Int
  OBVIOUS
<1> QED BY <1>1, <1>2, <1>3

\* With a reciprocal n rounded up by u, the product has the quotient above K.
LEMMA RoundedUp ==
  ASSUME NEW e \in Nat \ {0}, NEW K \in Nat \ {0}, NEW u \in Nat, NEW n \in Nat, n * e = K + u,
         NEW h \in Nat, h >= 2, u * (e * h - 1) < K,
         NEW q \in Nat, NEW r \in 0..(e - 1), q <= h, r = e - 1 => q < h
  PROVE  \E t \in 0..(K - 1) : n * (e * q + r) = K * q + t
<1> DEFINE t == u * q + n * r
<1>1. t \in Nat
  <2>1. u * q \in Nat /\ n * r \in Nat
    OBVIOUS
  <2> QED BY <2>1
<1>2. n * (e * q + r) = K * q + t
  <2>1. n * (e * q + r) = (n * e) * q + n * r
    OBVIOUS
  <2>2. (n * e) * q = (K + u) * q
    OBVIOUS
  <2>3. (K + u) * q = K * q + u * q
    OBVIOUS
  <2>4. PICK a \in Int, b \in Int, c \in Int : a = K * q /\ b = u * q /\ c = n * r
    OBVIOUS
  <2> QED BY <2>1, <2>2, <2>3, <2>4
<1>3. e * t = u * (e * q + r) + K * r
  <2>1. e * t = u * (e * q) + (n * e) * r
    OBVIOUS
  <2>2. (n * e) * r = (K + u) * r
    OBVIOUS
  <2>3. (K + u) * r = K * r + u * r /\ u * (e * q + r) = u * (e * q) + u * r
    OBVIOUS
  <2>4. PICK a \in Int, b \in Int, c \in Int : a = K * r /\ b = u * (e * q) /\ c = u * r
    OBVIOUS
  <2> HIDE DEF t
  <2> QED BY <2>1, <2>2, <2>3, <2>4
<1>4. u * (e * q + r) + K * r < e * K
  <2>0. PICK w \in Int : w = u * (e * h - 1) /\ w < K
    OBVIOUS
  <2>1. CASE r = e - 1
    <3>1. e * q + r <= e * h - 1
      <4>1. e * (q + 1) <= e * h /\ e * (q + 1) = e * q + e
        BY <2>1
      <4> QED BY <2>1, <4>1
    <3>2. u * (e * q + r) <= w
      <4>1. PICK a \in Int, b \in Int : a = e * q + r /\ b = e * h - 1
        OBVIOUS
      <4>2. u * a <= u * b
        BY <3>1, <4>1
      <4> QED BY <2>0, <4>1, <4>2
    <3>3. K * r = e * K - K
      BY <2>1
    <3>4. u * (e * q + r) \in Int /\ e * K \in Int
      OBVIOUS
    <3> QED BY <2>0, <3>2, <3>3, <3>4
  <2>2. CASE r # e - 1
    <3>1. e * q + r <= (e * h - 1) + e /\ e <= e * h - 1
      <4>1. e * q <= e * h /\ e * 2 <= e * h
        OBVIOUS
      <4>2. e * q \in Int /\ e * h \in Int
        OBVIOUS
      <4> QED BY <4>1, <4>2
    <3>2. u * (e * q + r) <= w + w
      <4>1. PICK a \in Int, b \in Int : a = e * q + r /\ b = e * h - 1 /\ a <= b + b
        BY <3>1
      <4>2. u * a <= u * (b + b) /\ u * (b + b) = u * b + u * b
        BY <4>1
      <4> QED BY <2>0, <4>1, <4>2
    <3>3. K * (r + 2) <= K * e
      BY <2>2
    <3>4. K * (r + 2) = K * r + (K + K) /\ K * e = e * K
      OBVIOUS
    <3>5. u * (e * q + r) \in Int /\ e * K \in Int /\ K * r \in Int
      OBVIOUS
    <3> QED BY <2>0, <3>2, <3>3, <3>4, <3>5
  <2> QED BY <2>1, <2>2
<1> HIDE DEF t
<1>5. t < K
  <2>1. e * t < e * K
    BY <1>3, <1>4
  <2> QED BY <1>1, <2>1, ProductOrder
<1> QED BY <1>1, <1>2, <1>5

\* With a reciprocal n rounded down by u, the corrected product has it.
LEMMA RoundedDown ==
  ASSUME NEW e \in Nat \ {0}, NEW K \in Nat \ {0}, NEW u \in Nat, NEW n \in Nat, K = e * n + u,
         NEW h \in Nat, h >= 2, u * ((e * h - e) + 1) < K,
         NEW q \in Nat, NEW r \in 0..(e - 1), q <= h
  PROVE  \E t \in 0..(K - 1) : n * (e * q + r) + u * h = K * q + t
<1> DEFINE t == n * r + u * (h - q)
<1>1. t \in Nat
  <2>1. h - q \in Nat
    OBVIOUS
  <2>2. u * (h - q) \in Nat /\ n * r \in Nat
    BY <2>1
  <2> QED BY <2>2
<1>2. n * (e * q + r) + u * h = K * q + t
  <2>1. n * (e * q + r) = (e * n) * q + n * r
    OBVIOUS
  <2>2. K * q = (e * n) * q + u * q
    OBVIOUS
  <2>3. u * (h - q) = u * h - u * q
    OBVIOUS
  <2>4. PICK a \in Int, b \in Int, c \in Int, f \in Int :
          a = (e * n) * q /\ b = u * q /\ c = n * r /\ f = u * h
    OBVIOUS
  <2> QED BY <2>1, <2>2, <2>3, <2>4
<1>3. e * t = K * r + u * (e * h - (e * q + r))
  <2>1. e * t = (e * n) * r + u * (e * h - e * q)
    OBVIOUS
  <2>2. K * r = (e * n) * r + u * r
    OBVIOUS
  <2>3. u * (e * h - (e * q + r)) = u * (e * h - e * q) - u * r
    OBVIOUS
  <2>4. PICK a \in Int, b \in Int, c \in Int : a = (e * n) * r /\ b = u * (e * h - e * q) /\ c = u * r
    OBVIOUS
  <2> HIDE DEF t
  <2> QED BY <2>1, <2>2, <2>3, <2>4
<1>4. K * r + u * (e * h - (e * q + r)) < e * K
  <2>0. PICK w \in Int : w = u * ((e * h - e) + 1) /\ w < K
    OBVIOUS
  <2>01. e * q \in Nat
    OBVIOUS
  <2>1. CASE r = e - 1
    <3>1. e * h - (e * q + r) <= (e * h - e) + 1
      <4>1. e * h \in Int
        OBVIOUS
      <4> QED BY <2>1, <2>01, <4>1
    <3>2. u * (e * h - (e * q + r)) <= w
      <4>1. PICK a \in Int, b \in Int : a = e * h - (e * q + r) /\ b = (e * h - e) + 1
        OBVIOUS
      <4>2. u * a <= u * b
        BY <3>1, <4>1
      <4> QED BY <2>0, <4>1, <4>2
    <3>3. K * r = e * K - K
      BY <2>1
    <3>4. u * (e * h - (e * q + r)) \in Int /\ e * K \in Int
      OBVIOUS
    <3> QED BY <2>0, <3>2, <3>3, <3>4
  <2>2. CASE r # e - 1
    <3>1. e * h - (e * q + r) <= ((e * h - e) + 1) + ((e * h - e) + 1)
      <4>1. e * 2 <= e * h
        OBVIOUS
      <4>2. e * h \in Int
        OBVIOUS
      <4> QED BY <2>01, <4>1, <4>2
    <3>2. u * (e * h - (e * q + r)) <= w + w
      <4>1. PICK a \in Int, b \in Int : a = e * h - (e * q + r) /\ b = (e * h - e) + 1 /\ a <= b + b
        BY <3>1
      <4>2. u * a <= u * (b + b) /\ u * (b + b) = u * b + u * b
        BY <4>1
      <4> QED BY <2>0, <4>1, <4>2
    <3>3. K * (r + 2) <= K * e
      BY <2>2
    <3>4. K * (r + 2) = K * r + (K + K) /\ K * e = e * K
      OBVIOUS
    <3>5. u * (e * h - (e * q + r)) \in Int /\ e * K \in Int /\ K * r \in Int
      OBVIOUS
    <3> QED BY <2>0, <3>2, <3>3, <3>4, <3>5
  <2> QED BY <2>1, <2>2
<1> HIDE DEF t
<1>5. t < K
  <2>1. e * t < e * K
    BY <1>3, <1>4
  <2> QED BY <1>1, <2>1, ProductOrder
<1> QED BY <1>1, <1>2, <1>5

\* No odd divisor but one divides a power of two.
LEMMA OddDivisor ==
  ASSUME NEW e \in Nat \ {0, 1}, e % 2 = 1
  PROVE  \A n \in Nat, m \in Nat : Pow2[n] # e * m
<1> DEFINE R == {n \in Nat : \A m \in Nat : Pow2[n] # e * m}
<1>1. 0 \in R
  <2>1. Pow2[0] = 1
    BY Pow2Def
  <2>2. ASSUME NEW m \in Nat PROVE e * m # 1
    <3>1. m >= 1 => e * m >= e * 1
      OBVIOUS
    <3>2. m = 0 => e * m = 0
      OBVIOUS
    <3> QED BY <3>1, <3>2
  <2> QED BY <2>1, <2>2
<1>2. ASSUME NEW n \in Nat, n \in R PROVE n + 1 \in R
  <2>1. PICK P \in Nat : P = Pow2[n] /\ Pow2[n + 1] = 2 * P
    BY Pow2Def
  <2>2. ASSUME NEW m \in Nat, 2 * P = e * m PROVE FALSE
    <3>1. PICK h \in Nat : e = 2 * h + 1
      OBVIOUS
    <3>2. PICK j \in Nat, b \in 0..1 : m = 2 * j + b
      <4>1. (m \div 2) \in Nat /\ (m % 2) \in 0..1 /\ m = 2 * (m \div 2) + (m % 2)
        OBVIOUS
      <4> QED BY ZenonT(40), <4>1
    <3>3. e * m = 2 * (e * j) + e * b
      BY <3>2
    <3>4. b = 0
      <4>1. b = 1 => e * b = 2 * h + 1
        BY <3>1
      <4>2. PICK a \in Int : a = e * j
        OBVIOUS
      <4> QED BY <2>2, <3>1, <3>2, <3>3, <4>1, <4>2
    <3>5. P = e * j
      <4>1. e * b = 0
        BY <3>4
      <4>2. PICK a \in Int : a = e * j
        OBVIOUS
      <4> QED BY <2>2, <3>3, <4>1, <4>2
    <3> QED BY <1>2, <2>1, <3>5
  <2> QED BY <1>2, <2>1, <2>2
<1> HIDE DEF R
<1>3. \A n \in Nat : n \in R
  BY <1>1, <1>2, Induction
<1> QED BY <1>3 DEF R

\* The remainders of the powers of two by 2^m - 1 are powers of two.
LEMMA Pow2Remainder ==
  ASSUME NEW m \in Nat \ {0, 1}
  PROVE  \A k \in Nat : \E i \in 0..(m - 1) : Pow2[k] % (Pow2[m] - 1) = Pow2[i]
<1> DEFINE R == {k \in Nat : \E i \in 0..(m - 1), q \in Int : Pow2[k] = (Pow2[m] - 1) * q + Pow2[i]}
<1>0. PICK M \in Nat \ {0} : M = Pow2[m] /\ M >= 4
  <2>1. Pow2[2] <= Pow2[m]
    BY Pow2Monotone
  <2>2. Pow2[0 + 1] = 2 * Pow2[0] /\ Pow2[1 + 1] = 2 * Pow2[1] /\ Pow2[0] = 1 /\ 0 + 1 = 1 /\ 1 + 1 = 2
    BY Pow2Def
  <2>3. Pow2[1] = 2 /\ Pow2[2] = 4
    BY <2>2
  <2> QED BY <2>1, <2>3, Pow2Def
<1>1. 0 \in R
  <2>1. Pow2[0] = (M - 1) * 0 + Pow2[0]
    BY Pow2Def
  <2> QED BY <1>0, <2>1
<1>2. ASSUME NEW k \in Nat, k \in R PROVE k + 1 \in R
  <2>1. PICK i \in 0..(m - 1), q \in Int : Pow2[k] = (M - 1) * q + Pow2[i]
    BY <1>0, <1>2
  <2>2. PICK P \in Nat, U \in Nat : P = Pow2[k] /\ U = Pow2[i] /\ Pow2[k + 1] = 2 * P /\ Pow2[i + 1] = 2 * U
    BY Pow2Def
  <2>3. 2 * P = (M - 1) * (2 * q) + 2 * U
    <3>1. (M - 1) * (2 * q) = 2 * ((M - 1) * q)
      OBVIOUS
    <3>2. PICK a \in Int : a = (M - 1) * q
      OBVIOUS
    <3> QED BY <2>1, <2>2, <3>1, <3>2
  <2>4. CASE i + 1 \in 0..(m - 1)
    <3>1. Pow2[k + 1] = (M - 1) * (2 * q) + Pow2[i + 1] /\ 2 * q \in Int
      BY <2>2, <2>3
    <3> QED BY <1>0, <2>4, <3>1
  <2>5. CASE i + 1 \notin 0..(m - 1)
    <3>1. i + 1 = m
      BY <2>5
    <3>2. 2 * P = (M - 1) * (2 * q + 1) + 1
      <4>1. (M - 1) * (2 * q + 1) = (M - 1) * (2 * q) + (M - 1)
        OBVIOUS
      <4>2. PICK a \in Int : a = (M - 1) * (2 * q)
        OBVIOUS
      <4>3. 2 * U = M
        BY Zenon, <1>0, <2>2, <3>1
      <4>4. 2 * P = a + 2 * U
        BY <2>3, <4>2
      <4> QED BY <4>1, <4>2, <4>3, <4>4
    <3>3. Pow2[k + 1] = (M - 1) * (2 * q + 1) + Pow2[0] /\ 2 * q + 1 \in Int /\ 0 \in 0..(m - 1)
      BY <2>2, <3>2, Pow2Def
    <3> QED BY <1>0, <3>3
  <2> QED BY <2>4, <2>5
<1> HIDE DEF R
<1>3. \A k \in Nat : k \in R
  BY <1>1, <1>2, Induction
<1>4. ASSUME NEW k \in Nat PROVE \E i \in 0..(m - 1) : Pow2[k] % (M - 1) = Pow2[i]
  <2>1. PICK i \in 0..(m - 1), q \in Int : Pow2[k] = (M - 1) * q + Pow2[i]
    BY <1>0, <1>3 DEF R
  <2>2. Pow2[i] \in 0..((M - 1) - 1)
    <3>1. PICK j \in Nat : j + 1 = m /\ i <= j
      <4>1. m - 1 \in Nat /\ (m - 1) + 1 = m /\ i <= m - 1
        OBVIOUS
      <4> QED BY <4>1
    <3>2. Pow2[i] <= Pow2[j] /\ Pow2[j + 1] = 2 * Pow2[j] /\ Pow2[j] \in Nat /\ Pow2[i] \in Nat
      BY <3>1, Pow2Monotone, Pow2Def
    <3> QED BY <1>0, <3>1, <3>2
  <2>3. M - 1 \in Nat \ {0}
    BY <1>0
  <2>4. ((M - 1) * q + Pow2[i]) % (M - 1) = Pow2[i]
    BY <2>2, <2>3, DivisionUnique
  <2> QED BY <2>1, <2>4
<1> QED BY <1>0, <1>4

\* The number of bits of a number between two powers of two.
LEMMA IntLog2Between ==
  ASSUME NEW v \in Nat, NEW m \in Nat, Pow2[m] <= v, v < Pow2[m + 1]
  PROVE  IntLog2(v) = m + 1
<1>1. v # 0 /\ m + 1 # 0 /\ (m + 1) - 1 = m /\ m + 1 \in Nat
  BY Pow2Def
<1>2. Log2Bits(v, m + 1)
  BY <1>1 DEF Log2Bits
<1>3. Log2Bits(v, IntLog2(v))
  BY IntLog2Is
<1> QED BY <1>2, <1>3, Log2Unique

\* Slicing the bits above k gives the quotient of the product.
LEMMA SliceAbove ==
  ASSUME NEW k \in Nat, NEW s \in Nat, NEW q \in Nat, q < Pow2[s],
         NEW t \in 0..(Pow2[k] - 1), NEW v, v = Pow2[k] * q + t
  PROVE  Bits(v % Pow2[k + s], (k + s) - 1, (k + s) - s) = q
<1>1. PICK K \in Nat \ {0}, P \in Nat \ {0} : K = Pow2[k] /\ P = Pow2[s] /\ K * P = Pow2[k + s]
  <2>1. Pow2[k + s] = Pow2[k] * Pow2[s]
    BY Pow2Sum
  <2> QED BY <2>1, Pow2Def
<1>2. v \in Nat /\ v < K * P /\ K * P \in Nat \ {0}
  <2>1. K * q \in Nat /\ K * P \in Nat \ {0}
    OBVIOUS
  <2>2. K * (q + 1) <= K * P /\ K * (q + 1) = K * q + K
    <3>1. q + 1 <= P
      BY <1>1
    <3>2. K * (q + 1) = K * q + K
      OBVIOUS
    <3> QED BY <3>1, <3>2, ProductOrder
  <2> QED BY <1>1, <2>1, <2>2
<1>3. v % (K * P) = v
  BY <1>2, SmallRemainder
<1>4. v \div K = q
  <2>1. t \in 0..(K - 1) /\ q \in Int
    BY <1>1
  <2>2. (K * q + t) \div K = q
    BY <2>1, DivisionUnique
  <2> QED BY <1>1, <2>2
<1>5. q % P = q
  BY <1>1, SmallRemainder
<1>6. (k + s) - s = k
  OBVIOUS
<1>7. Bits(v, (k + s) - 1, k) = (v \div Pow2[k]) % Pow2[s]
  <2>1. v \in Int
    BY <1>2
  <2> QED BY <2>1, BitsDef
<1> QED BY <1>1, <1>3, <1>4, <1>5, <1>6, <1>7

-----------------------------------------------------------------------------
\* The product by a reciprocal n rounded down by u has as many bits as the
\* quotient and k more, though the correction is not counted in them.
LEMMA RoundedDownWidth ==
  ASSUME NEW w \in Nat, NEW e \in Nat \ {0, 1, 2}, e % 2 = 1, 2 * e <= Pow2[w],
         NEW k \in Nat, NEW n \in Nat, NEW u \in Nat, Pow2[k] = e * n + u, u = Pow2[k] % e,
         NEW h \in Nat, NEW m \in 1..(e - 1), Pow2[w] = e * h + m,
         u * ((e * h - e) + 1) < Pow2[k],
         NEW s \in Nat, Pow2[s] <= h
  PROVE  Pow2[k] * Pow2[s] <= n * (Pow2[w] - 1)
<1>1. PICK K \in Nat \ {0}, P \in Nat \ {0}, W \in Nat \ {0} : K = Pow2[k] /\ P = Pow2[s] /\ W = Pow2[w]
  BY Pow2Def
<1>2. PICK a \in Int : a = u * ((e * h - e) + 1) /\ a < K
  <2>1. u * ((e * h - e) + 1) < K
    BY Zenon, <1>1
  <2>2. u * ((e * h - e) + 1) \in Int
    OBVIOUS
  <2> QED BY Zenon, <2>1, <2>2
<1>3. h >= 2
  <2>1. h <= 1 => e * h <= e * 1
    OBVIOUS
  <2>2. e * 2 <= W
    BY <1>1
  <2>3. W # e * 2
    <3>1. Pow2[w] # e * 2
      <4>1. e \in Nat \ {0, 1} /\ w \in Nat /\ 2 \in Nat
        OBVIOUS
      <4> QED BY <4>1, OddDivisor
    <3> QED BY <1>1, <3>1
  <2>4. W = e * h + m
    BY <1>1
  <2>5. e * h \in Int
    OBVIOUS
  <2> QED BY <2>1, <2>2, <2>3, <2>4, <2>5
<1>4. e * (n * (W - 1)) = e * (K * h) + (K * (m - 1) - u * (W - 1))
  <2>1. e * (n * (W - 1)) = (e * n) * (W - 1)
    OBVIOUS
  <2>2. e * n = K - u
    <3>1. K = e * n + u
      BY Zenon, <1>1
    <3>2. e * n \in Int
      OBVIOUS
    <3> QED BY <3>1, <3>2
  <2>3. (K - u) * (W - 1) = K * (W - 1) - u * (W - 1)
    OBVIOUS
  <2>4. K * (W - 1) = K * (e * h) + K * (m - 1)
    <3>1. W - 1 = e * h + (m - 1)
      BY <1>1
    <3>2. K * (e * h + (m - 1)) = K * (e * h) + K * (m - 1)
      OBVIOUS
    <3> QED BY <3>1, <3>2
  <2>5. K * (e * h) = e * (K * h)
    OBVIOUS
  <2>6. PICK b \in Int, c \in Int, f \in Int : b = e * (K * h) /\ c = K * (m - 1) /\ f = u * (W - 1)
    OBVIOUS
  <2>7. e * (n * (W - 1)) = K * (W - 1) - f
    BY Zenon, <2>1, <2>2, <2>3, <2>6
  <2>8. K * (W - 1) = b + c
    BY Zenon, <2>4, <2>5, <2>6
  <2>9. (b + c) - f = b + (c - f)
    OBVIOUS
  <2> QED BY Zenon, <2>6, <2>7, <2>8, <2>9
<1>5. SUFFICES u * (W - 1) <= e * (K * (h - P)) + K * (m - 1)
  <2>1. e * (K * h) = e * (K * P) + e * (K * (h - P))
    OBVIOUS
  <2>2. PICK b \in Int, c \in Int, f \in Int, g \in Int :
          b = e * (K * P) /\ c = K * (m - 1) /\ f = u * (W - 1) /\ g = e * (K * (h - P))
    OBVIOUS
  <2>3. PICK y \in Int, z \in Int : y = K * P /\ z = n * (W - 1)
    OBVIOUS
  <2>4. f <= g + c
    BY Zenon, <2>2
  <2>5. e * z = (b + g) + (c - f)
    BY Zenon, <1>4, <2>1, <2>2, <2>3
  <2>6. e * y = b
    BY Zenon, <2>2, <2>3
  <2>7. ~(e * z < e * y)
    BY <2>4, <2>5, <2>6
  <2>8. z < y => e * z < e * y
    OBVIOUS
  <2>9. y <= z
    BY <2>7, <2>8
  <2> QED BY Zenon, <1>1, <2>3, <2>9
<1>6. u * (W - 1) <= 3 * a
  <2>1. W - 1 <= 3 * ((e * h - e) + 1)
    <3>1. e * 2 <= e * h
      BY <1>3
    <3>2. PICK b \in Int : b = e * h
      OBVIOUS
    <3>3. W = b + m
      BY <1>1, <3>2
    <3> QED BY <3>1, <3>2, <3>3
  <2>2. PICK b \in Int, c \in Int : b = W - 1 /\ c = (e * h - e) + 1
    OBVIOUS
  <2>3. u \in Nat /\ b <= 3 * c
    BY <2>1, <2>2
  <2>4. u * b <= u * (3 * c)
    BY <2>3
  <2>5. u * (3 * c) = 3 * (u * c)
    OBVIOUS
  <2> QED BY <1>2, <2>2, <2>4, <2>5
<1>7. CASE h # P
  <2>1. h - P >= 1
    BY <1>1, <1>7
  <2>2. K <= K * (h - P)
    <3>1. K * 1 <= K * (h - P)
      BY <2>1
    <3> QED BY <3>1
  <2>3. 3 * K <= e * (K * (h - P))
    <3>1. PICK b \in Int : b = K * (h - P) /\ b >= K
      BY <2>2
    <3>2. 3 * b <= e * b
      BY <3>1
    <3> QED BY <3>1, <3>2
  <2>4. K * (m - 1) >= 0
    OBVIOUS
  <2>5. PICK b \in Int, c \in Int, f \in Int : b = u * (W - 1) /\ c = K * (m - 1) /\ f = e * (K * (h - P))
    OBVIOUS
  <2>6. b <= 3 * a /\ 3 * K <= f /\ c >= 0
    BY Zenon, <1>6, <2>3, <2>4, <2>5
  <2>7. b <= f + c
    BY <1>2, <2>6
  <2> QED BY Zenon, <2>5, <2>7
<1>8. CASE h = P
  <2>0. e * (K * (h - P)) = 0
    BY <1>8
  <2>1. s # 0
    <3>1. Pow2[0] = 1
      BY Pow2Def
    <3> QED BY <1>1, <1>3, <1>8, <3>1
  <2>2. PICK b \in Nat : b + 1 = s
    <3>1. s - 1 \in Nat /\ (s - 1) + 1 = s
      BY <2>1
    <3> QED BY <3>1
  <2>3. w # 0
    <3>1. Pow2[0] = 1
      BY Pow2Def
    <3> QED BY <3>1
  <2>4. PICK c \in Nat : c + 1 = w
    <3>1. w - 1 \in Nat /\ (w - 1) + 1 = w
      BY <2>3
    <3> QED BY <3>1
  <2>5. PICK B \in Nat \ {0}, C \in Nat \ {0} : B = Pow2[b] /\ C = Pow2[c] /\ P = 2 * B /\ W = 2 * C
    <3>1. Pow2[b + 1] = 2 * Pow2[b] /\ Pow2[c + 1] = 2 * Pow2[c]
      BY Pow2Def
    <3> QED BY <1>1, <2>2, <2>4, <3>1, Pow2Def
  <2>6. 2 * C = 2 * (e * B) + m
    <3>1. e * (2 * B) = 2 * (e * B)
      OBVIOUS
    <3>2. W = e * (2 * B) + m
      BY Zenon, <1>1, <1>8, <2>5
    <3> QED BY Zenon, <2>5, <3>1, <3>2
  <2>7. PICK f \in Nat : m = 2 * f
    <3>1. PICK g \in Int : g = e * B
      OBVIOUS
    <3>2. m = 2 * (C - g)
      BY <2>6, <3>1
    <3>3. C - g \in Nat
      BY <3>1, <3>2
    <3> QED BY <3>2, <3>3
  <2>8. CASE f # 1
    <3>1. m >= 4
      BY <2>7, <2>8
    <3>2. K * 3 <= K * (m - 1)
      BY <3>1
    <3>3. PICK c1 \in Int, f1 \in Int : c1 = K * (m - 1) /\ f1 = u * (W - 1)
      OBVIOUS
    <3>4. K * 3 <= c1 /\ f1 <= 3 * a
      BY Zenon, <1>6, <3>2, <3>3
    <3>5. f1 <= 0 + c1
      BY <1>2, <3>4
    <3> QED BY Zenon, <2>0, <3>3, <3>5
  <2>9. CASE f = 1
    <3>1. m = 2 /\ C = e * B + 1
      <4>1. PICK g \in Int : g = e * B
        OBVIOUS
      <4> QED BY <2>6, <2>7, <2>9, <4>1
    <3>2. b = 0
      <4> SUFFICES ASSUME b # 0 PROVE FALSE
        OBVIOUS
      <4>1. b - 1 \in Nat /\ (b - 1) + 1 = b
        OBVIOUS
      <4>2. PICK F \in Nat : B = 2 * F
        <5>1. PICK j \in Nat : j + 1 = b
          BY <4>1
        <5>2. Pow2[j + 1] = 2 * Pow2[j] /\ Pow2[j] \in Nat
          BY Pow2Def
        <5> QED BY Zenon, <2>5, <5>1, <5>2
      <4>3. C = 2 * (e * F) + 1 /\ e * F \in Nat
        BY <3>1, <4>2
      <4>4. c # 0
        <5>1. c = 0 => C = 1
          BY <2>5, Pow2Def
        <5>2. e * F # 0
          BY <2>5, <4>2
        <5> QED BY <4>3, <5>1, <5>2
      <4>5. c - 1 \in Nat /\ (c - 1) + 1 = c
        BY <4>4
      <4>6. PICK H \in Nat : C = 2 * H
        <5>1. PICK j \in Nat : j + 1 = c
          BY <4>5
        <5>2. Pow2[j + 1] = 2 * Pow2[j] /\ Pow2[j] \in Nat
          BY Pow2Def
        <5> QED BY Zenon, <2>5, <5>1, <5>2
      <4> QED BY <4>3, <4>6
    <3>3. B = 1 /\ P = 2 /\ C = e + 1
      BY <2>5, <3>1, <3>2, Pow2Def
    <3>4. c \in Nat \ {0, 1}
      <4>1. Pow2[0] = 1 /\ Pow2[0 + 1] = 2 * Pow2[0] /\ 0 + 1 = 1
        BY Pow2Def
      <4>2. Pow2[1] = 2
        BY <4>1
      <4>3. C >= 4
        BY <3>3
      <4>4. c # 0 /\ c # 1
        BY <2>5, <4>1, <4>2, <4>3
      <4> QED BY <4>4
    <3>5. PICK i \in 0..(c - 1) : u = Pow2[i]
      <4>1. \A j \in Nat : \E i \in 0..(c - 1) : Pow2[j] % (Pow2[c] - 1) = Pow2[i]
        BY <3>4, Pow2Remainder
      <4>2. Pow2[c] - 1 = e
        BY <2>5, <3>3
      <4> QED BY <4>1, <4>2
    <3>6. Pow2[i + c] < Pow2[k]
      <4>1. (e * h - e) + 1 = C
        BY <1>8, <3>3
      <4>2. u * C < K
        BY <1>2, <4>1
      <4>3. Pow2[i + c] = Pow2[i] * Pow2[c]
        BY Pow2Sum
      <4> QED BY <1>1, <2>5, <3>5, <4>2, <4>3
    <3>7. (i + c) + 1 <= k
      <4> SUFFICES ASSUME ~((i + c) + 1 <= k) PROVE FALSE
        OBVIOUS
      <4>1. k <= i + c /\ i + c \in Nat
        OBVIOUS
      <4>2. Pow2[k] <= Pow2[i + c] /\ Pow2[k] \in Nat /\ Pow2[i + c] \in Nat
        BY <4>1, Pow2Monotone, Pow2Def
      <4> QED BY <3>6, <4>2
    <3>8. u * W <= K
      <4>1. (i + c) + 1 = i + w /\ i + w \in Nat /\ i + w <= k
        BY <2>4, <3>7
      <4>2. Pow2[i + w] <= Pow2[k]
        BY <4>1, Pow2Monotone
      <4>3. Pow2[i + w] = Pow2[i] * Pow2[w]
        BY Pow2Sum
      <4> QED BY <1>1, <3>5, <4>2, <4>3
    <3>9. u * (W - 1) <= u * W
      OBVIOUS
    <3>10. K * (m - 1) = K
      BY <3>1
    <3>11. u * W \in Int /\ u * (W - 1) \in Int
      OBVIOUS
    <3> QED BY <2>0, <3>8, <3>9, <3>10, <3>11
  <2> QED BY <2>8, <2>9
<1> QED BY <1>7, <1>8

\* The divisor, the largest quotient, and the size of the quotients.
Divider(w, e, h, m, s) ==
  /\ w = constDiv.wIn /\ e = d /\ h = T0
  /\ h >= 2 /\ Pow2[w] = e * h + m
  /\ QuotientSize = s + 1 /\ Pow2[s] <= h /\ h < Pow2[s + 1]

\* The largest quotient is above 1, and the divisor does not divide the power of two.
LEMMA DividerIs ==
  ASSUME ConstDivTypes, constDiv.arch = "reciprocal"
  PROVE  \E w \in Nat, e \in Nat \ {0, 1, 2}, h \in Nat, m \in 1..(d - 1), s \in Nat : Divider(w, e, h, m, s)
<1>1. PICK w \in Nat, e \in Nat \ {0, 1, 2} :
        w = constDiv.wIn /\ e = d /\ e % 2 = 1 /\ 2 * e <= Pow2[w]
  BY DEF ConstDivTypes
<1>2. PICK W \in Nat \ {0} : W = Pow2[w]
  BY Pow2Def
<1>3. PICK h \in Nat, m \in 0..(e - 1) : W = e * h + m /\ h = W \div e
  <2>1. W \in Nat /\ e \in Nat \ {0}
    OBVIOUS
  <2> QED BY ZenonT(40), <2>1, NaturalDivision
<1>4. m # 0
  <2> SUFFICES ASSUME m = 0 PROVE FALSE
    OBVIOUS
  <2>1. e * h + 0 = e * h
    OBVIOUS
  <2>2. Pow2[w] = e * h
    BY Zenon, <1>2, <1>3, <2>1
  <2>3. e \in Nat \ {0, 1}
    OBVIOUS
  <2> QED BY <1>1, <2>2, <2>3, OddDivisor
<1>5. h >= 2
  <2>1. e * 2 <= W
    BY <1>1, <1>2
  <2>2. 2 <= W \div e
    <3>1. W \in Int /\ 2 \in Int /\ e \in Nat \ {0}
      OBVIOUS
    <3> QED BY <2>1, <3>1, QuotientMonotone
  <2> QED BY <1>3, <2>2
<1>6. (W - 1) \div e = h
  <2>1. m - 1 \in 0..(e - 1) /\ W - 1 = e * h + (m - 1)
    <3>1. PICK b \in Int : b = e * h
      OBVIOUS
    <3>2. W = b + m
      BY Zenon, <1>3, <3>1
    <3>3. m - 1 \in 0..(e - 1) /\ W - 1 = b + (m - 1)
      BY <1>4, <3>2
    <3> QED BY Zenon, <3>1, <3>3
  <2>2. h \in Int /\ e \in Nat \ {0}
    OBVIOUS
  <2>3. (e * h + (m - 1)) \div e = h
    BY <2>1, <2>2, DivisionUnique
  <2> QED BY Zenon, <2>1, <2>3
<1>7. QuotientSize = IntLog2(h)
  BY Zenon, <1>1, <1>2, <1>6 DEF QuotientSize, Ones
<1>8. PICK s \in Nat : IntLog2(h) = s + 1 /\ Pow2[s] <= h /\ h < Pow2[s + 1]
  <2>1. IntLog2(h) \in Nat /\ h < Pow2[IntLog2(h)] /\ IntLog2(h) # 0 /\ Pow2[IntLog2(h) - 1] <= h
    BY <1>5, IntLog2Bounds
  <2>2. IntLog2(h) - 1 \in Nat /\ (IntLog2(h) - 1) + 1 = IntLog2(h)
    BY <2>1
  <2> QED BY <2>1, <2>2
<1>9. T0 = h
  BY <1>1, <1>2, <1>3 DEF T0
<1>10. m \in 1..(d - 1)
  BY <1>1, <1>4
<1>11. Pow2[w] = e * h + m
  BY Zenon, <1>2, <1>3
<1>12. Divider(w, e, h, m, s)
  BY <1>1, <1>5, <1>7, <1>8, <1>9, <1>11 DEF Divider
<1> QED BY <1>10, <1>12

\* The quotient and the remainder that are expected, and the last step to them.
ExpectedOutputs(e, h, q, r) ==
  /\ constDiv.X = e * q + r /\ q = constDiv.X \div d /\ r = constDiv.X % d
  /\ q <= h /\ (r = e - 1 => q < h)
  /\ Bits((constDiv.X - q * d) % Pow2[constDiv.wIn], RSize - 1, 0) = r

\* The remainder that is computed from the quotient fits its output.
LEMMA ExpectedOutputsAre ==
  ASSUME ConstDivTypes, constDiv.arch = "reciprocal",
         NEW w \in Nat, NEW e \in Nat \ {0, 1, 2}, NEW h \in Nat, NEW m \in 1..(d - 1), NEW s \in Nat,
         Divider(w, e, h, m, s)
  PROVE  \E q \in Nat, r \in 0..(e - 1) : ExpectedOutputs(e, h, q, r)
<1>1. PICK x \in Nat, W \in Nat \ {0} :
        x = constDiv.X /\ W = Pow2[w] /\ x < W /\ w = constDiv.wIn /\ e = d /\ W = e * h + m /\ m < e
  <2>1. w = constDiv.wIn /\ e = d /\ Pow2[w] = e * h + m
    BY DEF Divider
  <2>2. m < e
    BY <2>1
  <2> QED BY <2>1, <2>2, Pow2Def DEF ConstDivTypes
<1>2. PICK q \in Nat, r \in 0..(e - 1) : x = e * q + r /\ q = x \div e /\ r = x % e /\ r <= x
  <2>1. e \in Nat \ {0}
    OBVIOUS
  <2> QED BY ZenonT(40), <2>1, NaturalDivision
<1>3. q <= h
  <2> SUFFICES ASSUME h + 1 <= q PROVE FALSE
    OBVIOUS
  <2>1. e * (h + 1) <= e * q /\ e * (h + 1) = e * h + e
    OBVIOUS
  <2>2. PICK a \in Int, b \in Int : a = e * h /\ b = e * q
    OBVIOUS
  <2>3. x = b + r /\ W = a + m /\ a + e <= b
    BY Zenon, <1>1, <1>2, <2>1, <2>2
  <2> QED BY <1>1, <2>3
<1>4. ASSUME r = e - 1 PROVE q < h
  <2> SUFFICES ASSUME q = h PROVE FALSE
    BY <1>3
  <2>1. PICK a \in Int : a = e * h
    OBVIOUS
  <2>2. x = a + r /\ W = a + m
    BY Zenon, <1>1, <1>2, <2>1
  <2> QED BY <1>1, <1>4, <2>2
<1>5. x - q * e = r
  <2>1. PICK a \in Int : a = e * q
    OBVIOUS
  <2>2. q * e = e * q
    OBVIOUS
  <2>3. x = a + r /\ q * e = a
    BY Zenon, <1>2, <2>1, <2>2
  <2> QED BY <2>3
<1>6. r % W = r
  <2>1. r \in 0..(W - 1) /\ r \in Int
    BY <1>1, <1>2
  <2> QED BY <2>1, SmallRemainder
<1>7. PICK z \in Nat : z = RSize /\ r < Pow2[z]
  <2>1. e - 1 \in Nat /\ r <= e - 1
    OBVIOUS
  <2>2. IntLog2(e - 1) \in Nat /\ e - 1 < Pow2[IntLog2(e - 1)] /\ Pow2[IntLog2(e - 1)] \in Nat
    BY <2>1, IntLog2Bounds, Pow2Def
  <2> QED BY <1>1, <2>1, <2>2 DEF RSize
<1>8. Bits(r, z - 1, 0) = r
  <2>1. r \in Int /\ 0 \in Nat /\ (0 + z) - 1 = z - 1
    OBVIOUS
  <2>2. Bits(r, (0 + z) - 1, 0) = (r \div Pow2[0]) % Pow2[z]
    BY <2>1, BitsDef
  <2>3. r \div 1 = r /\ Pow2[0] = 1 /\ Pow2[z] \in Nat \ {0}
    BY Pow2Def
  <2>4. r % Pow2[z] = r
    BY <1>7, <2>3, SmallRemainder
  <2> QED BY <2>1, <2>2, <2>3, <2>4
<1>9. Bits((constDiv.X - q * d) % Pow2[constDiv.wIn], RSize - 1, 0) = r
  BY Zenon, <1>1, <1>5, <1>6, <1>7, <1>8
<1>10. ExpectedOutputs(e, h, q, r)
  BY Zenon, <1>1, <1>2, <1>3, <1>4, <1>9 DEF ExpectedOutputs
<1> QED BY <1>10

\* The search for the smallest k ends: the last one that is tried will do.
LEMMA LeastFound ==
  ASSUME NEW N \in Nat, NEW R \in SUBSET (1..N), R # {}
  PROVE  \E k \in 1..N : k \in R /\ \A j \in 1..(k - 1) : j \notin R
<1>1. R \in SUBSET Nat
  OBVIOUS
<1>2. PICK k \in R : \A j \in R : k <= j
  BY <1>1, LeastNatural
<1>3. k \in 1..N /\ k \in Nat
  OBVIOUS
<1>4. \A j \in 1..(k - 1) : j \notin R
  <2> TAKE j \in 1..(k - 1)
  <2>1. j < k
    BY <1>3
  <2> QED BY <1>2, <1>3, <2>1
<1> QED BY <1>3, <1>4

FoundUp(k) == (((d - 1) * Pow2[k]) % d) * (d * T0 - 1) < Pow2[k]
FoundDown(k) == (Pow2[k] % d) * (d * T0 - d + 1) < Pow2[k]

\* For k = 2 wIn both roundings are precise enough.
LEMMA LargeEnough ==
  ASSUME ConstDivTypes, constDiv.arch = "reciprocal"
  PROVE  /\ 2 * constDiv.wIn \in 1..(2 * constDiv.wIn + 2)
         /\ FoundUp(2 * constDiv.wIn) /\ FoundDown(2 * constDiv.wIn)
<1>1. PICK w \in Nat, e \in Nat \ {0, 1, 2}, h \in Nat, m \in 1..(d - 1), s \in Nat : Divider(w, e, h, m, s)
  BY DividerIs
<1>2. PICK W \in Nat \ {0} : /\ W = Pow2[w] /\ w = constDiv.wIn /\ e = d /\ h = T0 /\ h >= 2 /\ W = e * h + m
                             /\ e < W /\ w # 0 /\ m \in 1..(e - 1)
  BY <1>1, Pow2Def DEF Divider, ConstDivTypes
<1>3. Pow2[2 * w] = W * W
  <2>1. w + w = 2 * w
    OBVIOUS
  <2>2. Pow2[w + w] = Pow2[w] * Pow2[w]
    BY Pow2Sum
  <2> QED BY <1>2, <2>1, <2>2
<1>4. ASSUME NEW u \in 0..(e - 1), NEW v \in 0..W PROVE u * v < W * W
  <2>1. u * v <= u * W
    OBVIOUS
  <2>2. u * W < W * W
    BY <1>2
  <2>3. u * v \in Int /\ u * W \in Int /\ W * W \in Int
    OBVIOUS
  <2> QED BY <2>1, <2>2, <2>3
<1>5. PICK a \in Nat : a = e * h /\ W = a + m /\ e * 2 <= a
  <2>1. e * 2 <= e * h /\ e * h \in Nat
    BY <1>2
  <2> QED BY <1>2, <2>1
<1>6. FoundUp(2 * w)
  <2>1. PICK u \in 0..(e - 1) : u = ((e - 1) * (W * W)) % e
    <3>1. (e - 1) * (W * W) \in Int
      OBVIOUS
    <3> QED BY <3>1
  <2>2. a - 1 \in 0..W
    BY <1>2, <1>5
  <2>3. u * (a - 1) < W * W
    BY <1>4, <2>2
  <2> QED BY Zenon, <1>2, <1>3, <1>5, <2>1, <2>3 DEF FoundUp
<1>7. FoundDown(2 * w)
  <2>1. PICK u \in 0..(e - 1) : u = (W * W) % e
    <3>1. W * W \in Int
      OBVIOUS
    <3> QED BY <3>1
  <2>2. a - e + 1 \in 0..W
    BY <1>2, <1>5
  <2>3. u * (a - e + 1) < W * W
    BY <1>4, <2>2
  <2> QED BY Zenon, <1>2, <1>3, <1>5, <2>1, <2>3 DEF FoundDown
<1>8. 2 * w \in 1..(2 * w + 2)
  BY <1>2
<1> QED BY Zenon, <1>2, <1>6, <1>7, <1>8

\* So there is a smallest k.
LEMMA OptKIs ==
  ASSUME ConstDivTypes, constDiv.arch = "reciprocal"
  PROVE  /\ OptKP \in Nat /\ FoundUp(OptKP)
         /\ OptKM \in Nat /\ FoundDown(OptKM)
<1> DEFINE N == 2 * constDiv.wIn + 2
           P == {k \in 1..N : FoundUp(k)}
           M == {k \in 1..N : FoundDown(k)}
<1>1. N \in Nat
  BY DEF ConstDivTypes
<1>2. P \in SUBSET (1..N) /\ P # {} /\ M \in SUBSET (1..N) /\ M # {}
  BY LargeEnough
<1> HIDE DEF P, M, N
<1>3. \E k \in 1..N : k \in P /\ \A j \in 1..(k - 1) : j \notin P
  BY <1>1, <1>2, LeastFound
<1>4. \E k \in 1..N : k \in M /\ \A j \in 1..(k - 1) : j \notin M
  BY <1>1, <1>2, LeastFound
<1>5. \A k \in 1..N, j \in Int : j \in 1..(k - 1) => j \in 1..N
  BY <1>1
<1>6. \E k \in 1..N : FoundUp(k) /\ \A j \in 1..(k - 1) : ~FoundUp(j)
  <2>1. PICK k \in 1..N : k \in P /\ \A j \in 1..(k - 1) : j \notin P
    BY <1>3
  <2>2. FoundUp(k)
    BY <2>1 DEF P
  <2>3. \A j \in 1..(k - 1) : ~FoundUp(j)
    <3> TAKE j \in 1..(k - 1)
    <3>1. j \in 1..N /\ j \notin P
      BY <1>5, <2>1
    <3> QED BY Zenon, <3>1 DEF P
  <2> QED BY Zenon, <2>2, <2>3
<1>7. \E k \in 1..N : FoundDown(k) /\ \A j \in 1..(k - 1) : ~FoundDown(j)
  <2>1. PICK k \in 1..N : k \in M /\ \A j \in 1..(k - 1) : j \notin M
    BY <1>4
  <2>2. FoundDown(k)
    BY <2>1 DEF M
  <2>3. \A j \in 1..(k - 1) : ~FoundDown(j)
    <3> TAKE j \in 1..(k - 1)
    <3>1. j \in 1..N /\ j \notin M
      BY <1>5, <2>1
    <3> QED BY Zenon, <3>1 DEF M
  <2> QED BY Zenon, <2>2, <2>3
<1>8. OptKP = CHOOSE k \in 1..N : FoundUp(k) /\ \A j \in 1..(k - 1) : ~FoundUp(j)
  BY Zenon DEF OptKP, LeastK, FoundUp, N
<1>9. OptKM = CHOOSE k \in 1..N : FoundDown(k) /\ \A j \in 1..(k - 1) : ~FoundDown(j)
  BY Zenon DEF OptKM, LeastK, FoundDown, N
<1>10. OptKP \in 1..N /\ FoundUp(OptKP)
  BY Zenon, <1>6, <1>8
<1>11. OptKM \in 1..N /\ FoundDown(OptKM)
  BY Zenon, <1>7, <1>9
<1>12. 1..N \subseteq Nat
  BY <1>1
<1> QED BY <1>10, <1>11, <1>12

\* The width of the product.
LEMMA ProductWidth ==
  ASSUME NEW k \in Nat, NEW s \in Nat, NEW v \in Nat, NEW h \in Nat, h < Pow2[s + 1],
         Pow2[k] * Pow2[s] <= v, v < Pow2[k] * (h + 1)
  PROVE  IntLog2(v) = k + (s + 1)
<1>1. PICK K \in Nat \ {0}, P \in Nat \ {0}, Q2 \in Nat \ {0} : K = Pow2[k] /\ P = Pow2[s] /\ Q2 = Pow2[s + 1]
  <2>1. s + 1 \in Nat
    OBVIOUS
  <2>2. Pow2[k] \in Nat \ {0} /\ Pow2[s] \in Nat \ {0} /\ Pow2[s + 1] \in Nat \ {0}
    BY <2>1, Pow2Def
  <2> QED BY Zenon, <2>2
<1>2. K * (h + 1) <= K * Q2
  <2>1. h + 1 <= Q2 /\ h + 1 \in Int
    BY <1>1
  <2> QED BY <2>1, ProductOrder
<1>3. Pow2[k + s] = K * P /\ Pow2[k + (s + 1)] = K * Q2
  <2>1. Pow2[k + s] = Pow2[k] * Pow2[s]
    BY Pow2Sum
  <2>2. s + 1 \in Nat
    OBVIOUS
  <2>3. Pow2[k + (s + 1)] = Pow2[k] * Pow2[s + 1]
    BY <2>2, Pow2Sum
  <2> QED BY Zenon, <1>1, <2>1, <2>3
<1>4. Pow2[k + s] <= v /\ v < Pow2[(k + s) + 1]
  <2>1. PICK a \in Int, b \in Int : a = K * (h + 1) /\ b = K * Q2
    OBVIOUS
  <2>2. v < a /\ a <= b
    BY Zenon, <1>1, <1>2, <2>1
  <2>3. v < b
    BY <2>2
  <2>4. (k + s) + 1 = k + (s + 1)
    OBVIOUS
  <2> QED BY Zenon, <1>1, <1>3, <2>1, <2>3, <2>4
<1>5. k + s \in Nat /\ (k + s) + 1 = k + (s + 1)
  OBVIOUS
<1>6. IntLog2(v) = (k + s) + 1
  BY <1>4, <1>5, IntLog2Between
<1> QED BY <1>5, <1>6

\* A reciprocal whose product has the bits of the quotient above its k low bits.
Divides(n, b, k, q) ==
  /\ IntLog2(n * Ones(constDiv.wIn)) = k + QuotientSize
  /\ \E t \in 0..(Pow2[k] - 1) : n * constDiv.X + b = Pow2[k] * q + t

\* The reciprocal rounded up.
LEMMA UpDivides ==
  ASSUME ConstDivTypes, constDiv.arch = "reciprocal",
         NEW w \in Nat, NEW e \in Nat \ {0, 1, 2}, NEW h \in Nat, NEW m \in 1..(d - 1), NEW s \in Nat,
         Divider(w, e, h, m, s), NEW q \in Nat, NEW r \in 0..(e - 1), ExpectedOutputs(e, h, q, r)
  PROVE  \E n \in Nat, k \in Nat : Reciprocal("up") = [n |-> n, b |-> 0] /\ Divides(n, 0, k, q)
<1>1. /\ w = constDiv.wIn /\ e = d /\ h = T0 /\ h >= 2 /\ Pow2[w] = e * h + m /\ m \in 1..(e - 1)
      /\ QuotientSize = s + 1 /\ Pow2[s] <= h /\ h < Pow2[s + 1] /\ e % 2 = 1
      /\ constDiv.X = e * q + r /\ q <= h /\ (r = e - 1 => q < h)
  BY DEF Divider, ExpectedOutputs, ConstDivTypes
<1>2. PICK k \in Nat, K \in Nat \ {0} : /\ k = OptKP /\ K = Pow2[k]
                                        /\ (((e - 1) * K) % e) * (e * h - 1) < K
  <2>1. OptKP \in Nat /\ FoundUp(OptKP)
    BY OptKIs
  <2>2. PICK k \in Nat : k = OptKP
    BY <2>1
  <2>3. PICK K \in Nat \ {0} : K = Pow2[k]
    BY Pow2Def
  <2>4. (((e - 1) * K) % e) * (e * h - 1) < K
    BY Zenon, <1>1, <2>1, <2>2, <2>3 DEF FoundUp
  <2> QED BY Zenon, <2>2, <2>3, <2>4
<1>3. PICK c \in Nat, f \in 1..(e - 1) : K = e * c + f
  <2>1. e \in Nat \ {0} /\ K \in Nat
    OBVIOUS
  <2>2. PICK c \in Nat, f \in 0..(e - 1) : K = e * c + f /\ c = K \div e /\ f = K % e
    BY ZenonT(40), <2>1, NaturalDivision
  <2>3. f # 0
    <3> SUFFICES ASSUME f = 0 PROVE FALSE
      OBVIOUS
    <3>1. e * c + 0 = e * c
      OBVIOUS
    <3>2. Pow2[k] = e * c
      BY Zenon, <1>2, <2>2, <3>1
    <3>3. e \in Nat \ {0, 1}
      OBVIOUS
    <3> QED BY <1>1, <3>2, <3>3, OddDivisor
  <2>4. f \in 1..(e - 1)
    BY <2>3
  <2> QED BY Zenon, <2>2, <2>4
<1>4. PICK u \in Nat : u = e - f /\ ((e - 1) * K) % e = u
  <2>1. e - f \in 0..(e - 1) /\ e - f \in Nat
    OBVIOUS
  <2>2. (e - 1) * K = e * ((K - c) - 1) + (e - f)
    <3>1. (e - 1) * K = e * K - K
      OBVIOUS
    <3>2. e * ((K - c) - 1) = e * K - (e * c) - e
      OBVIOUS
    <3>3. PICK a \in Int, b \in Int : a = e * K /\ b = e * c
      OBVIOUS
    <3>4. K = b + f
      BY Zenon, <1>3, <3>3
    <3>5. (e - 1) * K = a - K /\ e * ((K - c) - 1) = a - b - e
      BY Zenon, <3>1, <3>2, <3>3
    <3>6. a - K = (a - b - e) + (e - f)
      BY <3>4
    <3> QED BY Zenon, <3>5, <3>6
  <2>3. (K - c) - 1 \in Int /\ e \in Nat \ {0}
    OBVIOUS
  <2>4. (e * ((K - c) - 1) + (e - f)) % e = e - f
    BY <2>1, <2>3, DivisionUnique
  <2> QED BY Zenon, <2>1, <2>2, <2>4
<1>5. PICK n \in Nat : n = c + 1 /\ CeilDiv(K, e) = n
  <2>1. K + e - 1 = e * (c + 1) + (f - 1)
    <3>1. e * (c + 1) = e * c + e
      OBVIOUS
    <3>2. PICK b \in Int : b = e * c
      OBVIOUS
    <3>3. K = b + f /\ e * (c + 1) = b + e
      BY Zenon, <1>3, <3>1, <3>2
    <3>4. K + e - 1 = (b + e) + (f - 1)
      BY <3>3
    <3> QED BY Zenon, <3>3, <3>4
  <2>2. c + 1 \in Nat /\ c + 1 \in Int /\ f - 1 \in 0..(e - 1) /\ e \in Nat \ {0}
    OBVIOUS
  <2>3. (e * (c + 1) + (f - 1)) \div e = c + 1
    BY <2>2, DivisionUnique
  <2> QED BY Zenon, <2>1, <2>2, <2>3 DEF CeilDiv
<1>6. n * e = K + u
  <2>1. n * e = e * c + e
    BY <1>5
  <2>2. PICK b \in Int : b = e * c
    OBVIOUS
  <2>3. K = b + f /\ n * e = b + e
    BY Zenon, <1>3, <2>1, <2>2
  <2> QED BY <1>4, <2>3
<1>7. u * (e * h - 1) < K
  BY Zenon, <1>2, <1>4
<1>8. PICK t \in 0..(K - 1) : n * (e * q + r) = K * q + t
  <2>1. e \in Nat \ {0}
    OBVIOUS
  <2> QED BY <1>1, <1>6, <1>7, <2>1, RoundedUp
<1>9. PICK g \in 0..(K - 1) : n * (e * h + (m - 1)) = K * h + g
  <2>1. e \in Nat \ {0} /\ m - 1 \in 0..(e - 1) /\ h <= h /\ ~(m - 1 = e - 1)
    BY <1>1
  <2> QED BY <1>1, <1>6, <1>7, <2>1, RoundedUp
<1>10. Ones(constDiv.wIn) = e * h + (m - 1)
  <2>1. PICK b \in Int : b = e * h
    OBVIOUS
  <2>2. Pow2[w] = b + m
    BY Zenon, <1>1, <2>1
  <2>3. Pow2[w] - 1 = b + (m - 1)
    BY <1>1, <2>2
  <2> QED BY Zenon, <1>1, <2>1, <2>3 DEF Ones
<1>11. IntLog2(n * Ones(constDiv.wIn)) = k + QuotientSize
  <2>1. PICK v \in Nat : v = n * Ones(constDiv.wIn) /\ v = K * h + g
    <3>1. K * h + g \in Nat
      <4>1. K * h \in Nat
        OBVIOUS
      <4> QED BY <4>1
    <3> QED BY Zenon, <1>9, <1>10, <3>1
  <2>2. K * Pow2[s] <= v
    <3>1. PICK P \in Nat : P = Pow2[s]
      BY Pow2Def
    <3>2. K * P <= K * h
      BY <1>1, <3>1
    <3>3. PICK a \in Int, b \in Int : a = K * P /\ b = K * h
      OBVIOUS
    <3>4. a <= b /\ v = b + g
      BY Zenon, <2>1, <3>2, <3>3
    <3>5. a <= v
      BY <3>4
    <3> QED BY Zenon, <3>1, <3>3, <3>5
  <2>3. v < K * (h + 1)
    <3>1. K * (h + 1) = K * h + K
      OBVIOUS
    <3>2. PICK b \in Int : b = K * h
      OBVIOUS
    <3>3. v = b + g /\ K * (h + 1) = b + K
      BY Zenon, <2>1, <3>1, <3>2
    <3>4. v < b + K
      BY <3>3
    <3> QED BY Zenon, <3>3, <3>4
  <2>4. IntLog2(v) = k + (s + 1)
    <3>1. h < Pow2[s + 1] /\ Pow2[k] * Pow2[s] <= v /\ v < Pow2[k] * (h + 1)
      BY Zenon, <1>1, <1>2, <2>2, <2>3
    <3> QED BY <3>1, ProductWidth
  <2> QED BY Zenon, <1>1, <2>1, <2>4
<1>12. Divides(n, 0, k, q)
  <2>1. n * constDiv.X + 0 = K * q + t
    <3>1. PICK b \in Int : b = n * (e * q + r)
      OBVIOUS
    <3>2. b + 0 = b /\ n * constDiv.X = b
      <4>1. b + 0 = b
        OBVIOUS
      <4> QED BY Zenon, <1>1, <3>1, <4>1
    <3> QED BY Zenon, <1>8, <3>1, <3>2
  <2> QED BY Zenon, <1>2, <1>11, <2>1 DEF Divides
<1>13. Reciprocal("up") = [n |-> n, b |-> 0]
  BY Zenon, <1>1, <1>2, <1>5 DEF Reciprocal
<1> QED BY Zenon, <1>12, <1>13

\* The reciprocal rounded down.
LEMMA DownDivides ==
  ASSUME ConstDivTypes, constDiv.arch = "reciprocal",
         NEW w \in Nat, NEW e \in Nat \ {0, 1, 2}, NEW h \in Nat, NEW m \in 1..(d - 1), NEW s \in Nat,
         Divider(w, e, h, m, s), NEW q \in Nat, NEW r \in 0..(e - 1), ExpectedOutputs(e, h, q, r)
  PROVE  \E n \in Nat, b \in Nat, k \in Nat :
           Reciprocal("down") = [n |-> n, b |-> b] /\ Divides(n, b, k, q)
<1>1. /\ w = constDiv.wIn /\ e = d /\ h = T0 /\ h >= 2 /\ Pow2[w] = e * h + m /\ m \in 1..(e - 1)
      /\ QuotientSize = s + 1 /\ Pow2[s] <= h /\ h < Pow2[s + 1] /\ e % 2 = 1 /\ 2 * e <= Pow2[w]
      /\ constDiv.X = e * q + r /\ q <= h
  BY DEF Divider, ExpectedOutputs, ConstDivTypes
<1>2. PICK k \in Nat, K \in Nat \ {0} : k = OptKM /\ K = Pow2[k] /\ FoundDown(k)
  <2>1. OptKM \in Nat /\ FoundDown(OptKM)
    BY OptKIs
  <2>2. PICK k \in Nat : k = OptKM
    BY <2>1
  <2>3. PICK K \in Nat \ {0} : K = Pow2[k]
    BY Pow2Def
  <2> QED BY Zenon, <2>1, <2>2, <2>3
<1>3. PICK n \in Nat, u \in 0..(e - 1) : K = e * n + u /\ n = K \div e /\ u = K % e
  <2>1. e \in Nat \ {0} /\ K \in Nat
    OBVIOUS
  <2> QED BY ZenonT(40), <2>1, NaturalDivision
<1>4. PICK b \in Nat : b = u * h /\ (K - n * e) * T0 = b
  <2>1. u * h \in Nat
    OBVIOUS
  <2>2. K - n * e = u
    <3>1. PICK a \in Int : a = e * n
      OBVIOUS
    <3>2. n * e = e * n
      OBVIOUS
    <3>3. K = a + u /\ n * e = a
      BY Zenon, <1>3, <3>1, <3>2
    <3> QED BY <3>3
  <2> QED BY Zenon, <1>1, <2>1, <2>2
<1>5. u * ((e * h - e) + 1) < K
  <2>1. u * (e * h - e + 1) < K
    BY Zenon, <1>1, <1>2, <1>3 DEF FoundDown
  <2> QED BY <2>1
<1>6. PICK t \in 0..(K - 1) : n * (e * q + r) + u * h = K * q + t
  <2>1. e \in Nat \ {0} /\ u \in Nat
    OBVIOUS
  <2>2. K = e * n + u /\ h >= 2 /\ q <= h
    BY Zenon, <1>1, <1>3
  <2> QED BY <1>5, <2>1, <2>2, RoundedDown
<1>7. PICK g \in 0..(K - 1) : n * (e * h + (m - 1)) + u * h = K * h + g
  <2>1. e \in Nat \ {0} /\ u \in Nat /\ m - 1 \in 0..(e - 1) /\ h <= h
    BY <1>1
  <2>2. K = e * n + u /\ h >= 2
    BY Zenon, <1>1, <1>3
  <2>3. PICK f \in 0..(e - 1) : f = m - 1
    BY <2>1
  <2>4. \E g \in 0..(K - 1) : n * (e * h + f) + u * h = K * h + g
    BY <1>5, <2>1, <2>2, RoundedDown
  <2> QED BY Zenon, <2>3, <2>4
<1>8. Ones(constDiv.wIn) = e * h + (m - 1) /\ Ones(constDiv.wIn) = Pow2[w] - 1
  <2>1. PICK a \in Int : a = e * h
    OBVIOUS
  <2>2. Pow2[w] = a + m
    BY Zenon, <1>1, <2>1
  <2>3. Pow2[w] - 1 = a + (m - 1)
    BY <1>1, <2>2
  <2> QED BY Zenon, <1>1, <2>1, <2>3 DEF Ones
<1>9. IntLog2(n * Ones(constDiv.wIn)) = k + QuotientSize
  <2>1. PICK v \in Nat : v = n * Ones(constDiv.wIn) /\ v + b = K * h + g
    <3>1. n * (e * h + (m - 1)) \in Nat
      <4>1. e * h \in Nat /\ m - 1 \in Nat
        BY <1>1
      <4>2. e * h + (m - 1) \in Nat
        BY <4>1
      <4> QED BY <4>2
    <3> QED BY Zenon, <1>4, <1>7, <1>8, <3>1
  <2>2. Pow2[k] * Pow2[s] <= v
    <3>1. u \in Nat /\ u = Pow2[k] % e /\ Pow2[k] = e * n + u /\ u * ((e * h - e) + 1) < Pow2[k]
      <4>1. u \in Nat
        OBVIOUS
      <4> QED BY Zenon, <1>2, <1>3, <1>5, <4>1
    <3>2. Pow2[k] * Pow2[s] <= n * (Pow2[w] - 1)
      BY <1>1, <3>1, RoundedDownWidth
    <3> QED BY Zenon, <1>8, <2>1, <3>2
  <2>3. v < K * (h + 1)
    <3>1. K * (h + 1) = K * h + K
      OBVIOUS
    <3>2. PICK a \in Int : a = K * h
      OBVIOUS
    <3>3. v + b = a + g /\ K * (h + 1) = a + K
      BY Zenon, <2>1, <3>1, <3>2
    <3>4. v < a + K
      BY <3>3
    <3> QED BY Zenon, <3>3, <3>4
  <2>4. IntLog2(v) = k + (s + 1)
    <3>1. h < Pow2[s + 1] /\ v < Pow2[k] * (h + 1)
      BY Zenon, <1>1, <1>2, <2>3
    <3> QED BY <2>2, <3>1, ProductWidth
  <2> QED BY Zenon, <1>1, <2>1, <2>4
<1>10. Divides(n, b, k, q)
  <2>1. n * constDiv.X + b = K * q + t
    BY Zenon, <1>1, <1>4, <1>6
  <2> QED BY Zenon, <1>2, <1>9, <2>1 DEF Divides
<1>11. Reciprocal("down") = [n |-> n, b |-> b]
  <2>1. "down" # "up"
    OBVIOUS
  <2>2. Pow2[OptKM] \div d = n /\ (Pow2[OptKM] - n * d) * T0 = b
    BY Zenon, <1>1, <1>2, <1>3, <1>4
  <2> QED BY Zenon, <2>1, <2>2 DEF Reciprocal
<1> QED BY Zenon, <1>10, <1>11

\* The multiplier, with either of them.
LEMMA MultiplyInv ==
  ASSUME ConstDivInv, Multiply
  PROVE  ConstDivInv'
<1>1. /\ ConstDivTypes /\ LinearDivided /\ LevelDivided /\ ~CDIdle
      /\ constDiv.arch = "reciprocal" /\ remainders = <<>>
      /\ UNCHANGED <<constDiv, digit, quotients, remainders>>
  BY DEF Multiply, ConstDivInv
<1>2. PICK w \in Nat, e \in Nat \ {0, 1, 2}, h \in Nat, m \in 1..(d - 1), s \in Nat : Divider(w, e, h, m, s)
  BY <1>1, DividerIs
<1>3. PICK q \in Nat, r \in 0..(e - 1) : ExpectedOutputs(e, h, q, r)
  BY <1>1, <1>2, ExpectedOutputsAre
<1>4. /\ q = constDiv.X \div d /\ r = constDiv.X % d /\ QuotientSize = s + 1 /\ q < Pow2[s + 1]
      /\ Bits((constDiv.X - q * d) % Pow2[constDiv.wIn], RSize - 1, 0) = r
  <2>1. /\ q = constDiv.X \div d /\ r = constDiv.X % d /\ QuotientSize = s + 1
        /\ q <= h /\ h < Pow2[s + 1]
        /\ Bits((constDiv.X - q * d) % Pow2[constDiv.wIn], RSize - 1, 0) = r
    BY Zenon, <1>2, <1>3 DEF Divider, ExpectedOutputs
  <2>2. s + 1 \in Nat
    OBVIOUS
  <2>3. Pow2[s + 1] \in Nat
    BY <2>2, Pow2Def
  <2>4. q < Pow2[s + 1]
    BY <2>1, <2>3
  <2> QED BY Zenon, <2>1, <2>4
<1>5. PICK rounded \in {"up", "down"} :
        LET c == Reciprocal(rounded)
            pSize == IntLog2(c.n * Ones(constDiv.wIn))
            Q0 == (c.n * constDiv.X + c.b) % Pow2[pSize]
            Q1 == Bits(Q0, pSize - 1, pSize - QuotientSize)
        IN constDivOut' = [Q |-> Q1,
                           R |-> Bits((constDiv.X - Q1 * d) % Pow2[constDiv.wIn], RSize - 1, 0)]
  BY DEF Multiply
<1>6. PICK n \in Nat, b \in Nat, k \in Nat :
        Reciprocal(rounded) = [n |-> n, b |-> b] /\ Divides(n, b, k, q)
  <2>1. CASE rounded = "up"
    <3>1. PICK n \in Nat, k \in Nat : Reciprocal("up") = [n |-> n, b |-> 0] /\ Divides(n, 0, k, q)
      BY <1>1, <1>2, <1>3, UpDivides
    <3>2. 0 \in Nat
      OBVIOUS
    <3> QED BY Zenon, <2>1, <3>1, <3>2
  <2>2. CASE rounded = "down"
    BY <1>1, <1>2, <1>3, <2>2, DownDivides
  <2> QED BY <2>1, <2>2
<1>7. Reciprocal(rounded).n = n /\ Reciprocal(rounded).b = b
  BY <1>6
<1>8. /\ IntLog2(n * Ones(constDiv.wIn)) = k + (s + 1)
      /\ \E t \in 0..(Pow2[k] - 1) : n * constDiv.X + b = Pow2[k] * q + t
  BY Zenon, <1>4, <1>6 DEF Divides
<1>9. Bits((n * constDiv.X + b) % Pow2[k + (s + 1)], (k + (s + 1)) - 1, (k + (s + 1)) - (s + 1)) = q
  <2>1. PICK t \in 0..(Pow2[k] - 1) : n * constDiv.X + b = Pow2[k] * q + t
    BY <1>8
  <2>2. s + 1 \in Nat
    OBVIOUS
  <2> QED BY <1>4, <2>1, <2>2, SliceAbove
<1>10. constDivOut' = [Q |-> q, R |-> r]
  BY Zenon, <1>4, <1>5, <1>7, <1>8, <1>9
<1>11. ConstantDivisionIsCorrect'
  BY <1>1, <1>4, <1>10 DEF ConstantDivisionIsCorrect, d
<1>12. ConstDivTypes' /\ LinearDivided' /\ LevelDivided' /\ ~CDIdle' /\ remainders' = <<>>
  BY <1>1 DEF ConstDivTypes, LinearDivided, LevelDivided, ChunkDivided, CDIdle, d, alpha
<1> QED BY <1>11, <1>12 DEF ConstDivInv

\* The chunks of the tree as slices of X.
LEMMA ChunksInv ==
  ASSUME ConstDivInv
  PROVE  IntConstDivIsCorrect
<1> SUFFICES ASSUME ~CDIdle, NEW i \in 1..Len(remainders)
             PROVE  LET chunk == IF constDiv.arch = "linear" THEN constDiv.X \div Pow2[alpha * digit]
                                 ELSE Bits(constDiv.X, i * alpha * Pow2[digit] - 1, (i - 1) * alpha * Pow2[digit])
                    IN chunk = d * quotients[i] + remainders[i] /\ remainders[i] < d
  BY DEF IntConstDivIsCorrect, ChunksAreDivided, ConstDivInv
<1>1. /\ ConstDivTypes /\ LinearDivided /\ LevelDivided
      /\ constDiv.arch = "reciprocal" => remainders = <<>>
  BY DEF ConstDivInv
<1>2. CASE constDiv.arch = "linear"
  <2>1. PICK q \in Nat, r \in Nat : /\ quotients = <<q>> /\ remainders = <<r>> /\ r < d
                                    /\ constDiv.X \div Pow2[alpha * digit] = d * q + r
    BY <1>1, <1>2 DEF LinearDivided
  <2>2. i = 1
    BY <2>1
  <2> QED BY <1>2, <2>1, <2>2
<1>3. CASE constDiv.arch = "log"
  <2>1. digit \in Nat /\ remainders \in Seq(Nat) /\ ChunkDivided(alpha * Pow2[digit], i, quotients[i], remainders[i])
    BY <1>1, <1>3 DEF LevelDivided
  <2>2. PICK a \in Nat, P \in Nat : a = alpha /\ P = Pow2[digit]
    BY <1>1, <2>1, Pow2Def DEF ConstDivTypes
  <2>3. PICK c \in Nat : c = a * P
    OBVIOUS
  <2>4. i \in Nat \ {0} /\ constDiv.X \in Nat
    BY <1>1, <2>1 DEF ConstDivTypes
  <2>5. i * a * P = i * c /\ (i - 1) * a * P = (i - 1) * c
    <3>1. i * a * P = i * (a * P) /\ (i - 1) * a * P = (i - 1) * (a * P)
      BY <2>4
    <3> QED BY Zenon, <2>3, <3>1
  <2>6. Bits(constDiv.X, i * c - 1, (i - 1) * c) = Chunk(constDiv.X, c, i)
    BY <2>4, BitsChunk
  <2>7. Bits(constDiv.X, i * alpha * Pow2[digit] - 1, (i - 1) * alpha * Pow2[digit]) = Chunk(constDiv.X, c, i)
    BY Zenon, <2>2, <2>5, <2>6
  <2>8. Chunk(constDiv.X, c, i) = d * quotients[i] + remainders[i] /\ remainders[i] < d
    BY Zenon, <2>1, <2>2, <2>3 DEF ChunkDivided
  <2> QED BY <1>3, <2>7, <2>8
<1>4. CASE constDiv.arch = "reciprocal"
  <2>1. Len(remainders) = 0
    BY <1>1, <1>4
  <2> QED BY <2>1
<1> QED BY <1>1, <1>2, <1>3, <1>4 DEF ConstDivTypes

\* The division by a constant is right in its three architectures, for every size of
\* the dividend and of the digits and every odd divisor (IntConstDiv of IntConstDiv.cpp):
\* no bit that a level drops is one, and the width and the correction of the product by
\* the rounded reciprocal are enough.
THEOREM ConstantDivisionIsRight == Spec => []IntConstDivIsCorrect
<1>1. Init => ConstDivInv
  BY DEF Init, CDInit, ConstDivInv, CDIdle, ConstantDivisionIsCorrect
<1>2. ConstDivInv /\ UNCHANGED constDivVars => ConstDivInv'
  BY DEF constDivVars, ConstDivInv, CDIdle, ConstDivTypes, LinearDivided, LevelDivided, ChunkDivided,
         ConstantDivisionIsCorrect, d, alpha
<1>3. ASSUME ConstDivInv, [Next]_vars PROVE ConstDivInv'
  <2>1. CASE StartConstantDivision
    BY <1>3, <2>1, DivideByConstantInv DEF StartConstantDivision
  <2>2. CASE ConstantDivisionStep
    <3>1. CASE LinearDigit
      BY <1>3, <3>1, LinearDigitInv
    <3>2. CASE MergeLevel
      BY <1>3, <3>2, MergeLevelInv
    <3>3. CASE Multiply
      BY <1>3, <3>3, MultiplyInv
    <3>4. CASE Output
      BY <1>3, <3>4, OutputInv
    <3> QED BY <2>2, <3>1, <3>2, <3>3, <3>4 DEF ConstantDivisionStep
  <2>3. CASE UNCHANGED constDivVars
    BY <1>2, <1>3, <2>3
  <2>4. CASE Combinational
    BY <2>3, <2>4 DEF Combinational
  <2>5. CASE StartDivision \/ DivisionStep
    BY <2>3, <2>5 DEF StartDivision, DivisionStep
  <2>6. CASE StartRoot \/ RootStep
    BY <2>3, <2>6 DEF StartRoot, RootStep
  <2>7. CASE StartMultiplier \/ MultiplierStep
    BY <2>3, <2>7 DEF StartMultiplier, MultiplierStep
  <2>8. CASE UNCHANGED vars
    BY <2>3, <2>8 DEF vars
  <2> QED BY <1>3, <2>1, <2>2, <2>4, <2>5, <2>6, <2>7, <2>8 DEF Next
<1>4. Spec => []ConstDivInv
  BY <1>1, <1>3, PTL DEF Spec
<1>5. ConstDivInv => IntConstDivIsCorrect
  BY ChunksInv
<1> QED BY <1>4, <1>5, PTL

-----------------------------------------------------------------------------
(***************************************************************************)
(* The square root: squares of what its stages append a digit to.          *)
(***************************************************************************)
\* Squares of s + 1, 2s and 2s + 1, weighted.
LEMMA Squares ==
  ASSUME NEW s \in Int, NEW w \in Int
  PROVE  /\ ((s + 1) * (s + 1)) * w = (s * s) * w + 2 * (s * w) + w
         /\ ((2 * s) * (2 * s)) * w = 4 * ((s * s) * w)
         /\ ((2 * s + 1) * (2 * s + 1)) * w = 4 * ((s * s) * w) + 4 * (s * w) + w
         /\ (2 * s) * w = 2 * (s * w) /\ (2 * s + 1) * w = 2 * (s * w) + w
<1>1. (s + 1) * (s + 1) = s * s + 2 * s + 1
  OBVIOUS
<1>2. (2 * s) * (2 * s) = 4 * (s * s)
  OBVIOUS
<1>3. (2 * s + 1) * (2 * s + 1) = 4 * (s * s) + 4 * s + 1
  OBVIOUS
<1>4. PICK q \in Int : q = s * s
  OBVIOUS
<1>5. (q + 2 * s + 1) * w = q * w + 2 * (s * w) + w
  OBVIOUS
<1>6. (4 * q) * w = 4 * (q * w)
  OBVIOUS
<1>7. (4 * q + 4 * s + 1) * w = 4 * (q * w) + 4 * (s * w) + w
  OBVIOUS
<1>8. (2 * s) * w = 2 * (s * w) /\ (2 * s + 1) * w = 2 * (s * w) + w
  OBVIOUS
<1> QED BY Zenon, <1>1, <1>2, <1>3, <1>4, <1>5, <1>6, <1>7, <1>8

\* The digits found so far, of the root of n for a one of w: s is the root of what
\* is left of n after the digits to come, and has the bits of p.
RootDigits(n, w, p, s) ==
  /\ s \in p..(2 * p - 1)
  /\ 4 * ((s * s) * w) <= n * (p * p)
  /\ n * (p * p) < 4 * (((s + 1) * (s + 1)) * w)

\* What compares the next digit.
LEMMA NextDigit ==
  ASSUME NEW n \in Nat, NEW w \in Nat, NEW p \in Nat \ {0}, NEW s \in Nat, RootDigits(n, w, p, s),
         NEW g \in 0..1, g = 1 <=> ((2 * s + 1) * (2 * s + 1)) * w <= n * (p * p)
  PROVE  RootDigits(n, w, 2 * p, 2 * s + g)
<1>1. PICK q \in Int, v \in Int, y \in Int : q = (s * s) * w /\ v = s * w /\ y = n * (p * p)
  OBVIOUS
<1>2. n * ((2 * p) * (2 * p)) = 4 * y
  <2>1. n * ((2 * p) * (2 * p)) = 4 * (n * (p * p))
    OBVIOUS
  <2> QED BY Zenon, <1>1, <2>1
<1>3. /\ ((s + 1) * (s + 1)) * w = q + 2 * v + w
      /\ ((2 * s) * (2 * s)) * w = 4 * q
      /\ ((2 * s + 1) * (2 * s + 1)) * w = 4 * q + 4 * v + w
  <2>1. s \in Int /\ w \in Int
    OBVIOUS
  <2> QED BY ZenonT(120), <1>1, <2>1, Squares
<1>4. ((2 * s + 2) * (2 * s + 2)) * w = 4 * (q + 2 * v + w)
  <2>1. (2 * s + 2) * (2 * s + 2) = 4 * ((s + 1) * (s + 1))
    OBVIOUS
  <2>2. PICK z \in Int : z = (s + 1) * (s + 1)
    OBVIOUS
  <2>3. (4 * z) * w = 4 * (z * w)
    OBVIOUS
  <2> QED BY Zenon, <1>3, <2>1, <2>2, <2>3
<1>5. s \in p..(2 * p - 1) /\ 4 * q <= y /\ y < 4 * (q + 2 * v + w)
  BY Zenon, <1>1, <1>3 DEF RootDigits
<1>6. g = 1 <=> 4 * q + 4 * v + w <= y
  BY Zenon, <1>1, <1>3
<1>7. CASE g = 1
  <2>1. 2 * s + g = 2 * s + 1 /\ (2 * s + 1) + 1 = 2 * s + 2
    BY <1>7
  <2>2. /\ 2 * s + 1 \in (2 * p)..(2 * (2 * p) - 1)
        /\ 4 * (4 * q + 4 * v + w) <= 4 * y
        /\ 4 * y < 4 * (4 * (q + 2 * v + w))
    BY <1>5, <1>6, <1>7
  <2> QED BY Zenon, <1>2, <1>3, <1>4, <2>1, <2>2 DEF RootDigits
<1>8. CASE g = 0
  <2>1. 2 * s + g = 2 * s
    BY <1>8
  <2>2. /\ 2 * s \in (2 * p)..(2 * (2 * p) - 1)
        /\ 4 * (4 * q) <= 4 * y
        /\ 4 * y < 4 * (4 * q + 4 * v + w)
    BY <1>5, <1>6, <1>8
  <2> QED BY Zenon, <1>2, <1>3, <2>1, <2>2 DEF RootDigits
<1> QED BY <1>7, <1>8

\* The remainder of method 0.
RestoringRemainder(n, w, p, s, t) ==
  t \in Nat /\ 2 * (t * p) = n * (p * p) - 4 * ((s * s) * w)

\* A stage of method 0: the digit is 1 when the leading bits of 2t reach 4s + 1.
LEMMA RestoringDigit ==
  ASSUME NEW n \in Nat, NEW w \in Nat, NEW p \in Nat \ {0}, NEW l \in Nat \ {0}, w = p * l,
         NEW s \in Nat, NEW t \in Nat,
         RootDigits(n, w, p, s), RestoringRemainder(n, w, p, s, t),
         NEW high \in Nat, NEW low \in 0..(l - 1), 2 * t = l * high + low,
         NEW g \in 0..1, g = 1 <=> high >= 4 * s + 1
  PROVE  /\ high <= 8 * s + 3
         /\ RootDigits(n, w, 2 * p, 2 * s + g)
         /\ RestoringRemainder(n, w, 2 * p, 2 * s + g, (high - g * (4 * s + 1)) * l + low)
<1>1. PICK q \in Int, v \in Int, y \in Int : q = (s * s) * w /\ v = s * w /\ y = n * (p * p)
  OBVIOUS
<1>2. /\ ((s + 1) * (s + 1)) * w = q + 2 * v + w
      /\ ((2 * s) * (2 * s)) * w = 4 * q
      /\ ((2 * s + 1) * (2 * s + 1)) * w = 4 * q + 4 * v + w
  <2>1. s \in Int /\ w \in Int
    OBVIOUS
  <2>2. /\ ((s + 1) * (s + 1)) * w = (s * s) * w + 2 * (s * w) + w
        /\ ((2 * s) * (2 * s)) * w = 4 * ((s * s) * w)
        /\ ((2 * s + 1) * (2 * s + 1)) * w = 4 * ((s * s) * w) + 4 * (s * w) + w
    BY ZenonT(120), <2>1, Squares
  <2> QED BY ZenonT(40), <1>1, <2>2
<1>3. 4 * q <= y /\ y < 4 * (q + 2 * v + w) /\ s \in p..(2 * p - 1)
  BY Zenon, <1>1, <1>2 DEF RootDigits
<1>4. 2 * (t * p) = y - 4 * q
  BY Zenon, <1>1 DEF RestoringRemainder
\* The remainder against multiples of the weight of its leading bits.
<1>5. ASSUME NEW a \in Int
      PROVE  (a <= high <=> a * w <= y - 4 * q) /\ (high < a <=> y - 4 * q < a * w)
  <2>1. CASE a <= high
    <3>1. l * a <= l * high
      BY <2>1
    <3>2. l * a <= 2 * t
      <4>1. l * a \in Int /\ l * high \in Int
        OBVIOUS
      <4> QED BY <3>1, <4>1
    <3>3. p * (l * a) <= p * (2 * t)
      <4>1. l * a \in Int /\ 2 * t \in Int
        OBVIOUS
      <4> QED BY <3>2, <4>1, ProductOrder
    <3>4. p * (l * a) = a * (p * l) /\ p * (2 * t) = 2 * (t * p)
      OBVIOUS
    <3>5. a * w <= y - 4 * q
      BY Zenon, <1>4, <3>3, <3>4
    <3>6. a * w \in Int
      OBVIOUS
    <3> QED BY <2>1, <3>5, <3>6
  <2>2. CASE high < a
    <3>1. high + 1 <= a
      BY <2>2
    <3>2. l * (high + 1) <= l * a /\ l * (high + 1) = l * high + l
      BY <3>1
    <3>3. 2 * t < l * a
      <4>1. l * a \in Int /\ l * high \in Int
        OBVIOUS
      <4> QED BY <3>2, <4>1
    <3>4. p * (2 * t) < p * (l * a)
      <4>1. PICK b \in Int, c \in Int : b = l * a /\ c = 2 * t
        OBVIOUS
      <4>2. c < b
        BY Zenon, <3>3, <4>1
      <4>3. p * c < p * b
        BY <4>2
      <4> QED BY Zenon, <4>1, <4>3
    <3>5. p * (l * a) = a * (p * l) /\ p * (2 * t) = 2 * (t * p)
      OBVIOUS
    <3>6. y - 4 * q < a * w
      BY Zenon, <1>4, <3>4, <3>5
    <3>7. a * w \in Int
      OBVIOUS
    <3> QED BY <2>2, <3>6, <3>7
  <2> QED BY <2>1, <2>2
<1>6. high <= 8 * s + 3
  <2>1. 8 * s + 4 \in Int
    OBVIOUS
  <2>2. (8 * s + 4) * w = 8 * (s * w) + 4 * w
    OBVIOUS
  <2>3. (8 * s + 4) * w = 8 * v + 4 * w
    BY Zenon, <1>1, <2>2
  <2>4. y - 4 * q < 8 * v + 4 * w
    BY <1>3
  <2>5. high < 8 * s + 4
    BY <1>5, <2>1, <2>3, <2>4
  <2> QED BY <2>5
<1>7. (4 * s + 1) * w = 4 * v + w
  <2>1. (4 * s + 1) * w = 4 * (s * w) + w
    OBVIOUS
  <2> QED BY Zenon, <1>1, <2>1
<1>8. g = 1 <=> ((2 * s + 1) * (2 * s + 1)) * w <= n * (p * p)
  <2>1. high >= 4 * s + 1 <=> 4 * v + w <= y - 4 * q
    <3>1. 4 * s + 1 \in Int
      OBVIOUS
    <3> QED BY <1>5, <1>7, <3>1
  <2>2. g = 1 <=> 4 * q + 4 * v + w <= y
    BY <2>1
  <2> QED BY Zenon, <1>1, <1>2, <2>2
<1>9. RootDigits(n, w, 2 * p, 2 * s + g)
  BY <1>8, NextDigit
<1> DEFINE r == (high - g * (4 * s + 1)) * l + low
<1>10. r \in Nat
  <2>1. high - g * (4 * s + 1) \in Nat
    <3>1. CASE g = 0
      <4>1. g * (4 * s + 1) = 0
        BY <3>1
      <4> QED BY <4>1
    <3>2. CASE g = 1
      <4>1. g * (4 * s + 1) = 4 * s + 1
        BY <3>2
      <4> QED BY <3>2, <4>1
    <3> QED BY <3>1, <3>2
  <2>2. (high - g * (4 * s + 1)) * l \in Nat
    BY <2>1
  <2> QED BY <2>2
<1>11. r = 2 * t - (g * (4 * s + 1)) * l
  <2>1. (high - g * (4 * s + 1)) * l = l * high - (g * (4 * s + 1)) * l
    OBVIOUS
  <2>2. PICK a \in Int, b \in Int : a = l * high /\ b = (g * (4 * s + 1)) * l
    OBVIOUS
  <2> QED BY <2>1, <2>2
<1>12. 2 * (r * (2 * p)) = 4 * (y - 4 * q) - 4 * (g * (4 * v + w))
  <2> HIDE DEF r
  <2>1. PICK b \in Int : b = g * (4 * s + 1)
    OBVIOUS
  <2>2. 2 * ((2 * t - b * l) * (2 * p)) = 4 * (2 * (t * p)) - 4 * (b * (p * l))
    OBVIOUS
  <2>3. (g * (4 * s + 1)) * w = g * ((4 * s + 1) * w)
    OBVIOUS
  <2> QED BY Zenon, <1>4, <1>7, <1>11, <2>1, <2>2, <2>3
<1>13. n * ((2 * p) * (2 * p)) = 4 * y
  <2>1. n * ((2 * p) * (2 * p)) = 4 * (n * (p * p))
    OBVIOUS
  <2> QED BY Zenon, <1>1, <2>1
<1>14. ((2 * s + g) * (2 * s + g)) * w = 4 * q + g * (4 * v + w)
  <2>1. CASE g = 0
    <3>1. 2 * s + g = 2 * s /\ 4 * q + g * (4 * v + w) = 4 * q
      BY <2>1
    <3> QED BY Zenon, <1>2, <3>1
  <2>2. CASE g = 1
    <3>1. 4 * q + g * (4 * v + w) = 4 * q + 4 * v + w
      BY <2>2
    <3> QED BY Zenon, <1>2, <2>2, <3>1
  <2> QED BY <2>1, <2>2
<1>15. RestoringRemainder(n, w, 2 * p, 2 * s + g, r)
  <2> HIDE DEF r
  <2>1. 4 * (y - 4 * q) - 4 * (g * (4 * v + w)) = 4 * y - 4 * (4 * q + g * (4 * v + w))
    OBVIOUS
  <2> QED BY Zenon, <1>10, <1>12, <1>13, <1>14, <2>1 DEF RestoringRemainder
<1> QED BY <1>6, <1>9, <1>15

\* The remainder of method 1, from the root so far and a half.
SignedRemainder(n, w, p, s, t) ==
  t \in Int /\ t * p = n * (p * p) - ((2 * s + 1) * (2 * s + 1)) * w

\* It stays within the range of its bits.
LEMMA SignedRange ==
  ASSUME NEW n \in Nat, NEW w \in Nat, NEW p \in Nat \ {0}, NEW s \in Nat, NEW t \in Int,
         RootDigits(n, w, p, s), SignedRemainder(n, w, p, s, t)
  PROVE  -(8 * w) <= t /\ t < 8 * w
<1>1. PICK q \in Int, v \in Int, y \in Int : q = (s * s) * w /\ v = s * w /\ y = n * (p * p)
  OBVIOUS
<1>2. /\ ((s + 1) * (s + 1)) * w = (s * s) * w + 2 * (s * w) + w
      /\ ((2 * s + 1) * (2 * s + 1)) * w = 4 * ((s * s) * w) + 4 * (s * w) + w
  <2>1. s \in Int /\ w \in Int
    OBVIOUS
  <2> QED BY ZenonT(40), <2>1, Squares
<1>3. 4 * q <= y /\ y < 4 * (q + 2 * v + w) /\ s \in p..(2 * p - 1)
  BY Zenon, <1>1, <1>2 DEF RootDigits
<1>4. t * p = y - (4 * q + 4 * v + w)
  BY Zenon, <1>1, <1>2 DEF SignedRemainder
<1>5. PICK z \in Int : z = p * w
  OBVIOUS
<1>6. 0 <= v /\ v <= 2 * z - w
  <2>1. s * w <= (2 * p - 1) * w
    BY <1>3
  <2>2. (2 * p - 1) * w = 2 * (p * w) - w
    OBVIOUS
  <2>3. s * w >= 0
    OBVIOUS
  <2> QED BY Zenon, <1>1, <1>5, <2>1, <2>2, <2>3
<1>7. -(8 * z) <= t * p /\ t * p < 8 * z
  BY <1>3, <1>4, <1>6
<1>8. p * (8 * w) = 8 * z /\ p * (-(8 * w)) = -(8 * z) /\ t * p = p * t
  <2>1. p * (8 * w) = 8 * (p * w) /\ p * (-(8 * w)) = -(8 * (p * w)) /\ t * p = p * t
    OBVIOUS
  <2> QED BY Zenon, <1>5, <2>1
<1>9. p * t < p * (8 * w) /\ ~(p * t < p * (-(8 * w)))
  BY <1>7, <1>8
<1>10. ASSUME NEW a \in Int, NEW b \in Int, ~(p * a < p * b) PROVE b <= a
  BY <1>10
<1>11. 8 * w \in Int /\ -(8 * w) \in Int
  OBVIOUS
<1>12. t < 8 * w
  BY <1>9, <1>11, ProductOrder
<1> QED BY <1>9, <1>10, <1>11, <1>12

\* A stage of method 1: the digit is the sign of the remainder.
LEMMA NonRestoringDigit ==
  ASSUME NEW n \in Nat, NEW w \in Nat, NEW p \in Nat \ {0}, NEW l \in Nat \ {0}, w = p * (2 * l),
         NEW s \in Nat, NEW t \in Int,
         RootDigits(n, w, p, s), SignedRemainder(n, w, p, s, t),
         NEW g \in 0..1, g = 1 <=> t >= 0
  PROVE  /\ RootDigits(n, w, 2 * p, 2 * s + g)
         /\ SignedRemainder(n, w, 2 * p, 2 * s + g, 2 * t - ((2 * g - 1) * (8 * s + 2 * g + 3)) * l)
<1>1. PICK q \in Int, v \in Int, y \in Int : q = (s * s) * w /\ v = s * w /\ y = n * (p * p)
  OBVIOUS
<1>2. ((2 * s + 1) * (2 * s + 1)) * w = 4 * q + 4 * v + w
  <2>1. s \in Int /\ w \in Int
    OBVIOUS
  <2>2. ((2 * s + 1) * (2 * s + 1)) * w = 4 * ((s * s) * w) + 4 * (s * w) + w
    BY ZenonT(40), <2>1, Squares
  <2> QED BY Zenon, <1>1, <2>2
<1>3. t * p = y - (4 * q + 4 * v + w)
  BY Zenon, <1>1, <1>2 DEF SignedRemainder
<1>4. g = 1 <=> ((2 * s + 1) * (2 * s + 1)) * w <= n * (p * p)
  <2>1. t >= 0 <=> t * p >= 0
    <3>1. t >= 0 => t * p >= 0
      OBVIOUS
    <3>2. t <= -1 => t * p <= (-1) * p
      OBVIOUS
    <3> QED BY <3>1, <3>2
  <2>2. g = 1 <=> 4 * q + 4 * v + w <= y
    BY <1>3, <2>1
  <2> QED BY Zenon, <1>1, <1>2, <2>2
<1>5. RootDigits(n, w, 2 * p, 2 * s + g)
  BY <1>4, NextDigit
<1> DEFINE r == 2 * t - ((2 * g - 1) * (8 * s + 2 * g + 3)) * l
<1>6. r \in Int /\ r * (2 * p) = 4 * (t * p) - ((2 * g - 1) * (8 * s + 2 * g + 3)) * w
  <2>1. PICK b \in Int : b = (2 * g - 1) * (8 * s + 2 * g + 3)
    OBVIOUS
  <2>2. (2 * t - b * l) * (2 * p) = 4 * (t * p) - b * (p * (2 * l)) /\ 2 * t - b * l \in Int
    OBVIOUS
  <2> QED BY Zenon, <2>1, <2>2
<1>7. n * ((2 * p) * (2 * p)) = 4 * y
  <2>1. n * ((2 * p) * (2 * p)) = 4 * (n * (p * p))
    OBVIOUS
  <2> QED BY Zenon, <1>1, <2>1
<1>8. ((2 * (2 * s + g) + 1) * (2 * (2 * s + g) + 1)) * w
        = 4 * (4 * q + 4 * v + w) + ((2 * g - 1) * (8 * s + 2 * g + 3)) * w
  <2>1. CASE g = 0
    <3>1. (2 * (2 * s + g) + 1) * (2 * (2 * s + g) + 1) = 16 * (s * s) + 8 * s + 1
      <4>1. 2 * (2 * s + g) + 1 = 4 * s + 1
        BY <2>1
      <4>2. (4 * s + 1) * (4 * s + 1) = 16 * (s * s) + 8 * s + 1
        OBVIOUS
      <4> QED BY Zenon, <4>1, <4>2
    <3>2. (2 * g - 1) * (8 * s + 2 * g + 3) = -(8 * s + 3)
      BY <2>1
    <3>3. PICK z \in Int : z = s * s
      OBVIOUS
    <3>4. (16 * z + 8 * s + 1) * w = 16 * (z * w) + 8 * (s * w) + w
      OBVIOUS
    <3>5. (-(8 * s + 3)) * w = -(8 * (s * w)) - 3 * w
      OBVIOUS
    <3>6. 16 * q + 8 * v + w = 4 * (4 * q + 4 * v + w) + (-(8 * v) - 3 * w)
      OBVIOUS
    <3> QED BY Zenon, <1>1, <3>1, <3>2, <3>3, <3>4, <3>5, <3>6
  <2>2. CASE g = 1
    <3>1. (2 * (2 * s + g) + 1) * (2 * (2 * s + g) + 1) = 16 * (s * s) + 24 * s + 9
      <4>1. 2 * (2 * s + g) + 1 = 4 * s + 3
        BY <2>2
      <4>2. (4 * s + 3) * (4 * s + 3) = 16 * (s * s) + 24 * s + 9
        OBVIOUS
      <4> QED BY Zenon, <4>1, <4>2
    <3>2. (2 * g - 1) * (8 * s + 2 * g + 3) = 8 * s + 5
      BY <2>2
    <3>3. PICK z \in Int : z = s * s
      OBVIOUS
    <3>4. (16 * z + 24 * s + 9) * w = 16 * (z * w) + 24 * (s * w) + 9 * w
      OBVIOUS
    <3>5. (8 * s + 5) * w = 8 * (s * w) + 5 * w
      OBVIOUS
    <3>6. 16 * q + 24 * v + 9 * w = 4 * (4 * q + 4 * v + w) + (8 * v + 5 * w)
      OBVIOUS
    <3> QED BY Zenon, <1>1, <3>1, <3>2, <3>3, <3>4, <3>5, <3>6
  <2> QED BY <2>1, <2>2
<1>9. SignedRemainder(n, w, 2 * p, 2 * s + g, r)
  <2> HIDE DEF r
  <2>1. PICK b \in Int : b = ((2 * g - 1) * (8 * s + 2 * g + 3)) * w
    OBVIOUS
  <2>2. 4 * (y - (4 * q + 4 * v + w)) - b = 4 * y - (4 * (4 * q + 4 * v + w) + b)
    OBVIOUS
  <2> QED BY Zenon, <1>3, <1>6, <1>7, <1>8, <2>1, <2>2 DEF SignedRemainder
<1> QED BY <1>5, <1>9

\* The root with one more digit rounds to the only nearest one, and without a carry.
Nearest(n, w, r) == (2 * r - 1) * (2 * r - 1) <= n * w /\ n * w < (2 * r + 1) * (2 * r + 1)

\* The digit m of twice the resolution, rounded away from its last bit on w values, is
\* that root.
LEMMA NearestRoot ==
  ASSUME NEW n \in Nat, NEW w \in Nat \ {0}, n <= 8 * (2 * w - 1),
         NEW m \in Nat, RootDigits(n, w, 2 * w, m)
  PROVE  \E r \in w..(2 * w - 1) :
           /\ ((((m \div 2) % w) + (m % 2)) % w) = r - w
           /\ \A x \in w..(2 * w - 1) : Nearest(n, w, x) <=> x = r
<1>1. m * m <= n * w /\ n * w < (m + 1) * (m + 1) /\ m \in (2 * w)..(4 * w - 1)
  <2>1. 4 * ((m * m) * w) = (4 * w) * (m * m) /\ n * ((2 * w) * (2 * w)) = (4 * w) * (n * w)
        /\ 4 * (((m + 1) * (m + 1)) * w) = (4 * w) * ((m + 1) * (m + 1))
    OBVIOUS
  <2>2. (4 * w) * (m * m) <= (4 * w) * (n * w) /\ (4 * w) * (n * w) < (4 * w) * ((m + 1) * (m + 1))
    BY Zenon, <2>1 DEF RootDigits
  <2>3. PICK k \in Nat \ {0}, a \in Int, b \in Int, c \in Int :
          k = 4 * w /\ a = m * m /\ b = n * w /\ c = (m + 1) * (m + 1)
    OBVIOUS
  <2>4. k * a <= k * b /\ k * b < k * c
    BY Zenon, <2>2, <2>3
  <2>5. ~(k * b < k * a)
    <3>1. k * a \in Int /\ k * b \in Int
      OBVIOUS
    <3> QED BY <2>4, <3>1
  <2>6. b < a => k * b < k * a
    OBVIOUS
  <2>7. b < c
    BY <2>4, ProductOrder
  <2>8. a <= b
    BY <2>5, <2>6
  <2>9. m \in (2 * w)..(4 * w - 1)
    <3>1. m \in (2 * w)..(2 * (2 * w) - 1)
      BY Zenon DEF RootDigits
    <3> QED BY <3>1
  <2> QED BY Zenon, <2>3, <2>7, <2>8, <2>9
<1>2. m # 4 * w - 1
  <2> SUFFICES ASSUME m = 4 * w - 1 PROVE FALSE
    OBVIOUS
  <2>1. PICK a \in Int : a = w * w
    OBVIOUS
  <2>2. (4 * w - 1) * (4 * w - 1) = 16 * (w * w) - 8 * w + 1
    OBVIOUS
  <2>3. m * m = 16 * a - 8 * w + 1
    BY Zenon, <2>1, <2>2
  <2>4. n * w <= (8 * (2 * w - 1)) * w
    OBVIOUS
  <2>5. (8 * (2 * w - 1)) * w = 16 * (w * w) - 8 * w
    OBVIOUS
  <2>6. PICK b \in Int : b = n * w
    OBVIOUS
  <2>7. b <= 16 * a - 8 * w /\ 16 * a - 8 * w + 1 <= b
    BY Zenon, <1>1, <2>1, <2>3, <2>4, <2>5, <2>6
  <2> QED BY <2>7
<1>3. PICK h \in Nat, b \in 0..1 : m = 2 * h + b /\ h = m \div 2 /\ b = m % 2
  OBVIOUS
<1>4. h + b \in w..(2 * w - 1) /\ h - w \in 0..(w - 1) /\ h - w + b \in 0..(w - 1)
  BY <1>1, <1>2, <1>3
<1>5. h % w = h - w
  <2>1. w * 1 + (h - w) = h /\ 1 \in Int
    OBVIOUS
  <2>2. (w * 1 + (h - w)) % w = h - w
    BY <1>4, <2>1, DivisionUnique
  <2> QED BY Zenon, <2>1, <2>2
<1>6. ((h - w) + b) % w = (h + b) - w
  <2>1. (h - w) + b \in 0..(w - 1) /\ (h - w) + b \in Int /\ (h - w) + b = (h + b) - w
    BY <1>4
  <2>2. ((h - w) + b) % w = (h - w) + b
    BY <2>1, SmallRemainder
  <2> QED BY <2>1, <2>2
<1>7. ASSUME NEW u \in Nat, NEW v \in Nat, u < v PROVE (u + 1) * (u + 1) <= v * v
  <2>1. (u + 1) * (u + 1) <= (u + 1) * v /\ (u + 1) * v <= v * v
    BY <1>7
  <2>2. (u + 1) * (u + 1) \in Int /\ (u + 1) * v \in Int /\ v * v \in Int
    OBVIOUS
  <2> QED BY <2>1, <2>2
<1>8. PICK y \in Int : y = n * w
  OBVIOUS
<1>9. ASSUME NEW u \in Nat, u <= m PROVE u * u <= y
  <2>1. u * u <= m * u /\ m * u <= m * m
    BY <1>9
  <2>2. PICK a \in Int, c \in Int, f \in Int : a = u * u /\ c = m * u /\ f = m * m
    OBVIOUS
  <2>3. a <= c /\ c <= f /\ f <= y
    BY Zenon, <1>1, <1>8, <2>1, <2>2
  <2>4. a <= y
    BY <2>3
  <2> QED BY Zenon, <2>2, <2>4
<1>10. ASSUME NEW u \in Nat, m < u PROVE y < u * u
  <2>1. PICK a \in Int, c \in Int : a = (m + 1) * (m + 1) /\ c = u * u
    OBVIOUS
  <2>2. a <= c
    BY <1>7, <1>10, <2>1
  <2>3. y < a
    BY Zenon, <1>1, <1>8, <2>1
  <2>4. y < c
    BY <2>2, <2>3
  <2> QED BY Zenon, <2>1, <2>4
<1>11. ASSUME NEW x \in w..(2 * w - 1) PROVE Nearest(n, w, x) <=> x = h + b
  <2>1. 2 * x - 1 \in Nat /\ 2 * x + 1 \in Nat
    OBVIOUS
  <2>2. CASE x < h + b
    <3>1. 2 * x + 1 <= m
      BY <1>3, <2>2
    <3>2. (2 * x + 1) * (2 * x + 1) <= y
      BY <1>9, <2>1, <3>1
    <3>3. PICK a \in Int : a = (2 * x + 1) * (2 * x + 1)
      OBVIOUS
    <3>4. ~(y < a)
      BY <3>2, <3>3
    <3>5. ~Nearest(n, w, x)
      BY Zenon, <1>8, <3>3, <3>4 DEF Nearest
    <3> QED BY <2>2, <3>5
  <2>3. CASE x > h + b
    <3>1. m < 2 * x - 1
      BY <1>3, <2>3
    <3>2. y < (2 * x - 1) * (2 * x - 1)
      BY <1>10, <2>1, <3>1
    <3>3. PICK a \in Int : a = (2 * x - 1) * (2 * x - 1)
      OBVIOUS
    <3>4. ~(a <= y)
      BY <3>2, <3>3
    <3>5. ~Nearest(n, w, x)
      BY Zenon, <1>8, <3>3, <3>4 DEF Nearest
    <3> QED BY <2>3, <3>5
  <2>4. CASE x = h + b
    <3>1. 2 * x - 1 <= m /\ m < 2 * x + 1
      <4>1. m = 2 * h + b /\ 0 <= b /\ b <= 1 /\ h \in Int /\ b \in Int
        BY <1>3
      <4> QED BY <4>1, <2>4
    <3>2. (2 * x - 1) * (2 * x - 1) <= y
      BY <1>9, <2>1, <3>1
    <3>3. y < (2 * x + 1) * (2 * x + 1)
      BY <1>10, <2>1, <3>1
    <3> QED BY Zenon, <1>8, <2>4, <3>2, <3>3 DEF Nearest
  <2>5. x \in Int /\ h + b \in Int
    OBVIOUS
  <2> QED BY <2>2, <2>3, <2>4, <2>5
<1>12. ((((m \div 2) % w) + (m % 2)) % w) = (h + b) - w
  BY Zenon, <1>3, <1>5, <1>6
<1> QED BY <1>4, <1>11, <1>12

-----------------------------------------------------------------------------
(***************************************************************************)
(* The bits that a stage slices.                                           *)
(***************************************************************************)
\* The top bit of a vector of k + 1 bits.
LEMMA TopBit ==
  ASSUME NEW k \in Nat, NEW v \in Nat, v < 2 * Pow2[k]
  PROVE  BitOf(v, k) = IF v < Pow2[k] THEN 0 ELSE 1
<1>1. PICK K \in Nat \ {0} : K = Pow2[k]
  BY Pow2Def
<1>2. CASE v < K
  <2>1. v = K * 0 + v /\ v \in 0..(K - 1) /\ 0 \in Int
    BY <1>2
  <2>2. (K * 0 + v) \div K = 0
    BY <2>1, DivisionUnique
  <2>3. v \div K = 0
    BY Zenon, <2>1, <2>2
  <2> QED BY <1>1, <1>2, <2>3 DEF BitOf
<1>3. CASE v >= K
  <2>1. v = K * 1 + (v - K) /\ v - K \in 0..(K - 1) /\ 1 \in Int
    BY <1>1, <1>3
  <2>2. (K * 1 + (v - K)) \div K = 1
    BY <2>1, DivisionUnique
  <2>3. v \div K = 1
    BY Zenon, <2>1, <2>2
  <2>4. ~(v < K)
    BY <1>3
  <2> QED BY <1>1, <2>3, <2>4 DEF BitOf
<1> QED BY <1>2, <1>3

\* A number in the range of k + 1 bits is what they hold in two's complement.
LEMMA SignedOf ==
  ASSUME NEW k \in Nat, NEW K \in Nat \ {0}, K = Pow2[k], NEW t \in Int, -K <= t, t < K,
         NEW v \in 0..(2 * K - 1), NEW c \in Int, v = t + (2 * K) * c
  PROVE  /\ Signed(k + 1, v) = t
         /\ BitOf(v, k) = IF t >= 0 THEN 0 ELSE 1
<1>1. c = 0 \/ c = 1
  <2>1. c >= 2 => (2 * K) * 2 <= (2 * K) * c
    OBVIOUS
  <2>2. c <= -1 => (2 * K) * c <= (2 * K) * (-1)
    OBVIOUS
  <2>3. PICK z \in Int : z = (2 * K) * c
    OBVIOUS
  <2>4. ~(c >= 2)
    BY <2>1, <2>3
  <2>5. ~(c <= -1)
    BY <2>2, <2>3
  <2> QED BY <2>4, <2>5
<1>2. v = t \/ v = t + 2 * K
  BY <1>1
<1>3. BitOf(v, k) = IF v < K THEN 0 ELSE 1
  <2>1. v \in Nat /\ v < 2 * Pow2[k]
    OBVIOUS
  <2> QED BY <2>1, TopBit
<1>4. Pow2[k + 1] = 2 * K /\ (k + 1) - 1 = k
  BY Pow2Def
<1>5. Signed(k + 1, v) = v - (2 * K) * BitOf(v, k)
  BY Zenon, <1>4 DEF Signed
<1>6. CASE t >= 0
  <2>1. v = t /\ v < K
    BY <1>2, <1>6
  <2> QED BY <1>3, <1>5, <1>6, <2>1
<1>7. CASE ~(t >= 0)
  <2>1. v = t + 2 * K /\ ~(v < K)
    BY <1>2, <1>7
  <2> QED BY <1>3, <1>5, <1>7, <2>1
<1> QED BY <1>6, <1>7

\* Two slices of a number.
LEMMA Sliced ==
  ASSUME NEW v \in Nat, NEW b \in Nat, NEW n \in Nat, v < Pow2[b] * Pow2[n]
  PROVE  \E high \in Nat, low \in 0..(Pow2[b] - 1) :
           /\ v = Pow2[b] * high + low /\ high < Pow2[n]
           /\ Bits(v, (b + n) - 1, b) = high /\ Bits(v, b - 1, 0) = low
<1>1. PICK B \in Nat \ {0}, N \in Nat \ {0} : B = Pow2[b] /\ N = Pow2[n]
  BY Pow2Def
<1>2. PICK high \in Nat, low \in 0..(B - 1) : v = B * high + low /\ high = v \div B /\ low = v % B
  BY ZenonT(40), NaturalDivision
<1>3. high < N
  <2>1. B * high < B * N
    <3>1. B * high \in Int /\ B * N \in Int
      OBVIOUS
    <3> QED BY <1>1, <1>2, <3>1
  <2> QED BY <2>1, ProductOrder
<1>4. high % N = high
  BY <1>3, SmallRemainder
<1>5. v \in Int /\ 0 \in Nat
  OBVIOUS
<1>6. Bits(v, (b + n) - 1, b) = (v \div B) % N
  BY <1>1, <1>5, BitsDef
<1>7. Bits(v, (0 + b) - 1, 0) = (v \div Pow2[0]) % B
  BY <1>1, <1>5, BitsDef
<1>8. v \div Pow2[0] = v /\ (0 + b) - 1 = b - 1
  <2>1. Pow2[0] = 1
    BY Pow2Def
  <2>2. v \div 1 = v
    <3>1. v = 1 * v + 0 /\ 0 \in 0..(1 - 1)
      OBVIOUS
    <3>2. (1 * v + 0) \div 1 = v
      BY <3>1, DivisionUnique
    <3> QED BY Zenon, <3>1, <3>2
  <2> QED BY <2>1, <2>2
<1> QED BY Zenon, <1>1, <1>2, <1>3, <1>4, <1>6, <1>7, <1>8

\* What a stage of method 0 computes from the leading bits.
RestoredBits(k, s, high, g) ==
  LET tentative == (high - Cat(s, 2, 1)) % Pow2[k + 4]
  IN /\ g = 1 - BitOf(tentative, k + 3)
     /\ g \in 0..1 /\ (g = 1 <=> high >= 4 * s + 1)
     /\ Bits(IF g = 1 THEN tentative ELSE high, k + 2, 0) = high - g * (4 * s + 1)

\* A digit of the restoring method is one where the bits it looks at are four times the
\* root plus one or more: that is what the subtraction's sign bit says.
LEMMA RestoringBits ==
  ASSUME NEW k \in Nat, NEW s \in Nat, s < 2 * Pow2[k], NEW high \in Nat, high <= 8 * s + 3
  PROVE  \E g \in 0..1 : RestoredBits(k, s, high, g)
<1>1. PICK p \in Nat \ {0} : p = Pow2[k]
  BY Pow2Def
<1>2. Pow2[k + 3] = 8 * p /\ Pow2[k + 4] = 16 * p /\ Pow2[2] = 4
  <2>1. Pow2[k + 1] = 2 * p /\ Pow2[k + 2] = 2 * Pow2[k + 1] /\ Pow2[k + 3] = 2 * Pow2[k + 2] /\ Pow2[k + 4] = 2 * Pow2[k + 3]
    <3>1. /\ k + 1 \in Nat /\ k + 2 \in Nat /\ k + 3 \in Nat
          /\ (k + 1) + 1 = k + 2 /\ (k + 2) + 1 = k + 3 /\ (k + 3) + 1 = k + 4
      OBVIOUS
    <3> QED BY Zenon, <1>1, <3>1, Pow2Def
  <2>2. Pow2[1] = 2 /\ Pow2[2] = 4
    <3>1. Pow2[0 + 1] = 2 * Pow2[0] /\ Pow2[1 + 1] = 2 * Pow2[1]
      BY Pow2Def
    <3> QED BY <3>1, Pow2Def
  <2> QED BY <2>1, <2>2
<1>3. Cat(s, 2, 1) = 4 * s + 1
  BY <1>2 DEF Cat
<1> DEFINE m == (high - (4 * s + 1)) % (16 * p)
<1>4. ASSUME NEW v \in 0..(8 * p - 1) PROVE Bits(v, k + 2, 0) = v
  <2>1. v \in Int /\ 0 \in Nat /\ k + 3 \in Nat /\ (0 + (k + 3)) - 1 = k + 2
    OBVIOUS
  <2>2. Bits(v, (0 + (k + 3)) - 1, 0) = (v \div Pow2[0]) % Pow2[k + 3]
    BY <2>1, BitsDef
  <2>3. v \div Pow2[0] = v
    <3>1. v = 1 * v + 0 /\ 0 \in 0..(1 - 1)
      OBVIOUS
    <3>2. (1 * v + 0) \div 1 = v
      BY <3>1, DivisionUnique
    <3>3. Pow2[0] = 1
      BY Pow2Def
    <3> QED BY Zenon, <3>1, <3>2, <3>3
  <2>4. v % (8 * p) = v
    <3>1. 8 * p \in Nat \ {0}
      OBVIOUS
    <3> QED BY <2>1, <3>1, SmallRemainder
  <2> QED BY Zenon, <1>2, <2>1, <2>2, <2>3, <2>4
<1>5. 16 * p \in Nat \ {0} /\ high - (4 * s + 1) \in Int /\ k + 3 \in Nat
  OBVIOUS
<1>6. CASE high >= 4 * s + 1
  <2>1. high - (4 * s + 1) \in 0..(16 * p - 1) /\ high - (4 * s + 1) \in 0..(8 * p - 1)
    BY <1>1, <1>6
  <2>2. m = high - (4 * s + 1)
    BY <1>5, <2>1, SmallRemainder
  <2>3. BitOf(m, k + 3) = 0
    <3>1. m \in Nat /\ m < 2 * Pow2[k + 3] /\ m < Pow2[k + 3]
      BY <1>2, <2>1, <2>2
    <3> QED BY <1>5, <3>1, TopBit
  <2>4. Bits(m, k + 2, 0) = m
    BY <1>4, <2>1, <2>2
  <2>5. 1 = 1 - BitOf(m, k + 3) /\ high - 1 * (4 * s + 1) = high - (4 * s + 1)
    BY <2>3
  <2>6. RestoredBits(k, s, high, 1)
    <3> HIDE DEF m
    <3>1. m = (high - Cat(s, 2, 1)) % Pow2[k + 4]
      BY <1>2, <1>3 DEF m
    <3>2. 1 \in 0..1
      OBVIOUS
    <3> QED BY Zenon, <1>6, <2>2, <2>4, <2>5, <3>1, <3>2 DEF RestoredBits
  <2> QED BY <2>6
<1>7. CASE ~(high >= 4 * s + 1)
  <2>1. high - (4 * s + 1) \in (-(16 * p))..(-1) /\ high \in 0..(8 * p - 1)
    BY <1>1, <1>7
  <2>2. m = high - (4 * s + 1) + 16 * p
    BY <1>5, <2>1, SmallRemainder
  <2>3. BitOf(m, k + 3) = 1
    <3>1. m \in Nat /\ m < 2 * Pow2[k + 3] /\ ~(m < Pow2[k + 3])
      BY <1>1, <1>2, <2>1, <2>2
    <3> QED BY <1>5, <3>1, TopBit
  <2>4. Bits(high, k + 2, 0) = high
    BY <1>4, <2>1
  <2>5. 0 = 1 - BitOf(m, k + 3) /\ high - 0 * (4 * s + 1) = high /\ 0 # 1
    BY <2>3
  <2>6. RestoredBits(k, s, high, 0)
    <3> HIDE DEF m
    <3>1. m = (high - Cat(s, 2, 1)) % Pow2[k + 4]
      BY <1>2, <1>3 DEF m
    <3>2. 0 \in 0..1
      OBVIOUS
    <3> QED BY Zenon, <1>7, <2>4, <2>5, <3>1, <3>2 DEF RestoredBits
  <2> QED BY <2>6
<1> QED BY <1>6, <1>7

\* What a stage of method 1 computes from the leading bits: it keeps the value
\* modulo the range of the remainder.
NonRestoredBits(k, b, high, low, x) ==
  \E v \in 0..(32 * (Pow2[k] * Pow2[b]) - 1), c \in Int :
    /\ Cat(Bits((high + x) % Pow2[k + 6], k + 4, 0), b, low) = v
    /\ v = (high * Pow2[b] + low) + x * Pow2[b] + (32 * (Pow2[k] * Pow2[b])) * c

\* The bits a stage of method 1 keeps, above those it does not look at, are the sum of
\* the remainder and the shifted term, modulo the range of the remainder.
LEMMA NonRestoringBits ==
  ASSUME NEW k \in Nat, NEW b \in Nat, NEW high \in Int, NEW low \in 0..(Pow2[b] - 1), NEW x \in Int
  PROVE  NonRestoredBits(k, b, high, low, x)
<1>1. PICK p \in Nat \ {0}, l \in Nat \ {0} : p = Pow2[k] /\ l = Pow2[b]
  BY Pow2Def
<1>2. Pow2[k + 5] = 32 * p /\ Pow2[k + 6] = 64 * p
  <2>1. Pow2[k + 1] = 2 * p /\ Pow2[k + 2] = 2 * Pow2[k + 1] /\ Pow2[k + 3] = 2 * Pow2[k + 2]
    <3>1. k + 1 \in Nat /\ k + 2 \in Nat /\ (k + 1) + 1 = k + 2 /\ (k + 2) + 1 = k + 3
      OBVIOUS
    <3> QED BY Zenon, <1>1, <3>1, Pow2Def
  <2>2. Pow2[k + 4] = 2 * Pow2[k + 3] /\ Pow2[k + 5] = 2 * Pow2[k + 4] /\ Pow2[k + 6] = 2 * Pow2[k + 5]
    <3>1. /\ k + 3 \in Nat /\ k + 4 \in Nat /\ k + 5 \in Nat
          /\ (k + 3) + 1 = k + 4 /\ (k + 4) + 1 = k + 5 /\ (k + 5) + 1 = k + 6
      OBVIOUS
    <3> QED BY Zenon, <3>1, Pow2Def
  <2> QED BY <2>1, <2>2
<1>3. PICK a \in Int : a = high + x
  OBVIOUS
<1>4. 64 * p \in Nat \ {0} /\ 32 * p \in Nat \ {0}
  OBVIOUS
<1>5. PICK c1 \in Int, r1 \in 0..(64 * p - 1) : a = (64 * p) * c1 + r1 /\ r1 = a % (64 * p)
  BY ZenonT(40), <1>4, Division
<1>6. PICK c2 \in Int, r2 \in 0..(32 * p - 1) : r1 = (32 * p) * c2 + r2 /\ r2 = r1 % (32 * p)
  <2>1. r1 \in Int
    OBVIOUS
  <2> QED BY ZenonT(40), <1>4, <2>1, Division
<1>7. Bits(r1, k + 4, 0) = r2
  <2>1. r1 \in Int /\ 0 \in Nat /\ k + 5 \in Nat /\ (0 + (k + 5)) - 1 = k + 4
    OBVIOUS
  <2>2. Bits(r1, (0 + (k + 5)) - 1, 0) = (r1 \div Pow2[0]) % Pow2[k + 5]
    BY <2>1, BitsDef
  <2>3. r1 \div Pow2[0] = r1
    <3>1. r1 = 1 * r1 + 0 /\ 0 \in 0..(1 - 1) /\ 1 \in Nat \ {0}
      OBVIOUS
    <3>2. (1 * r1 + 0) \div 1 = r1
      BY <2>1, <3>1, DivisionUnique
    <3>3. Pow2[0] = 1
      BY Pow2Def
    <3> QED BY Zenon, <3>1, <3>2, <3>3
  <2> QED BY Zenon, <1>2, <1>6, <2>1, <2>2, <2>3
<1> DEFINE v == r2 * l + low
<1>8. v \in 0..(32 * (p * l) - 1)
  <2>1. r2 * l <= (32 * p - 1) * l /\ r2 * l >= 0
    OBVIOUS
  <2>2. (32 * p - 1) * l = 32 * (p * l) - l
    OBVIOUS
  <2>3. PICK y \in Int, z \in Int : y = r2 * l /\ z = p * l
    OBVIOUS
  <2> QED BY <1>1, <2>1, <2>2, <2>3
<1>9. v = (high * l + low) + x * l + (32 * (p * l)) * (-(2 * c1 + c2))
  <2>1. r2 = (high + x) - (32 * p) * (2 * c1 + c2)
    <3>1. (32 * p) * (2 * c1 + c2) = (64 * p) * c1 + (32 * p) * c2
      OBVIOUS
    <3>2. PICK u1 \in Int, u2 \in Int, u3 \in Int :
            u1 = (64 * p) * c1 /\ u2 = (32 * p) * c2 /\ u3 = (32 * p) * (2 * c1 + c2)
      OBVIOUS
    <3>3. a = u1 + r1 /\ r1 = u2 + r2 /\ u3 = u1 + u2
      BY Zenon, <1>5, <1>6, <3>1, <3>2
    <3>4. r2 = (high + x) - u3
      BY <1>3, <3>3
    <3> QED BY Zenon, <3>2, <3>4
  <2>2. PICK e \in Int : e = 2 * c1 + c2
    OBVIOUS
  <2>3. ((high + x) - (32 * p) * e) * l + low = (high * l + low) + x * l + (32 * (p * l)) * (-e)
    <3>1. ((32 * p) * e) * l = (32 * (p * l)) * e /\ (32 * (p * l)) * (-e) = -((32 * (p * l)) * e)
      OBVIOUS
    <3>2. PICK f \in Int : f = (32 * p) * e
      OBVIOUS
    <3>3. ((high + x) - f) * l = high * l + x * l - f * l
      OBVIOUS
    <3>4. PICK u1 \in Int, u2 \in Int, u3 \in Int :
            u1 = high * l /\ u2 = x * l /\ u3 = (32 * (p * l)) * e
      OBVIOUS
    <3>5. f * l = u3 /\ (32 * (p * l)) * (-e) = -u3
      BY Zenon, <3>1, <3>2, <3>4
    <3> QED BY <3>2, <3>3, <3>4, <3>5
  <2> QED BY Zenon, <2>1, <2>2, <2>3
<1>10. Cat(Bits((high + x) % Pow2[k + 6], k + 4, 0), b, low) = v
  BY Zenon, <1>1, <1>2, <1>3, <1>5, <1>7 DEF Cat
<1>11. -(2 * c1 + c2) \in Int
  OBVIOUS
<1> HIDE DEF v
<1> QED BY Zenon, <1>1, <1>8, <1>9, <1>10, <1>11 DEF NonRestoredBits

-----------------------------------------------------------------------------
(***************************************************************************)
(* What a format makes of the radicand.                                    *)
(***************************************************************************)
\* The fields of a number, with the powers of two of its format.
NumberFormat(f) == f.wE \in Nat \ {0} /\ f.wF \in Nat \ {0}
FieldsOf(f, x, w, g, e, frac) ==
  /\ Pow2[f.wF] = w /\ Pow2[f.wE] = g
  /\ Exponent(f, x) = e /\ e \in 0..(g - 1) /\ BitOf(x, f.wF) = e % 2
  /\ Fraction(f, x) = frac /\ frac \in 0..(w - 1) /\ Significand(f, x) = w + frac
  /\ Exn(f, x) \in 0..3 /\ Sign(f, x) \in 0..1

\* Every number has them.
LEMMA NumberFields ==
  ASSUME NEW f, NumberFormat(f), NEW x \in Numbers(f)
  PROVE  \E w \in Nat \ {0}, g \in Nat \ {0}, e \in Nat, frac \in Nat : FieldsOf(f, x, w, g, e, frac)
<1>1. PICK F \in Nat \ {0}, D \in Nat : F = f.wF /\ f.wE = D + 1
  <2>1. f.wF \in Nat \ {0} /\ f.wE - 1 \in Nat /\ f.wE = (f.wE - 1) + 1
    BY DEF NumberFormat
  <2> QED BY <2>1
<1>2. PICK w \in Nat \ {0}, b \in Nat \ {0} : w = Pow2[F] /\ b = Pow2[D]
  BY Pow2Def
<1>3. Pow2[D + 1] = 2 * b
  BY Zenon, <1>2, Pow2Def
<1>4. /\ f.wE - 1 = D /\ f.wE + f.wF = F + (D + 1) /\ f.wE + f.wF + 1 = F + (D + 2)
      /\ f.wE + f.wF + 3 = (F + (D + 2)) + 2
  BY <1>1
<1>5. Pow2[F + (D + 1)] = w * (2 * b)
  <2>1. D + 1 \in Nat
    OBVIOUS
  <2> QED BY <1>2, <1>3, <2>1, Pow2Sum
<1>6. PICK P \in Nat \ {0} : P = Pow2[F + (D + 2)]
  BY Pow2Def
<1>7. Pow2[(F + (D + 2)) + 2] = P * 4
  <2>1. F + (D + 2) \in Nat
    OBVIOUS
  <2>2. Pow2[2] = 4
    <3>1. Pow2[0 + 1] = 2 * Pow2[0] /\ Pow2[1 + 1] = 2 * Pow2[1]
      BY Pow2Def
    <3> QED BY <3>1, Pow2Def
  <2>3. PICK G \in Nat : G = F + (D + 2)
    BY <2>1
  <2>4. 2 \in Nat
    OBVIOUS
  <2>5. Pow2[G + 2] = Pow2[G] * Pow2[2]
    BY Zenon, <2>4, Pow2Sum
  <2> QED BY Zenon, <1>6, <2>2, <2>3, <2>5
<1>8. x \in Nat /\ x < P * 4
  BY <1>4, <1>7 DEF Numbers
<1>9. Exn(f, x) \in 0..3
  <2>1. PICK q \in Nat, r \in 0..(P - 1) : x = P * q + r /\ q = x \div P /\ P * q <= x
    BY ZenonT(40), <1>8, NaturalDivision
  <2>2. q < 4
    <3>1. P * q < P * 4
      <4>1. P * q \in Int /\ P * 4 \in Int
        OBVIOUS
      <4> QED BY <1>8, <2>1, <4>1
    <3> QED BY <3>1, ProductOrder
  <2>3. q \in 0..3
    BY <2>1, <2>2
  <2> QED BY Zenon, <1>4, <1>6, <2>1, <2>3 DEF Exn
<1>10. Sign(f, x) \in 0..1
  <2>1. PICK q \in Int : q = x \div Pow2[F + (D + 1)]
    <3>1. w * (2 * b) \in Nat \ {0} /\ x \in Int
      BY <1>8
    <3>2. x \div (w * (2 * b)) \in Int
      BY ZenonT(40), <3>1, Division
    <3> QED BY <1>5, <3>2
  <2>2. q % 2 \in 0..1
    OBVIOUS
  <2> QED BY Zenon, <1>4, <2>1, <2>2 DEF Sign, BitOf
<1>11. PICK q \in Nat, frac \in 0..(w - 1) : x = w * q + frac /\ q = x \div w /\ frac = x % w
  BY ZenonT(40), <1>8, NaturalDivision
<1>12. PICK c \in Int, e \in 0..(2 * b - 1) : q = (2 * b) * c + e /\ e = q % (2 * b)
  <2>1. 2 * b \in Nat \ {0} /\ q \in Int
    OBVIOUS
  <2> QED BY ZenonT(40), <2>1, Division
<1>13. Exponent(f, x) = e
  <2>1. f.wE + f.wF - 1 = (F + (D + 1)) - 1 /\ D + 1 \in Nat /\ x \in Int /\ F \in Nat
    BY <1>1, <1>8
  <2>2. Bits(x, (F + (D + 1)) - 1, F) = (x \div Pow2[F]) % Pow2[D + 1]
    BY <2>1, BitsDef
  <2> QED BY Zenon, <1>1, <1>2, <1>3, <1>11, <1>12, <2>1, <2>2 DEF Exponent
<1>14. Fraction(f, x) = frac
  <2>1. f.wF - 1 = (0 + F) - 1 /\ 0 \in Nat /\ x \in Int /\ F \in Nat
    BY <1>1, <1>8
  <2>2. Bits(x, (0 + F) - 1, 0) = (x \div Pow2[0]) % Pow2[F]
    BY <2>1, BitsDef
  <2>3. x \div Pow2[0] = x
    <3>1. x = 1 * x + 0 /\ 0 \in 0..(1 - 1) /\ 1 \in Nat \ {0}
      BY <1>8
    <3>2. (1 * x + 0) \div 1 = x
      BY <2>1, <3>1, DivisionUnique
    <3>3. Pow2[0] = 1
      BY Pow2Def
    <3> QED BY Zenon, <3>1, <3>2, <3>3
  <2> QED BY Zenon, <1>2, <1>11, <2>1, <2>2, <2>3 DEF Fraction
<1>15. BitOf(x, f.wF) = e % 2
  <2>1. q % 2 = e % 2
    <3>1. (2 * b) * c = 2 * (b * c)
      OBVIOUS
    <3>2. PICK u \in Int : u = b * c
      OBVIOUS
    <3>3. q = 2 * u + e
      BY Zenon, <1>12, <3>1, <3>2
    <3> QED BY <3>3
  <2> QED BY Zenon, <1>1, <1>2, <1>11, <2>1 DEF BitOf
<1>16. FieldsOf(f, x, w, 2 * b, e, frac)
  <2>1. Significand(f, x) = w + frac
    BY Zenon, <1>1, <1>2, <1>14 DEF Significand
  <2>2. Pow2[f.wE] = 2 * b /\ Pow2[f.wF] = w
    BY Zenon, <1>1, <1>2, <1>3
  <2> QED BY Zenon, <1>9, <1>10, <1>13, <1>14, <1>15, <2>1, <2>2 DEF FieldsOf
<1>17. e \in Nat /\ frac \in Nat /\ 2 * b \in Nat \ {0}
  OBVIOUS
<1> QED BY Zenon, <1>16, <1>17

\* The fields of the operand of a square root, whose exponent is halved.
Decoded(f, x, w, b, e, frac) ==
  FieldsOf(f, x, w, 4 * b, e, frac) /\ Pow2[f.wE - 2] = b /\ Pow2[f.wE - 1] = 2 * b

RootFormat(f) == f.wE \in Nat \ {0, 1} /\ f.wF \in Nat \ {0}

\* A format of the square root is one of numbers.
LEMMA RootFormatIs ==
  ASSUME NEW f, RootFormat(f)
  PROVE  NumberFormat(f)
  BY DEF RootFormat, NumberFormat

\* The fields of such a number.
LEMMA Decode ==
  ASSUME NEW f, RootFormat(f), NEW x \in Numbers(f)
  PROVE  \E w \in Nat \ {0}, b \in Nat \ {0}, e \in Nat, frac \in Nat : Decoded(f, x, w, b, e, frac)
<1>1. PICK D \in Nat : D = f.wE - 2 /\ f.wE - 1 = D + 1 /\ f.wE = (D + 1) + 1
  BY DEF RootFormat
<1>2. PICK b \in Nat \ {0} : b = Pow2[D]
  BY Pow2Def
<1>3. Pow2[D + 1] = 2 * b /\ Pow2[(D + 1) + 1] = 2 * Pow2[D + 1]
  <2>1. D + 1 \in Nat
    OBVIOUS
  <2> QED BY Zenon, <1>2, <2>1, Pow2Def
<1>4. Pow2[f.wE - 2] = b /\ Pow2[f.wE - 1] = 2 * b /\ Pow2[f.wE] = 4 * b
  <2>1. 2 * (2 * b) = 4 * b
    OBVIOUS
  <2> QED BY Zenon, <1>1, <1>2, <1>3, <2>1
<1>5. NumberFormat(f)
  BY RootFormatIs
<1>6. PICK w \in Nat \ {0}, g \in Nat \ {0}, e \in Nat, frac \in Nat : FieldsOf(f, x, w, g, e, frac)
  BY <1>5, NumberFields
<1>7. g = 4 * b
  BY Zenon, <1>4, <1>6 DEF FieldsOf
<1> QED BY Zenon, <1>4, <1>6, <1>7 DEF Decoded

\* The fields of an encoded number.
LEMMA EncodedFields ==
  ASSUME NEW f, NumberFormat(f), NEW exn \in 0..3, NEW sign \in 0..1,
         NEW e \in 0..(Pow2[f.wE] - 1), NEW frac \in 0..(Pow2[f.wF] - 1)
  PROVE  /\ Encode(f, exn, sign, e, frac) \in Nat
         /\ Exn(f, Encode(f, exn, sign, e, frac)) = exn
         /\ Sign(f, Encode(f, exn, sign, e, frac)) = sign
<1>1. PICK F \in Nat, D \in Nat : F = f.wF /\ D = f.wE
  BY DEF NumberFormat
<1>2. PICK w \in Nat \ {0}, g \in Nat \ {0} : w = Pow2[F] /\ g = Pow2[D]
  BY Pow2Def
<1>3. Pow2[D + F] = g * w /\ Pow2[D + F + 1] = 2 * (g * w) /\ Pow2[1] = 2
  <2>1. Pow2[D + F] = g * w
    BY <1>2, Pow2Sum
  <2>2. D + F \in Nat
    OBVIOUS
  <2>3. Pow2[D + F + 1] = 2 * Pow2[D + F]
    BY Zenon, <2>2, Pow2Def
  <2>4. Pow2[0 + 1] = 2 * Pow2[0]
    BY Pow2Def
  <2> QED BY <2>1, <2>3, <2>4, Pow2Def
<1>4. PICK h \in Nat \ {0} : h = g * w
  OBVIOUS
<1>5. PICK r \in 0..(h - 1) : r = e * w + frac
  <2>1. e \in 0..(g - 1) /\ frac \in 0..(w - 1)
    BY <1>1, <1>2
  <2>2. e * w <= (g - 1) * w /\ e * w >= 0
    BY <2>1
  <2>3. (g - 1) * w = g * w - w
    OBVIOUS
  <2>4. PICK y \in Int : y = e * w
    BY <2>1
  <2> QED BY <1>4, <2>1, <2>2, <2>3, <2>4
<1>6. Encode(f, exn, sign, e, frac) = h * (2 * exn + sign) + r
  <2>1. Encode(f, exn, sign, e, frac) = ((exn * 2 + sign) * g + e) * w + frac
    BY Zenon, <1>1, <1>2, <1>3 DEF Encode, Cat
  <2>2. PICK a \in Int : a = exn * 2 + sign
    OBVIOUS
  <2>3. (a * g + e) * w = (g * w) * a + e * w
    <3>1. e \in Int
      BY <1>1, <1>2
    <3> QED BY <3>1
  <2>4. PICK y \in Int, z \in Int : y = e * w /\ z = h * a
    <3>1. e \in Int
      BY <1>1, <1>2
    <3> QED BY <3>1
  <2>5. Encode(f, exn, sign, e, frac) = (z + y) + frac
    BY Zenon, <1>4, <2>1, <2>2, <2>3, <2>4
  <2>6. r = y + frac
    BY Zenon, <1>5, <2>4
  <2>7. (z + y) + frac = z + r
    <3>1. frac \in Int
      BY <1>1, <1>2
    <3> QED BY <2>6, <3>1
  <2>8. 2 * exn + sign = a
    BY <2>2
  <2> QED BY Zenon, <2>4, <2>5, <2>7, <2>8
<1>7. PICK a \in Nat : a = 2 * exn + sign
  OBVIOUS
<1>8. PICK v \in Nat : v = Encode(f, exn, sign, e, frac) /\ v = h * a + r
  <2>1. h * a + r \in Nat
    OBVIOUS
  <2> QED BY <1>6, <1>7, <2>1
<1>9. Sign(f, v) = sign
  <2>1. (h * a + r) \div h = a
    BY DivisionUnique
  <2>2. v \div h = a
    BY Zenon, <1>8, <2>1
  <2>3. a % 2 = sign
    BY <1>7
  <2>4. f.wE + f.wF = D + F
    BY <1>1
  <2> QED BY Zenon, <1>3, <1>4, <2>2, <2>3, <2>4 DEF Sign, BitOf
<1>10. Exn(f, v) = exn
  <2>1. sign * h + r \in 0..(2 * h - 1)
    <3>1. sign = 0 \/ sign = 1
      OBVIOUS
    <3> QED BY <3>1
  <2>2. v = (2 * h) * exn + (sign * h + r)
    <3>1. h * (2 * exn + sign) = (2 * h) * exn + sign * h
      OBVIOUS
    <3>2. PICK y \in Int, z \in Int : y = (2 * h) * exn /\ z = sign * h
      OBVIOUS
    <3>3. v = (y + z) + r
      BY Zenon, <1>7, <1>8, <3>1, <3>2
    <3>4. v = y + (z + r)
      BY <3>3
    <3> QED BY Zenon, <3>2, <3>4
  <2>3. ((2 * h) * exn + (sign * h + r)) \div (2 * h) = exn
    <3>1. 2 * h \in Nat \ {0} /\ exn \in Int
      OBVIOUS
    <3> QED BY <2>1, <3>1, DivisionUnique
  <2>4. f.wE + f.wF + 1 = D + F + 1
    BY <1>1
  <2> QED BY Zenon, <1>3, <1>4, <2>2, <2>3, <2>4 DEF Exn
<1> QED BY Zenon, <1>8, <1>9, <1>10

-----------------------------------------------------------------------------
(***************************************************************************)
(* The inductive invariant: the digits, and for each method the remainder  *)
(* that its bits stand for.                                                *)
(***************************************************************************)
RootTypes ==
  /\ RootFormat(rootFormat) /\ rooter.method \in {0, 1}
  /\ radicand \in Numbers(rootFormat)
  /\ stage \in Nat /\ stage <= rootWF + (1 - rooter.method)

RemainderInv ==
  /\ rooter.method = 0 => RestoringRemainder(Normed, Pow2[rootWF], Pow2[stage], S, T)
  /\ rooter.method = 1 =>
       \E t \in Int, c \in Int :
         /\ SignedRemainder(Normed, Pow2[rootWF], Pow2[stage], S, t)
         /\ T \in 0..(16 * Pow2[rootWF] - 1) /\ T = t + (16 * Pow2[rootWF]) * c

RootInv ==
  /\ SqrtIdle => stage = 0 /\ rootOut = -1
  /\ ~SqrtIdle => /\ RootTypes
                  /\ RootDigits(Normed, Pow2[rootWF], Pow2[stage], S)
                  /\ RemainderInv
  /\ SquareRootIsCorrect

\* The significand with its exponent's parity.
LEMMA NormedIs ==
  ASSUME NEW f, RootFormat(f), NEW x \in Numbers(f),
         NEW n, n = Significand(f, x) * (IF BitOf(x, f.wF) = 1 THEN 4 ELSE 8)
  PROVE  /\ n \in Nat /\ Pow2[f.wF] \in Nat \ {0}
         /\ 4 * Pow2[f.wF] <= n /\ n <= 8 * (2 * Pow2[f.wF] - 1)
         /\ RootDigits(n, Pow2[f.wF], 1, 1)
<1>1. PICK w \in Nat \ {0}, b \in Nat \ {0}, e \in Nat, frac \in Nat : Decoded(f, x, w, b, e, frac)
  BY Decode
<1>2. w = Pow2[f.wF] /\ Significand(f, x) = w + frac /\ frac \in 0..(w - 1)
  BY Zenon, <1>1 DEF Decoded, FieldsOf
<1>3. n = 4 * (w + frac) \/ n = 8 * (w + frac)
  BY <1>2
<1>4. n \in Nat /\ 4 * w <= n /\ n <= 8 * (2 * w - 1)
  BY <1>2, <1>3
<1>5. RootDigits(n, w, 1, 1)
  BY <1>4 DEF RootDigits
<1> QED BY Zenon, <1>2, <1>4, <1>5

\* R0 is the significand minus one.
LEMMA RestoringStart ==
  ASSUME NEW f, RootFormat(f), NEW x \in Numbers(f),
         NEW n, n = Significand(f, x) * (IF BitOf(x, f.wF) = 1 THEN 4 ELSE 8)
  PROVE  RestoringRemainder(n, Pow2[f.wF], 1, 1, R0(f, x))
<1>1. PICK w \in Nat \ {0}, b \in Nat \ {0}, e \in Nat, frac \in Nat : Decoded(f, x, w, b, e, frac)
  BY Decode
<1>2. w = Pow2[f.wF] /\ Significand(f, x) = w + frac /\ frac \in 0..(w - 1) /\ Fraction(f, x) = frac
  BY Zenon, <1>1 DEF Decoded, FieldsOf
<1>3. CASE BitOf(x, f.wF) = 1
  <2>1. R0(f, x) = 2 * frac
    BY Zenon, <1>2, <1>3 DEF R0
  <2>2. n = 4 * (w + frac)
    BY <1>2, <1>3
  <2>3. RestoringRemainder(n, w, 1, 1, 2 * frac)
    BY <1>2, <2>2 DEF RestoringRemainder
  <2> QED BY Zenon, <1>2, <2>1, <2>3
<1>4. CASE BitOf(x, f.wF) # 1
  <2>1. n = 8 * (w + frac)
    BY <1>2, <1>4
  <2>2. PICK G \in Nat : f.wF = G + 1 /\ f.wF - 1 = G /\ f.wF - 2 = G - 1
    <3>1. f.wF \in Nat \ {0}
      BY DEF RootFormat
    <3>2. f.wF - 1 \in Nat /\ f.wF = (f.wF - 1) + 1 /\ f.wF - 2 = (f.wF - 1) - 1
      BY <3>1
    <3> QED BY <3>2
  <2>3. PICK h \in Nat \ {0} : h = Pow2[G] /\ w = 2 * h
    <3>1. Pow2[G] \in Nat \ {0} /\ Pow2[G + 1] = 2 * Pow2[G]
      BY Pow2Def
    <3> QED BY <1>2, <2>2, <3>1
  <2>4. x \in Int
    BY DEF Numbers
  <2>5. PICK q \in Int, low \in 0..(h - 1) : x = h * q + low /\ q = x \div h /\ low = x % h
    BY ZenonT(40), <2>4, Division
  <2>6. PICK c \in Int, top \in 0..1 : q = 2 * c + top /\ top = q % 2
    OBVIOUS
  <2>7. BitOf(x, G) = top
    BY Zenon, <2>3, <2>5, <2>6 DEF BitOf
  <2>8. Bits(x, G - 1, 0) = low
    <3>1. x \in Int /\ 0 \in Nat /\ (0 + G) - 1 = G - 1
      BY <2>4
    <3>2. Bits(x, (0 + G) - 1, 0) = (x \div Pow2[0]) % Pow2[G]
      BY <3>1, BitsDef
    <3>3. x \div Pow2[0] = x
      <4>1. x = 1 * x + 0 /\ 0 \in 0..(1 - 1) /\ 1 \in Nat \ {0}
        BY <2>4
      <4>2. (1 * x + 0) \div 1 = x
        BY <3>1, <4>1, DivisionUnique
      <4>3. Pow2[0] = 1
        BY Pow2Def
      <4> QED BY Zenon, <4>1, <4>2, <4>3
    <3> QED BY Zenon, <2>3, <2>5, <3>1, <3>2, <3>3
  <2>9. frac = h * top + low
    <3>1. frac = x % w
      <4>1. f.wF - 1 = (0 + (G + 1)) - 1 /\ 0 \in Nat /\ G + 1 \in Nat
        BY <2>2
      <4>2. Bits(x, (0 + (G + 1)) - 1, 0) = (x \div Pow2[0]) % Pow2[G + 1]
        BY <2>4, <4>1, BitsDef
      <4>3. x \div Pow2[0] = x
        <5>1. x = 1 * x + 0 /\ 0 \in 0..(1 - 1) /\ 1 \in Nat \ {0}
          BY <2>4
        <5>2. (1 * x + 0) \div 1 = x
          BY <2>4, <5>1, DivisionUnique
        <5>3. Pow2[0] = 1
          BY Pow2Def
        <5> QED BY Zenon, <5>1, <5>2, <5>3
      <4> QED BY Zenon, <1>2, <2>2, <4>1, <4>2, <4>3 DEF Fraction
    <3>2. x = w * c + (h * top + low)
      <4>1. h * (2 * c + top) = (2 * h) * c + h * top
        OBVIOUS
      <4>2. PICK u \in Int, v \in Int : u = (2 * h) * c /\ v = h * top
        OBVIOUS
      <4>3. x = (u + v) + low
        BY Zenon, <2>5, <2>6, <4>1, <4>2
      <4>4. x = u + (v + low)
        BY <4>3
      <4> QED BY Zenon, <2>3, <4>2, <4>4
    <3>3. h * top + low \in 0..(w - 1)
      <4>1. top = 0 \/ top = 1
        OBVIOUS
      <4> QED BY <2>3, <4>1
    <3>4. (w * c + (h * top + low)) % w = h * top + low
      BY <3>3, DivisionUnique
    <3> QED BY Zenon, <3>1, <3>2, <3>4
  <2>10. R0(f, x) = ((top * 2 + (1 - top)) * h + low) * 4
    <3>1. Pow2[1] = 2 /\ Pow2[2] = 4
      <4>1. Pow2[0 + 1] = 2 * Pow2[0] /\ Pow2[1 + 1] = 2 * Pow2[1]
        BY Pow2Def
      <4> QED BY <4>1, Pow2Def
    <3>2. R0(f, x) = ((top * 2 + (1 - top)) * h + low) * 4 + 0
      BY Zenon, <1>4, <2>2, <2>3, <2>7, <2>8, <3>1 DEF R0, Cat
    <3>3. ((top * 2 + (1 - top)) * h + low) * 4 \in Int
      OBVIOUS
    <3> QED BY <3>2, <3>3
  <2>11. R0(f, x) = 4 * frac + 2 * w
    <3>1. CASE top = 0
      BY <2>3, <2>9, <2>10, <3>1
    <3>2. CASE top = 1
      BY <2>3, <2>9, <2>10, <3>2
    <3> QED BY <3>1, <3>2
  <2>12. RestoringRemainder(n, w, 1, 1, 4 * frac + 2 * w)
    BY <1>2, <2>1 DEF RestoringRemainder
  <2> QED BY Zenon, <1>2, <2>11, <2>12
<1> QED BY <1>3, <1>4

\* T1 is the significand minus the square of one and a half.
LEMMA NonRestoringStart ==
  ASSUME NEW f, RootFormat(f), NEW x \in Numbers(f),
         NEW n, n = Significand(f, x) * (IF BitOf(x, f.wF) = 1 THEN 4 ELSE 8)
  PROVE  \E t \in Int, c \in Int :
           /\ SignedRemainder(n, Pow2[f.wF], 1, 1, t)
           /\ T1(f, x) \in 0..(16 * Pow2[f.wF] - 1) /\ T1(f, x) = t + (16 * Pow2[f.wF]) * c
<1>1. PICK w \in Nat \ {0}, F \in Nat : w = Pow2[F] /\ F = f.wF
  BY Pow2Def DEF RootFormat
<1>2. n \in Nat
  BY Zenon, NormedIs
<1>3. PICK q \in Nat, low \in 0..(w - 1) : n = w * q + low /\ q = n \div w /\ low = n % w
  BY ZenonT(40), <1>2, NaturalDivision
<1>4. PICK c \in Int, r \in 0..15 : 7 + q = 16 * c + r /\ r = (7 + q) % 16
  OBVIOUS
<1>5. Bits(n, F - 1, 0) = low
  <2>1. n \in Int /\ 0 \in Nat /\ (0 + F) - 1 = F - 1
    BY <1>2
  <2>2. Bits(n, (0 + F) - 1, 0) = (n \div Pow2[0]) % Pow2[F]
    BY ZenonT(40), <2>1, BitsDef
  <2>3. n \div Pow2[0] = n
    <3>1. n = 1 * n + 0 /\ 0 \in 0..(1 - 1) /\ 1 \in Nat \ {0}
      BY <1>2
    <3>2. (1 * n + 0) \div 1 = n
      BY <2>1, <3>1, DivisionUnique
    <3>3. Pow2[0] = 1
      BY Pow2Def
    <3> QED BY Zenon, <3>1, <3>2, <3>3
  <2> QED BY Zenon, <1>1, <1>3, <2>1, <2>2, <2>3
<1>6. T1(f, x) = r * w + low
  BY Zenon, <1>1, <1>3, <1>4, <1>5 DEF T1, Cat
<1>7. r * w + low \in 0..(16 * w - 1)
  <2>1. r * w <= 15 * w /\ r * w >= 0
    OBVIOUS
  <2>2. PICK y \in Int : y = r * w
    OBVIOUS
  <2> QED BY <2>1, <2>2
<1>8. r * w + low = (n - 9 * w) + (16 * w) * (1 - c)
  <2>1. r = (7 + q) - 16 * c
    BY <1>4
  <2>2. ((7 + q) - 16 * c) * w = (7 * w + w * q) - 16 * (w * c) /\ (16 * w) * (1 - c) = 16 * w - 16 * (w * c)
    OBVIOUS
  <2>3. PICK y \in Int, z \in Int : y = w * q /\ z = w * c
    OBVIOUS
  <2>4. r * w = (7 * w + y) - 16 * z /\ (16 * w) * (1 - c) = 16 * w - 16 * z /\ n = y + low
    BY Zenon, <1>3, <2>1, <2>2, <2>3
  <2>5. PICK u \in Int, v \in Int : u = r * w /\ v = (16 * w) * (1 - c)
    OBVIOUS
  <2>6. u + low = (n - 9 * w) + v
    BY <2>4, <2>5
  <2> QED BY Zenon, <2>5, <2>6
<1>9. SignedRemainder(n, w, 1, 1, n - 9 * w)
  BY <1>2 DEF SignedRemainder
<1>10. n - 9 * w \in Int /\ 1 - c \in Int
  BY <1>2
<1> QED BY Zenon, <1>1, <1>6, <1>7, <1>8, <1>9, <1>10

\* A number enters.
LEMMA RootEnters ==
  ASSUME RootInv, NEW method \in SqrtMethods, NEW f \in SqrtFormats, NEW x \in CanonicalNumbers(f),
         Root(method, f, x)
  PROVE  RootInv'
<1>1. /\ rooter' = [method |-> method, f |-> f] /\ radicand' = x
      /\ T' = (IF method = 0 THEN R0(f, x) ELSE T1(f, x)) /\ S' = 1
      /\ stage' = 0 /\ rootOut' = -1
  BY DEF Root, RootInv
<1>2. rooter'.f = f /\ rooter'.method = method /\ rooter' # <<>>
  <2>1. [method |-> method, f |-> f] # <<>>
    OBVIOUS
  <2> QED BY <1>1, <2>1
<1>3. RootFormat(f) /\ x \in Numbers(f) /\ method \in {0, 1}
  BY FPSqrtAssumption DEF RootFormat, CanonicalNumbers
<1>4. PICK n : n = Significand(f, x) * (IF BitOf(x, f.wF) = 1 THEN 4 ELSE 8)
  OBVIOUS
<1>5. Normed' = n
  BY Zenon, <1>1, <1>2, <1>4 DEF Normed, rootFormat, rootWF
<1>6. RootTypes'
  <2>1. 0 \in Nat /\ 0 <= f.wF + (1 - method)
    BY <1>3 DEF RootFormat
  <2> QED BY Zenon, <1>1, <1>2, <1>3, <2>1 DEF RootTypes, rootFormat, rootWF
<1>7. Pow2[stage'] = 1
  BY <1>1, Pow2Def
<1>8. RootDigits(Normed, Pow2[rootWF], Pow2[stage], S)'
  <2>1. RootDigits(n, Pow2[f.wF], 1, 1)
    BY Zenon, <1>3, <1>4, NormedIs
  <2> QED BY Zenon, <1>1, <1>2, <1>5, <1>7, <2>1 DEF rootWF, rootFormat
<1>9. RemainderInv'
  <2>1. CASE method = 0
    <3>1. RestoringRemainder(n, Pow2[f.wF], 1, 1, R0(f, x))
      BY Zenon, <1>3, <1>4, RestoringStart
    <3>2. T' = R0(f, x) /\ method # 1
      BY <1>1, <2>1
    <3> QED BY Zenon, <1>1, <1>2, <1>5, <1>7, <3>1, <3>2 DEF rootWF, rootFormat, RemainderInv
  <2>2. CASE method = 1
    <3>1. \E t \in Int, c \in Int :
           /\ SignedRemainder(n, Pow2[f.wF], 1, 1, t)
           /\ T1(f, x) \in 0..(16 * Pow2[f.wF] - 1) /\ T1(f, x) = t + (16 * Pow2[f.wF]) * c
      BY Zenon, <1>3, <1>4, NonRestoringStart
    <3>2. T' = T1(f, x) /\ method # 0
      BY <1>1, <2>2
    <3> QED BY Zenon, <1>1, <1>2, <1>5, <1>7, <3>1, <3>2 DEF rootWF, rootFormat, RemainderInv
  <2> QED BY <1>3, <2>1, <2>2
<1>10. SquareRootIsCorrect'
  BY <1>1 DEF SquareRootIsCorrect
<1>11. ~SqrtIdle'
  BY <1>2 DEF SqrtIdle
<1> QED BY Zenon, <1>6, <1>8, <1>9, <1>10, <1>11 DEF RootInv

\* The types of a root that is computed.
LEMMA RootWidths ==
  ASSUME RootInv, ~SqrtIdle
  PROVE  /\ rootWF \in Nat \ {0} /\ stage \in Nat /\ Normed \in Nat
         /\ rooter.method = 0 \/ rooter.method = 1
         /\ Pow2[rootWF] \in Nat \ {0} /\ Pow2[stage] \in Nat \ {0}
         /\ S \in Nat /\ S < 2 * Pow2[stage]
         /\ RootDigits(Normed, Pow2[rootWF], Pow2[stage], S)
<1>1. RootTypes /\ RootDigits(Normed, Pow2[rootWF], Pow2[stage], S)
  BY DEF RootInv
<1>2. Normed \in Nat
  <2>1. RootFormat(rootFormat) /\ radicand \in Numbers(rootFormat)
    BY Zenon, <1>1 DEF RootTypes
  <2>2. Normed = Significand(rootFormat, radicand) * (IF BitOf(radicand, rootFormat.wF) = 1 THEN 4 ELSE 8)
    BY Zenon DEF Normed, rootWF
  <2> QED BY Zenon, <2>1, <2>2, NormedIs
<1>3. rootWF \in Nat \ {0} /\ stage \in Nat
  BY <1>1 DEF RootTypes, RootFormat, rootWF
<1>4. Pow2[rootWF] \in Nat \ {0} /\ Pow2[stage] \in Nat \ {0} /\ Pow2[stage] \in Int
  BY <1>3, Pow2Def
<1>5. S \in Pow2[stage]..(2 * Pow2[stage] - 1)
  BY Zenon, <1>1 DEF RootDigits
<1>6. PICK p \in Nat \ {0} : p = Pow2[stage]
  BY <1>4
<1>7. S \in Nat /\ S < 2 * p
  BY <1>5, <1>6
<1>8. rooter.method = 0 \/ rooter.method = 1
  BY <1>1 DEF RootTypes
<1> QED BY Zenon, <1>1, <1>2, <1>3, <1>4, <1>6, <1>7, <1>8

\* A stage of method 0 finds a digit and keeps what is left.
LEMMA RestoringStageInv ==
  ASSUME RootInv, RestoringStage
  PROVE  RootInv'
<1>1. /\ ~SqrtIdle /\ rooter.method = 0 /\ stage <= rootWF /\ stage' = stage + 1
      /\ rooter' = rooter /\ radicand' = radicand /\ rootOut' = rootOut
  BY DEF RestoringStage
<1>2. PICK F \in Nat, k \in Nat, w \in Nat \ {0}, p \in Nat \ {0}, n \in Nat, s \in Nat :
        /\ F = rootWF /\ k = stage /\ w = Pow2[F] /\ p = Pow2[k] /\ n = Normed /\ s = S /\ k <= F
        /\ s < 2 * p
  BY <1>1, RootWidths
<1>3. RootDigits(n, w, p, s) /\ RestoringRemainder(n, w, p, s, T)
  BY Zenon, <1>1, <1>2 DEF RootInv, RemainderInv
<1>4. PICK t \in Nat : t = T
  BY Zenon, <1>3 DEF RestoringRemainder
<1>5. PICK b \in Nat : b = F - k
  BY <1>2
<1>6. PICK l \in Nat \ {0} : l = Pow2[b] /\ w = p * l
  <2>1. F = k + b
    BY <1>2, <1>5
  <2>2. Pow2[k + b] = Pow2[k] * Pow2[b]
    BY Pow2Sum
  <2> QED BY <1>2, <2>1, <2>2, Pow2Def
<1>7. Pow2[k + 1] = 2 * p /\ Pow2[k + 4] = 16 * p
  <2>1. Pow2[k + 1] = 2 * p /\ Pow2[k + 2] = 2 * Pow2[k + 1] /\ Pow2[k + 3] = 2 * Pow2[k + 2] /\ Pow2[k + 4] = 2 * Pow2[k + 3]
    <3>1. /\ k + 1 \in Nat /\ k + 2 \in Nat /\ k + 3 \in Nat
          /\ (k + 1) + 1 = k + 2 /\ (k + 2) + 1 = k + 3 /\ (k + 3) + 1 = k + 4
      OBVIOUS
    <3> QED BY Zenon, <1>2, <3>1, Pow2Def
  <2> QED BY <2>1
\* The leading bits of the doubled remainder, and the others.
<1>8. PICK high \in Nat, low \in 0..(l - 1) : 2 * t = l * high + low /\ high = (2 * t) \div l
  <2>1. 2 * t \in Nat
    OBVIOUS
  <2> QED BY ZenonT(40), <2>1, NaturalDivision
<1>9. ASSUME NEW g \in 0..1, g = 1 <=> high >= 4 * s + 1
      PROVE  /\ high <= 8 * s + 3
             /\ RootDigits(n, w, 2 * p, 2 * s + g)
             /\ RestoringRemainder(n, w, 2 * p, 2 * s + g, (high - g * (4 * s + 1)) * l + low)
  <2>1. RestoringRemainder(n, w, p, s, t)
    BY <1>3, <1>4
  <2> QED BY ZenonT(40), <1>3, <1>6, <1>8, <1>9, <2>1, RestoringDigit
<1>10. high <= 8 * s + 3
  <2>1. CASE high >= 4 * s + 1
    <3>1. 1 \in 0..1 /\ (1 = 1 <=> high >= 4 * s + 1)
      BY <2>1
    <3> QED BY ZenonT(40), <1>9, <3>1
  <2>2. CASE ~(high >= 4 * s + 1)
    BY <2>2
  <2> QED BY <2>1, <2>2
<1>11. PICK g \in 0..1 : RestoredBits(k, s, high, g)
  BY <1>2, <1>10, RestoringBits
<1>12. /\ Bits(2 * t, F + 3, F - k) = high /\ Bits(2 * t, (F - k) - 1, 0) = low
  <2>1. high < 16 * p
    BY <1>2, <1>10
  <2>2. 2 * t < Pow2[b] * Pow2[k + 4]
    <3>1. l * high + low < l * (high + 1) /\ l * (high + 1) <= l * (16 * p)
      <4>1. l * (high + 1) = l * high + l
        OBVIOUS
      <4>2. high + 1 <= 16 * p
        BY <2>1
      <4>3. l * (high + 1) <= l * (16 * p)
        BY <4>2, ProductOrder
      <4>4. PICK u \in Int : u = l * high
        OBVIOUS
      <4> QED BY <4>1, <4>3, <4>4
    <3>2. PICK u \in Int, v \in Int, z \in Int : u = l * high + low /\ v = l * (high + 1) /\ z = l * (16 * p)
      OBVIOUS
    <3>3. u < z
      BY <3>1, <3>2
    <3> QED BY Zenon, <1>6, <1>7, <1>8, <3>2, <3>3
  <2>3. 2 * t \in Nat /\ k + 4 \in Nat
    OBVIOUS
  <2>4. PICK h2 \in Nat, l2 \in 0..(Pow2[b] - 1) :
           /\ 2 * t = Pow2[b] * h2 + l2
           /\ Bits(2 * t, (b + (k + 4)) - 1, b) = h2 /\ Bits(2 * t, b - 1, 0) = l2
    BY <2>2, <2>3, Sliced
  <2>5. h2 = high /\ l2 = low
    <3>1. h2 \in Int /\ high \in Int
      OBVIOUS
    <3>2. l2 \in 0..(l - 1)
      BY <1>6
    <3>3. (l * h2 + l2) \div l = h2 /\ (l * h2 + l2) % l = l2
      BY <3>1, <3>2, DivisionUnique
    <3>4. (l * high + low) \div l = high /\ (l * high + low) % l = low
      BY <3>1, DivisionUnique
    <3> QED BY Zenon, <1>6, <1>8, <2>4, <3>3, <3>4
  <2>6. (b + (k + 4)) - 1 = F + 3 /\ b = F - k
    BY <1>2, <1>5
  <2> QED BY Zenon, <2>4, <2>5, <2>6
<1>13. T' = (high - g * (4 * s + 1)) * l + low /\ S' = 2 * s + g
  <2>1. /\ (stage + 1) + 3 = k + 4 /\ rootWF + 4 - ((stage + 1) + 3) = F - k
        /\ rootWF + 3 - ((stage + 1) + 3) = (F - k) - 1 /\ rootWF + 3 = F + 3
        /\ ((stage + 1) + 3) - 1 = k + 3 /\ ((stage + 1) + 3) - 2 = k + 2
    BY <1>2
  <2> DEFINE m == (high - Cat(s, 2, 1)) % Pow2[k + 4]
             dd == 1 - BitOf(m, k + 3)
  <2>2. /\ T' = Cat(Bits(IF dd = 1 THEN m ELSE high, k + 2, 0), F - k, low)
        /\ S' = Cat(S, 1, dd)
    BY Zenon, <1>2, <1>4, <1>12, <2>1 DEF RestoringStage
  <2>3. g = dd /\ Bits(IF g = 1 THEN m ELSE high, k + 2, 0) = high - g * (4 * s + 1)
    BY Zenon, <1>11 DEF RestoredBits
  <2> HIDE DEF m, dd
  <2>4. T' = (high - g * (4 * s + 1)) * l + low
    BY Zenon, <1>5, <1>6, <2>2, <2>3 DEF Cat
  <2>5. Pow2[1] = 2
    <3>1. Pow2[0 + 1] = 2 * Pow2[0]
      BY Pow2Def
    <3> QED BY <3>1, Pow2Def
  <2>6. S' = s * 2 + g
    BY Zenon, <1>2, <2>2, <2>3, <2>5 DEF Cat
  <2>7. s * 2 + g = 2 * s + g
    OBVIOUS
  <2> QED BY Zenon, <2>4, <2>6, <2>7
<1>14. g = 1 <=> high >= 4 * s + 1
  BY Zenon, <1>11 DEF RestoredBits
<1>15. /\ RootDigits(n, w, 2 * p, 2 * s + g)
       /\ RestoringRemainder(n, w, 2 * p, 2 * s + g, (high - g * (4 * s + 1)) * l + low)
  BY Zenon, <1>9, <1>14
<1>16. Normed' = n /\ rootWF' = F /\ rooter'.method = 0 /\ stage' = k + 1 /\ rootFormat' = rootFormat
  BY Zenon, <1>1, <1>2 DEF Normed, rootWF, rootFormat
<1>17. RootDigits(Normed, Pow2[rootWF], Pow2[stage], S)'
  BY Zenon, <1>2, <1>7, <1>13, <1>15, <1>16
<1>18. RemainderInv'
  <2>1. 0 # 1
    OBVIOUS
  <2> QED BY Zenon, <1>2, <1>7, <1>13, <1>15, <1>16, <2>1 DEF RemainderInv
<1>19. RootTypes'
  <2>1. RootTypes
    BY <1>1 DEF RootInv
  <2>2. stage' \in Nat /\ stage' <= F + (1 - rooter'.method)
    BY <1>2, <1>16
  <2> QED BY Zenon, <1>1, <1>16, <2>1, <2>2 DEF RootTypes
<1>20. SquareRootIsCorrect' /\ ~SqrtIdle'
  BY <1>1 DEF RootInv, SquareRootIsCorrect, SqrtIdle, rootFormat
<1> QED BY Zenon, <1>17, <1>18, <1>19, <1>20 DEF RootInv

\* A stage of method 1 finds a digit and keeps the remainder modulo its range.
LEMMA NonRestoringStageInv ==
  ASSUME RootInv, NonRestoringStage
  PROVE  RootInv'
<1>1. /\ ~SqrtIdle /\ rooter.method = 1 /\ stage < rootWF /\ stage' = stage + 1
      /\ rooter' = rooter /\ radicand' = radicand /\ rootOut' = rootOut
  BY DEF NonRestoringStage
<1>2. PICK F \in Nat, k \in Nat, w \in Nat \ {0}, p \in Nat \ {0}, n \in Nat, s \in Nat :
        /\ F = rootWF /\ k = stage /\ w = Pow2[F] /\ p = Pow2[k] /\ n = Normed /\ s = S /\ k < F
        /\ s < 2 * p
  BY <1>1, RootWidths
<1>3. PICK t \in Int, c \in Int :
        /\ SignedRemainder(n, w, p, s, t)
        /\ T \in 0..(16 * w - 1) /\ T = t + (16 * w) * c
  BY Zenon, <1>1, <1>2 DEF RootInv, RemainderInv
<1>4. RootDigits(n, w, p, s)
  BY Zenon, <1>1, <1>2 DEF RootInv
<1>5. PICK b \in Nat : b = F - 1 - k
  BY <1>2
<1>6. PICK l \in Nat \ {0} : l = Pow2[b] /\ w = p * (2 * l) /\ w = 2 * (p * l)
  <2>1. F = k + (b + 1) /\ b + 1 \in Nat
    BY <1>2, <1>5
  <2>2. Pow2[k + (b + 1)] = Pow2[k] * Pow2[b + 1]
    BY <2>1, Pow2Sum
  <2>3. Pow2[b] \in Nat \ {0} /\ Pow2[b + 1] = 2 * Pow2[b]
    BY Pow2Def
  <2>4. PICK l \in Nat \ {0} : l = Pow2[b]
    BY <2>3
  <2>5. w = p * (2 * l)
    BY Zenon, <1>2, <2>1, <2>2, <2>3, <2>4
  <2>6. p * (2 * l) = 2 * (p * l)
    OBVIOUS
  <2> QED BY Zenon, <2>4, <2>5, <2>6
<1>7. Pow2[k + 1] = 2 * p
  BY <1>2, Pow2Def
<1>8. -(8 * w) <= t /\ t < 8 * w
  BY ZenonT(40), <1>3, <1>4, SignedRange
\* The digit is the sign.
<1>9. BitOf(T, F + 3) = IF t >= 0 THEN 0 ELSE 1
  <2>1. Pow2[F + 3] = 8 * w
    <3>1. Pow2[F + 1] = 2 * w /\ Pow2[F + 2] = 2 * Pow2[F + 1] /\ Pow2[F + 3] = 2 * Pow2[F + 2]
      <4>1. F + 1 \in Nat /\ F + 2 \in Nat /\ (F + 1) + 1 = F + 2 /\ (F + 2) + 1 = F + 3
        OBVIOUS
      <4> QED BY Zenon, <1>2, <4>1, Pow2Def
    <3> QED BY <3>1
  <2>2. PICK H \in Nat \ {0} : H = 8 * w
    OBVIOUS
  <2>3. F + 3 \in Nat /\ T \in 0..(2 * H - 1) /\ 2 * H = 16 * w
    BY <1>3, <2>2
  <2>4. -H <= t /\ t < H /\ T = t + (2 * H) * c
    <3>1. T = t + (2 * H) * c
      BY Zenon, <1>3, <2>3
    <3> QED BY <1>8, <2>2, <3>1
  <2> QED BY <2>1, <2>2, <2>3, <2>4, SignedOf
<1>10. PICK g \in 0..1 : g = 1 - BitOf(T, F + 3) /\ (g = 1 <=> t >= 0)
  <2>1. CASE t >= 0
    BY <1>9, <2>1
  <2>2. CASE ~(t >= 0)
    BY <1>9, <2>2
  <2> QED BY <2>1, <2>2
<1>11. PICK U \in Int : U = 8 * s + 2 * g + 3
  OBVIOUS
<1>12. PICK x \in Int : x = -((2 * g - 1) * U) /\ x = (IF g = 1 THEN -U ELSE U)
  <2>1. g = 0 \/ g = 1
    OBVIOUS
  <2>2. -((2 * g - 1) * U) = (IF g = 1 THEN -U ELSE U)
    BY <2>1
  <2> QED BY <2>2
<1>13. PICK r \in Int : r = 2 * t - ((2 * g - 1) * (8 * s + 2 * g + 3)) * l
  OBVIOUS
<1>14. /\ RootDigits(n, w, 2 * p, 2 * s + g)
       /\ SignedRemainder(n, w, 2 * p, 2 * s + g, r)
  BY ZenonT(150), <1>3, <1>4, <1>6, <1>10, <1>13, NonRestoringDigit
<1>15. r = 2 * t + x * l
  <2>1. PICK y \in Int : y = (2 * g - 1) * U
    OBVIOUS
  <2>2. (-y) * l = -(y * l)
    OBVIOUS
  <2>3. PICK z \in Int : z = y * l
    OBVIOUS
  <2>4. x * l = -z /\ r = 2 * t - z
    BY Zenon, <1>11, <1>12, <1>13, <2>1, <2>2, <2>3
  <2>5. 2 * t - z = 2 * t + (-z)
    OBVIOUS
  <2> QED BY Zenon, <2>4, <2>5
\* The slices of the doubled remainder.
<1>16. PICK high \in Nat, low \in 0..(l - 1) :
         /\ 2 * T = l * high + low
         /\ Bits(2 * T, F + 4, b) = high /\ Bits(2 * T, b - 1, 0) = low
  <2>1. PICK v \in Nat : v = 2 * T /\ v < 32 * w
    BY <1>3
  <2>2. Pow2[b] * Pow2[k + 6] = 32 * w
    <3>1. Pow2[k + 6] = 64 * p
      <4>1. Pow2[k + 1] = 2 * p /\ Pow2[k + 2] = 2 * Pow2[k + 1] /\ Pow2[k + 3] = 2 * Pow2[k + 2]
        <5>1. k + 1 \in Nat /\ k + 2 \in Nat /\ (k + 1) + 1 = k + 2 /\ (k + 2) + 1 = k + 3
          OBVIOUS
        <5> QED BY Zenon, <1>2, <5>1, Pow2Def
      <4>2. Pow2[k + 4] = 2 * Pow2[k + 3] /\ Pow2[k + 5] = 2 * Pow2[k + 4] /\ Pow2[k + 6] = 2 * Pow2[k + 5]
        <5>1. /\ k + 3 \in Nat /\ k + 4 \in Nat /\ k + 5 \in Nat
              /\ (k + 3) + 1 = k + 4 /\ (k + 4) + 1 = k + 5 /\ (k + 5) + 1 = k + 6
          OBVIOUS
        <5> QED BY Zenon, <5>1, Pow2Def
      <4> QED BY <4>1, <4>2
    <3>2. l * (64 * p) = 32 * (2 * (p * l))
      OBVIOUS
    <3> QED BY Zenon, <1>6, <3>1, <3>2
  <2>3. v < Pow2[b] * Pow2[k + 6] /\ k + 6 \in Nat
    BY <2>1, <2>2
  <2>4. PICK high \in Nat, low \in 0..(Pow2[b] - 1) :
           /\ v = Pow2[b] * high + low
           /\ Bits(v, (b + (k + 6)) - 1, b) = high /\ Bits(v, b - 1, 0) = low
    BY <2>3, Sliced
  <2>5. (b + (k + 6)) - 1 = F + 4
    BY <1>2, <1>5
  <2> QED BY Zenon, <1>6, <2>1, <2>4, <2>5
<1>17. PICK v \in 0..(16 * w - 1), e \in Int :
         /\ Cat(Bits((high + x) % Pow2[k + 6], k + 4, 0), b, low) = v
         /\ v = (high * l + low) + x * l + (16 * w) * e
  <2>1. low \in 0..(Pow2[b] - 1) /\ high \in Int
    BY <1>6
  <2>2. NonRestoredBits(k, b, high, low, x)
    BY <2>1, NonRestoringBits
  <2>3. 32 * (p * l) = 16 * w
    <3>1. PICK y \in Int : y = p * l
      OBVIOUS
    <3>2. w = 2 * y
      BY Zenon, <1>6, <3>1
    <3>3. 32 * y = 16 * w
      BY <3>2
    <3> QED BY Zenon, <3>1, <3>3
  <2> QED BY ZenonT(60), <1>2, <1>6, <2>2, <2>3 DEF NonRestoredBits
<1>18. T' = v /\ S' = 2 * s + g
  <2>1. /\ rootWF + 3 = F + 3 /\ rootWF + 4 = F + 4 /\ rootWF + 2 - (stage + 3) = b
        /\ rootWF + 1 - (stage + 3) = b - 1 /\ (stage + 3) + 3 = k + 6 /\ (stage + 3) + 1 = k + 4
    BY <1>2, <1>5
  <2>2. /\ T' = Cat(Bits((IF g = 1 THEN high - NonRestoringU(S, g) ELSE high + NonRestoringU(S, g)) % Pow2[k + 6],
                         k + 4, 0), b, low)
        /\ S' = Cat(S, 1, g)
    BY Zenon, <1>2, <1>10, <1>16, <2>1 DEF NonRestoringStage
  <2>3. Pow2[1] = 2 /\ Pow2[2] = 4
    <3>1. Pow2[0 + 1] = 2 * Pow2[0] /\ Pow2[1 + 1] = 2 * Pow2[1]
      BY Pow2Def
    <3> QED BY <3>1, Pow2Def
  <2>4. NonRestoringU(S, g) = (s * 4 + (g * 2 + (1 - g))) * 2 + 1
    BY Zenon, <1>2, <2>3 DEF NonRestoringU, Cat
  <2>5. (s * 4 + (g * 2 + (1 - g))) * 2 + 1 = U
    BY <1>11
  <2>6. (IF g = 1 THEN high - U ELSE high + U) = high + x
    BY <1>12
  <2>7. S' = s * 2 + g
    BY Zenon, <1>2, <2>2, <2>3 DEF Cat
  <2>8. s * 2 + g = 2 * s + g
    OBVIOUS
  <2> QED BY Zenon, <1>17, <2>2, <2>4, <2>5, <2>6, <2>7, <2>8
<1>19. v = r + (16 * w) * (2 * c + e)
  <2>1. PICK y \in Int : y = (16 * w) * c
    OBVIOUS
  <2>2. PICK z \in Int : z = (16 * w) * e
    OBVIOUS
  <2>3. (16 * w) * (2 * c + e) = 2 * ((16 * w) * c) + (16 * w) * e
    OBVIOUS
  <2>4. (16 * w) * (2 * c + e) = 2 * y + z
    BY Zenon, <2>1, <2>2, <2>3
  <2>5. PICK a \in Int, q \in Int : a = high * l /\ q = x * l
    OBVIOUS
  <2>6. l * high = high * l
    OBVIOUS
  <2>7. v = (a + low) + q + z /\ 2 * T = a + low /\ T = t + y /\ r = 2 * t + q
    BY Zenon, <1>3, <1>15, <1>16, <1>17, <2>1, <2>2, <2>5, <2>6
  <2>8. v = r + (2 * y + z)
    <3>1. T \in Int
      BY <1>3
    <3>2. low \in Int
      OBVIOUS
    <3> QED BY <2>7, <3>1, <3>2
  <2> QED BY Zenon, <2>4, <2>8
<1>20. Normed' = n /\ rootWF' = F /\ rooter'.method = 1 /\ stage' = k + 1 /\ rootFormat' = rootFormat
  BY Zenon, <1>1, <1>2 DEF Normed, rootWF, rootFormat
<1>21. RootDigits(Normed, Pow2[rootWF], Pow2[stage], S)'
  BY Zenon, <1>2, <1>7, <1>14, <1>18, <1>20
<1>22. RemainderInv'
  <2>1. 0 # 1 /\ 2 * c + e \in Int
    OBVIOUS
  <2>2. \E t2 \in Int, c2 \in Int :
          /\ SignedRemainder(n, w, 2 * p, 2 * s + g, t2)
          /\ v \in 0..(16 * w - 1) /\ v = t2 + (16 * w) * c2
    BY Zenon, <1>14, <1>19, <2>1
  <2> QED BY Zenon, <1>2, <1>7, <1>18, <1>20, <2>1, <2>2 DEF RemainderInv
<1>23. RootTypes'
  <2>1. RootTypes
    BY <1>1 DEF RootInv
  <2>2. stage' \in Nat /\ stage' <= F + (1 - rooter'.method)
    BY <1>2, <1>20
  <2> QED BY Zenon, <1>1, <1>20, <2>1, <2>2 DEF RootTypes
<1>24. SquareRootIsCorrect' /\ ~SqrtIdle'
  BY <1>1 DEF RootInv, SquareRootIsCorrect, SqrtIdle, rootFormat
<1> QED BY Zenon, <1>21, <1>22, <1>23, <1>24 DEF RootInv

-----------------------------------------------------------------------------
(***************************************************************************)
(* The result.                                                             *)
(***************************************************************************)
\* Half of an exponent and its bias, which is odd, with their wE bits.
LEMMA HalfExponent ==
  ASSUME NEW b \in Nat \ {0}, NEW e \in 0..(4 * b - 1)
  PROVE  \E h \in 0..(4 * b - 1) :
           /\ (e \div 2 + (b - 1) + (e % 2)) % (4 * b) = h
           /\ (e - (2 * b - 1)) \div 2 + (2 * b - 1) = h
           /\ (e - (2 * b - 1)) % 2 = 1 - (e % 2)
<1>1. PICK c \in Nat, g \in 0..1 : e = 2 * c + g /\ c = e \div 2 /\ g = e % 2
  OBVIOUS
<1>2. c + (b - 1) + g \in 0..(4 * b - 1) /\ 4 * b \in Nat \ {0} /\ c + (b - 1) + g \in Int
  BY <1>1
<1>3. (c + (b - 1) + g) % (4 * b) = c + (b - 1) + g
  BY <1>2, SmallRemainder
<1>4. (e - (2 * b - 1)) \div 2 = (c - b) + g /\ (e - (2 * b - 1)) % 2 = 1 - g
  <2>1. e - (2 * b - 1) = 2 * ((c - b) + g) + (1 - g) /\ (c - b) + g \in Int /\ 1 - g \in 0..(2 - 1) /\ 2 \in Nat \ {0}
    BY <1>1
  <2>2. PICK q \in Int, r \in 0..(2 - 1) : q = (c - b) + g /\ r = 1 - g
    BY <2>1
  <2>3. (2 * q + r) \div 2 = q /\ (2 * q + r) % 2 = r
    BY <2>1, DivisionUnique
  <2> QED BY Zenon, <2>1, <2>2, <2>3
<1>5. ((c - b) + g) + (2 * b - 1) = c + (b - 1) + g
  OBVIOUS
<1> QED BY Zenon, <1>1, <1>2, <1>3, <1>4, <1>5

\* The exponent that the code computes.
HalvedExponent(f, x) == (Exponent(f, x) \div 2 + Ones(f.wE - 2) + BitOf(x, f.wF)) % Pow2[f.wE]

\* The reference result for a positive number, from the only nearest root.
LEMMA SquareRootIs ==
  ASSUME NEW f, RootFormat(f), NEW x \in Numbers(f), Exn(f, x) = NormalExn, Sign(f, x) = 0,
         NEW n, n = Significand(f, x) * (IF BitOf(x, f.wF) = 1 THEN 4 ELSE 8),
         NEW w, w = Pow2[f.wF], NEW r \in w..(2 * w - 1),
         \A y \in w..(2 * w - 1) : Nearest(n, w, y) <=> y = r
  PROVE  /\ HalvedExponent(f, x) \in 0..(Pow2[f.wE] - 1)
         /\ SquareRoot(f, x) = Encode(f, NormalExn, 0, HalvedExponent(f, x), r - w)
<1>1. PICK v \in Nat \ {0}, b \in Nat \ {0}, e \in Nat, frac \in Nat : Decoded(f, x, v, b, e, frac)
  BY Decode
<1>2. /\ v = w /\ w \in Nat \ {0} /\ Pow2[f.wE - 2] = b /\ Pow2[f.wE - 1] = 2 * b /\ Pow2[f.wE] = 4 * b
      /\ Exponent(f, x) = e /\ e \in 0..(4 * b - 1) /\ BitOf(x, f.wF) = e % 2
      /\ Significand(f, x) = w + frac
  BY Zenon, <1>1 DEF Decoded, FieldsOf
<1>3. PICK h \in 0..(4 * b - 1) :
        /\ (e \div 2 + (b - 1) + (e % 2)) % (4 * b) = h
        /\ (e - (2 * b - 1)) \div 2 + (2 * b - 1) = h
        /\ (e - (2 * b - 1)) % 2 = 1 - (e % 2)
  BY <1>2, HalfExponent
<1>4. HalvedExponent(f, x) = h
  BY Zenon, <1>2, <1>3 DEF HalvedExponent, Ones
<1>5. Bias(f) = 2 * b - 1
  BY Zenon, <1>2 DEF Bias
<1> DEFINE square == Significand(f, x) * Pow2[f.wF + ((e - Bias(f)) % 2)]
<1>6. 4 * square = n * w
  <2>1. PICK m \in Nat : m = Significand(f, x)
    BY <1>2
  <2>2. e % 2 = 0 \/ e % 2 = 1
    OBVIOUS
  <2>3. CASE e % 2 = 1
    <3>1. (e - Bias(f)) % 2 = 0
      BY <1>3, <1>5, <2>3
    <3>2. f.wF + 0 = f.wF
      BY DEF RootFormat
    <3>3. square = m * w
      BY Zenon, <2>1, <3>1, <3>2
    <3>4. n = m * 4
      BY <1>2, <2>1, <2>3
    <3>5. 4 * (m * w) = (m * 4) * w
      BY <1>2
    <3> QED BY Zenon, <3>3, <3>4, <3>5
  <2>4. CASE e % 2 = 0
    <3>1. (e - Bias(f)) % 2 = 1
      BY <1>3, <1>5, <2>4
    <3>2. Pow2[f.wF + 1] = 2 * w
      BY Pow2Def DEF RootFormat
    <3>3. square = m * (2 * w)
      BY Zenon, <2>1, <3>1, <3>2
    <3>4. n = m * 8
      BY <1>2, <2>1, <2>4
    <3>5. 4 * (m * (2 * w)) = (m * 8) * w
      BY <1>2
    <3> QED BY Zenon, <3>3, <3>4, <3>5
  <2> QED BY <2>2, <2>3, <2>4
<1> DEFINE root == CHOOSE y \in Pow2[f.wF]..(Pow2[f.wF + 1] - 1) :
                     /\ (2 * y - 1) * (2 * y - 1) <= 4 * square
                     /\ 4 * square < (2 * y + 1) * (2 * y + 1)
<1> HIDE DEF square
<1>7. root = r
  <2>1. Pow2[f.wF + 1] = 2 * w
    BY Pow2Def DEF RootFormat
  <2>2. \A y \in Pow2[f.wF]..(Pow2[f.wF + 1] - 1) :
          (/\ (2 * y - 1) * (2 * y - 1) <= 4 * square
           /\ 4 * square < (2 * y + 1) * (2 * y + 1)) <=> y = r
    BY Zenon, <1>6, <2>1 DEF Nearest
  <2>3. r \in Pow2[f.wF]..(Pow2[f.wF + 1] - 1)
    BY Zenon, <2>1
  <2> DEFINE A == Pow2[f.wF]..(Pow2[f.wF + 1] - 1)
             P(y) == (2 * y - 1) * (2 * y - 1) <= 4 * square /\ 4 * square < (2 * y + 1) * (2 * y + 1)
  <2>4. r \in A /\ \A y \in A : P(y) <=> y = r
    BY Zenon, <2>2, <2>3
  <2> HIDE DEF A, P
  <2>5. (CHOOSE y \in A : P(y)) = r
    BY Zenon, <2>4
  <2> QED BY Zenon, <2>5 DEF A, P
<1>8. SquareRoot(f, x) = Packed(f, 0, (e - Bias(f)) \div 2, root - w)
  <2>1. NormalExn # ZeroExn /\ NormalExn # NaNExn /\ NormalExn # InfExn /\ 0 # 1
    BY DEF NormalExn, ZeroExn, NaNExn, InfExn
  <2> QED BY Zenon, <1>2, <2>1 DEF SquareRoot, square
<1>9. Packed(f, 0, (e - Bias(f)) \div 2, r - w) = Encode(f, NormalExn, 0, h, r - w)
  <2>1. ((e - Bias(f)) \div 2) + Bias(f) = h
    BY Zenon, <1>3, <1>5
  <2>2. ~(h < 0) /\ ~(h > Ones(f.wE))
    BY <1>2 DEF Ones
  <2> QED BY Zenon, <2>1, <2>2 DEF Packed
<1> QED BY Zenon, <1>2, <1>4, <1>7, <1>8, <1>9

\* The last digit: the root with one more bit than the significand.
LEMMA LastDigit ==
  ASSUME RootInv, RootDone
  PROVE  \E m \in Nat :
           /\ m = IF rooter.method = 0 THEN S ELSE Cat(S, 1, 1 - BitOf(T, rootWF + 3))
           /\ RootDigits(Normed, Pow2[rootWF], 2 * Pow2[rootWF], m)
<1>1. ~SqrtIdle /\ stage = IF rooter.method = 0 THEN rootWF + 1 ELSE rootWF
  BY DEF RootDone
<1>2. PICK F \in Nat, w \in Nat \ {0}, p \in Nat \ {0}, n \in Nat, s \in Nat :
        /\ F = rootWF /\ w = Pow2[F] /\ p = Pow2[stage] /\ n = Normed /\ s = S /\ s < 2 * p
        /\ RootDigits(n, w, p, s)
  BY <1>1, RootWidths
<1>3. CASE rooter.method = 0
  <2>1. p = 2 * w
    <3>1. Pow2[F + 1] = 2 * w
      BY <1>2, Pow2Def
    <3> QED BY <1>1, <1>2, <1>3, <3>1
  <2>2. RootDigits(n, w, 2 * w, s)
    BY Zenon, <1>2, <2>1
  <2> QED BY Zenon, <1>2, <1>3, <2>2
<1>4. CASE rooter.method = 1
  <2>0. ~(rooter.method = 0)
    BY <1>4
  <2>1. p = w /\ stage = F
    BY <1>1, <1>2, <1>4
  <2>2. PICK t \in Int, c \in Int :
          /\ SignedRemainder(n, w, w, s, t)
          /\ T \in 0..(16 * w - 1) /\ T = t + (16 * w) * c
    BY Zenon, <1>1, <1>2, <1>4, <2>1 DEF RootInv, RemainderInv
  <2>3. RootDigits(n, w, w, s)
    BY Zenon, <1>2, <2>1
  <2>4. -(8 * w) <= t /\ t < 8 * w
    BY ZenonT(40), <2>2, <2>3, SignedRange
  <2>5. BitOf(T, F + 3) = IF t >= 0 THEN 0 ELSE 1
    <3>1. Pow2[F + 3] = 8 * w
      <4>1. Pow2[F + 1] = 2 * w /\ Pow2[F + 2] = 2 * Pow2[F + 1] /\ Pow2[F + 3] = 2 * Pow2[F + 2]
        <5>1. F + 1 \in Nat /\ F + 2 \in Nat /\ (F + 1) + 1 = F + 2 /\ (F + 2) + 1 = F + 3
          OBVIOUS
        <5> QED BY Zenon, <1>2, <5>1, Pow2Def
      <4> QED BY <4>1
    <3>2. PICK H \in Nat \ {0} : H = 8 * w
      OBVIOUS
    <3>3. F + 3 \in Nat /\ T \in 0..(2 * H - 1) /\ 2 * H = 16 * w
      BY <2>2, <3>2
    <3>4. -H <= t /\ t < H /\ T = t + (2 * H) * c
      <4>1. T = t + (2 * H) * c
        BY Zenon, <2>2, <3>3
      <4> QED BY <2>4, <3>2, <4>1
    <3> QED BY <3>1, <3>2, <3>3, <3>4, SignedOf
  <2>6. PICK g \in 0..1 : g = 1 - BitOf(T, F + 3) /\ (g = 1 <=> t >= 0)
    <3>1. CASE t >= 0
      BY <2>5, <3>1
    <3>2. CASE ~(t >= 0)
      BY <2>5, <3>2
    <3> QED BY <3>1, <3>2
  <2>7. g = 1 <=> ((2 * s + 1) * (2 * s + 1)) * w <= n * (w * w)
    <3>1. t * w = n * (w * w) - ((2 * s + 1) * (2 * s + 1)) * w
      BY Zenon, <2>2 DEF SignedRemainder
    <3>2. t >= 0 => t * w >= 0
      OBVIOUS
    <3>3. t <= -1 => t * w <= (-1) * w
      OBVIOUS
    <3>4. PICK a \in Int, y \in Int, z \in Int :
            a = t * w /\ y = n * (w * w) /\ z = ((2 * s + 1) * (2 * s + 1)) * w
      OBVIOUS
    <3>5. a = y - z
      BY Zenon, <3>1, <3>4
    <3>6. t >= 0 <=> a >= 0
      BY <3>2, <3>3, <3>4
    <3>7. g = 1 <=> z <= y
      BY <2>6, <3>5, <3>6
    <3> QED BY Zenon, <3>4, <3>7
  <2>8. RootDigits(n, w, 2 * w, 2 * s + g)
    BY ZenonT(40), <2>3, <2>7, NextDigit
  <2>9. Cat(S, 1, 1 - BitOf(T, rootWF + 3)) = 2 * s + g
    <3>1. Pow2[1] = 2
      <4>1. Pow2[0 + 1] = 2 * Pow2[0]
        BY Pow2Def
      <4> QED BY <4>1, Pow2Def
    <3>2. s * 2 + g = 2 * s + g
      OBVIOUS
    <3> QED BY Zenon, <1>2, <2>6, <3>1, <3>2 DEF Cat
  <2>10. 2 * s + g \in Nat
    OBVIOUS
  <2> QED BY Zenon, <1>2, <2>0, <2>8, <2>9, <2>10
<1> QED BY <1>1, <1>3, <1>4, RootWidths

\* The output is the nearest number to the square root.
LEMMA RootDoneInv ==
  ASSUME RootInv, RootDone
  PROVE  RootInv'
<1>1. /\ ~SqrtIdle /\ UNCHANGED <<rooter, radicand, stage, T, S>>
  BY DEF RootDone
<1>0. PICK f, x : f = rootFormat /\ x = radicand
  OBVIOUS
<1>2. PICK w \in Nat \ {0}, n \in Nat :
        /\ f = rootFormat /\ x = radicand /\ f.wF = rootWF /\ w = Pow2[f.wF] /\ n = Normed
        /\ RootFormat(f) /\ x \in Numbers(f)
        /\ n = Significand(f, x) * (IF BitOf(x, f.wF) = 1 THEN 4 ELSE 8)
  <2>1. RootFormat(rootFormat) /\ radicand \in Numbers(rootFormat) /\ rootFormat.wF = rootWF
    BY <1>1 DEF RootInv, RootTypes, rootWF
  <2>2. Pow2[rootWF] \in Nat \ {0} /\ Normed \in Nat
    BY <1>1, RootWidths
  <2>3. Normed = Significand(rootFormat, radicand) * (IF BitOf(radicand, rootFormat.wF) = 1 THEN 4 ELSE 8)
    BY Zenon DEF Normed, rootWF
  <2> QED BY Zenon, <1>0, <2>1, <2>2, <2>3
<1>3. PICK m \in Nat :
        /\ m = IF rooter.method = 0 THEN S ELSE Cat(S, 1, 1 - BitOf(T, rootWF + 3))
        /\ RootDigits(n, w, 2 * w, m)
  BY Zenon, <1>2, LastDigit
<1>4. PICK r \in w..(2 * w - 1) :
        /\ ((((m \div 2) % w) + (m % 2)) % w) = r - w
        /\ \A y \in w..(2 * w - 1) : Nearest(n, w, y) <=> y = r
  <2>1. n <= 8 * (2 * w - 1)
    BY Zenon, <1>2, NormedIs
  <2> QED BY ZenonT(40), <1>3, <2>1, NearestRoot
<1>5. Bits(m, f.wF, 1) = (m \div 2) % w /\ BitOf(m, 0) = m % 2
  <2>1. PICK F \in Nat : F = f.wF
    BY <1>2 DEF RootFormat
  <2>2. m \in Int /\ 1 \in Nat /\ (1 + F) - 1 = F
    OBVIOUS
  <2>3. Bits(m, (1 + F) - 1, 1) = (m \div Pow2[1]) % Pow2[F]
    BY <2>2, BitsDef
  <2>4. Pow2[0] = 1 /\ Pow2[1] = 2
    <3>1. Pow2[0 + 1] = 2 * Pow2[0]
      BY Pow2Def
    <3> QED BY <3>1, Pow2Def
  <2>5. m \div 1 = m
    <3>1. m = 1 * m + 0 /\ 0 \in 0..(1 - 1) /\ 1 \in Nat \ {0}
      OBVIOUS
    <3>2. (1 * m + 0) \div 1 = m
      BY <2>2, <3>1, DivisionUnique
    <3> QED BY Zenon, <3>1, <3>2
  <2> QED BY Zenon, <1>2, <2>1, <2>2, <2>3, <2>4, <2>5 DEF BitOf
<1>6. rootOut' = Cat(Cat(XsR(Exn(f, x), Sign(f, x)), f.wE, HalvedExponent(f, x)), f.wF, r - w)
  <2>1. RootExponent = HalvedExponent(f, x)
    BY Zenon, <1>2 DEF RootExponent, HalvedExponent
  <2>2. rootOut' = Cat(Cat(XsR(Exn(f, x), Sign(f, x)), f.wE, RootExponent), f.wF,
                       (Bits(m, f.wF, 1) + BitOf(m, 0)) % Pow2[f.wF])
    BY Zenon, <1>2, <1>3 DEF RootDone
  <2> QED BY Zenon, <1>2, <1>4, <1>5, <2>1, <2>2
<1>7. PICK h \in 0..(Pow2[f.wE] - 1) : h = HalvedExponent(f, x)
  <2>1. PICK v \in Nat \ {0}, b \in Nat \ {0}, e \in Nat, frac \in Nat : Decoded(f, x, v, b, e, frac)
    BY <1>2, Decode
  <2>2. /\ Pow2[f.wE - 2] = b /\ Pow2[f.wE] = 4 * b /\ Exponent(f, x) = e /\ e \in 0..(4 * b - 1)
        /\ BitOf(x, f.wF) = e % 2
    BY Zenon, <2>1 DEF Decoded, FieldsOf
  <2>3. \E h \in 0..(4 * b - 1) : (e \div 2 + (b - 1) + (e % 2)) % (4 * b) = h
    <3>1. \E h \in 0..(4 * b - 1) :
           /\ (e \div 2 + (b - 1) + (e % 2)) % (4 * b) = h
           /\ (e - (2 * b - 1)) \div 2 + (2 * b - 1) = h
           /\ (e - (2 * b - 1)) % 2 = 1 - (e % 2)
      BY <2>2, HalfExponent
    <3> QED BY Zenon, <3>1
  <2> QED BY Zenon, <2>2, <2>3 DEF HalvedExponent, Ones
<1>8. Exn(f, x) \in 0..3 /\ Sign(f, x) \in 0..1
  <2>1. PICK v \in Nat \ {0}, b \in Nat \ {0}, e \in Nat, frac \in Nat : Decoded(f, x, v, b, e, frac)
    BY <1>2, Decode
  <2> QED BY Zenon, <2>1 DEF Decoded, FieldsOf
<1>9. PICK g \in 0..(Pow2[f.wF] - 1) : g = r - w
  BY <1>2
<1>10. ASSUME NEW exn \in 0..3, NEW sign \in 0..1, XsR(Exn(f, x), Sign(f, x)) = Cat(exn, 1, sign)
       PROVE  /\ rootOut' = Encode(f, exn, sign, h, g)
              /\ Exn(f, rootOut') = exn /\ Sign(f, rootOut') = sign
  <2>1. rootOut' = Encode(f, exn, sign, h, g)
    BY Zenon, <1>6, <1>7, <1>9, <1>10 DEF Encode
  <2>2. NumberFormat(f)
    BY <1>2, RootFormatIs
  <2>3. /\ Exn(f, Encode(f, exn, sign, h, g)) = exn
        /\ Sign(f, Encode(f, exn, sign, h, g)) = sign
    BY <2>2, EncodedFields
  <2> QED BY Zenon, <2>1, <2>3
\* The fields of the results that have no fraction.
<1>11. ASSUME NEW exn \in 0..3, NEW sign \in 0..1
       PROVE  Exn(f, Encode(f, exn, sign, 0, 0)) = exn /\ Sign(f, Encode(f, exn, sign, 0, 0)) = sign
  <2>1. 0 \in 0..(Pow2[f.wE] - 1) /\ 0 \in 0..(Pow2[f.wF] - 1)
    <3>1. Pow2[f.wE] \in Nat \ {0}
      BY <1>2, Pow2Def DEF RootFormat
    <3> QED BY <1>2, <3>1
  <2>2. NumberFormat(f)
    BY <1>2, RootFormatIs
  <2> QED BY <2>1, <2>2, EncodedFields
<1>12. ZeroExn = 0 /\ NormalExn = 1 /\ InfExn = 2 /\ NaNExn = 3
  BY DEF ZeroExn, NormalExn, InfExn, NaNExn
<1>13. 0 \in 0..3 /\ 1 \in 0..3 /\ 2 \in 0..3 /\ 3 \in 0..3 /\ 0 \in 0..1
  OBVIOUS
<1>14. FPEqual(f, rootOut', SquareRoot(f, x))
  <2>1. CASE Exn(f, x) = ZeroExn
    <3>0. SquareRoot(f, x) = Zero(f, Sign(f, x))
      BY Zenon, <2>1 DEF SquareRoot
    <3>1. SquareRoot(f, x) = Encode(f, 0, Sign(f, x), 0, 0)
      BY Zenon, <3>0 DEF Zero, ZeroExn
    <3>2. Exn(f, SquareRoot(f, x)) = 0 /\ Sign(f, SquareRoot(f, x)) = Sign(f, x)
      BY Zenon, <1>8, <1>11, <1>13, <3>1
    <3>3. XsR(Exn(f, x), Sign(f, x)) = Cat(0, 1, Sign(f, x))
      BY Zenon, <1>12, <2>1 DEF XsR
    <3>4. Exn(f, rootOut') = 0 /\ Sign(f, rootOut') = Sign(f, x)
      BY Zenon, <1>8, <1>10, <1>13, <3>3
    <3>5. 0 # NormalExn /\ 0 # NaNExn
      BY <1>12
    <3> QED BY Zenon, <3>2, <3>4, <3>5 DEF FPEqual
  <2>2. CASE Exn(f, x) # ZeroExn /\ (Exn(f, x) = NaNExn \/ Sign(f, x) = 1)
    <3>0. SquareRoot(f, x) = NaN(f)
      BY Zenon, <2>2 DEF SquareRoot
    <3>1. SquareRoot(f, x) = Encode(f, 3, 0, 0, 0)
      BY Zenon, <3>0 DEF NaN, NaNExn
    <3>2. Exn(f, SquareRoot(f, x)) = 3
      BY Zenon, <1>11, <1>13, <3>1
    <3>3. 0 # 1
      OBVIOUS
    <3>4. XsR(Exn(f, x), Sign(f, x)) = Cat(3, 1, 0)
      BY Zenon, <1>12, <2>2, <3>3 DEF XsR
    <3>5. Exn(f, rootOut') = 3
      BY Zenon, <1>10, <1>13, <3>4
    <3>6. 3 # NormalExn /\ 3 = NaNExn
      BY <1>12
    <3> QED BY Zenon, <3>2, <3>5, <3>6 DEF FPEqual
  <2>3. CASE Exn(f, x) = InfExn /\ Sign(f, x) = 0
    <3>1. InfExn # ZeroExn /\ InfExn # NaNExn /\ 0 # 1
      BY <1>12
    <3>0. SquareRoot(f, x) = Infinity(f, 0)
      BY Zenon, <2>3, <3>1 DEF SquareRoot
    <3>2. SquareRoot(f, x) = Encode(f, 2, 0, 0, 0)
      BY Zenon, <3>0 DEF Infinity, InfExn
    <3>3. Exn(f, SquareRoot(f, x)) = 2 /\ Sign(f, SquareRoot(f, x)) = 0
      BY Zenon, <1>11, <1>13, <3>2
    <3>4. XsR(Exn(f, x), Sign(f, x)) = Cat(2, 1, 0)
      BY Zenon, <1>12, <2>3, <3>1 DEF XsR
    <3>5. Exn(f, rootOut') = 2 /\ Sign(f, rootOut') = 0
      BY Zenon, <1>10, <1>13, <3>4
    <3>6. 2 # NormalExn /\ 2 # NaNExn
      BY <1>12
    <3> QED BY Zenon, <3>3, <3>5, <3>6 DEF FPEqual
  <2>4. CASE Exn(f, x) = NormalExn /\ Sign(f, x) = 0
    <3>1. NormalExn # ZeroExn /\ NormalExn # NaNExn
      BY <1>12
    <3>2. SquareRoot(f, x) = Encode(f, NormalExn, 0, HalvedExponent(f, x), r - w)
      <4>1. /\ RootFormat(f) /\ x \in Numbers(f) /\ w = Pow2[f.wF]
            /\ n = Significand(f, x) * (IF BitOf(x, f.wF) = 1 THEN 4 ELSE 8)
        BY Zenon, <1>2
      <4>2. \A y \in w..(2 * w - 1) : Nearest(n, w, y) <=> y = r
        BY Zenon, <1>4
      <4> QED BY <2>4, <4>1, <4>2, SquareRootIs
    <3>3. XsR(Exn(f, x), Sign(f, x)) = Cat(1, 1, 0)
      BY Zenon, <1>12, <2>4, <3>1 DEF XsR
    <3>4. rootOut' = Encode(f, 1, 0, h, g) /\ Exn(f, rootOut') = 1
      BY Zenon, <1>10, <1>13, <3>3
    <3>5. SquareRoot(f, x) = rootOut' /\ Exn(f, SquareRoot(f, x)) = NormalExn
      BY Zenon, <1>7, <1>9, <1>12, <3>2, <3>4
    <3> QED BY Zenon, <3>5 DEF FPEqual
  <2> QED BY <1>8, <1>12, <2>1, <2>2, <2>3, <2>4
<1>15. SquareRootIsCorrect'
  <2>1. rootFormat' = f /\ radicand' = x
    BY <1>1, <1>2 DEF rootFormat
  <2> QED BY Zenon, <1>14, <2>1 DEF SquareRootIsCorrect
<1>16. RootTypes' /\ RootDigits(Normed, Pow2[rootWF], Pow2[stage], S)' /\ RemainderInv' /\ ~SqrtIdle'
  BY <1>1 DEF RootInv, RootTypes, RemainderInv, Normed, rootWF, rootFormat, SqrtIdle
<1> QED BY Zenon, <1>15, <1>16 DEF RootInv

\* What the invariant says of the remainder and of the digits.
LEMMA RootIsExact ==
  ASSUME RootInv
  PROVE  RootRemainderIsExact /\ RootDigitsAreExact
<1> SUFFICES ASSUME ~SqrtIdle
             PROVE  RootRemainderIsExact /\ RootDigitsAreExact
  BY DEF RootRemainderIsExact, RootDigitsAreExact
<1>1. PICK F \in Nat, k \in Nat, w \in Nat \ {0}, p \in Nat \ {0}, n \in Nat, s \in Nat :
        /\ F = rootWF /\ k = stage /\ w = Pow2[F] /\ p = Pow2[k] /\ n = Normed /\ s = S
        /\ RootDigits(n, w, p, s) /\ (rooter.method = 0 \/ rooter.method = 1)
  BY RootWidths
<1>2. Pow2[2 * k] = p * p /\ Pow2[F + 2] = 4 * w /\ Pow2[F + 3] = 8 * w
  <2>1. 2 * k = k + k /\ F + 1 \in Nat /\ F + 2 \in Nat /\ (F + 1) + 1 = F + 2 /\ (F + 2) + 1 = F + 3
    OBVIOUS
  <2>2. Pow2[k + k] = p * p
    BY <1>1, Pow2Sum
  <2>3. Pow2[F + 1] = 2 * w /\ Pow2[F + 2] = 2 * Pow2[F + 1] /\ Pow2[F + 3] = 2 * Pow2[F + 2]
    BY Zenon, <1>1, <2>1, Pow2Def
  <2>4. Pow2[F + 2] = 4 * w /\ Pow2[F + 3] = 8 * w
    BY <2>3
  <2> QED BY Zenon, <2>1, <2>2, <2>4
<1>3. s * s * (4 * w) = 4 * ((s * s) * w) /\ (s + 1) * (s + 1) * (4 * w) = 4 * (((s + 1) * (s + 1)) * w)
  OBVIOUS
<1>4. RootDigitsAreExact
  <2>1. 4 * ((s * s) * w) <= n * (p * p) /\ n * (p * p) < 4 * (((s + 1) * (s + 1)) * w)
    BY Zenon, <1>1 DEF RootDigits
  <2> QED BY Zenon, <1>1, <1>2, <1>3, <2>1 DEF RootDigitsAreExact
<1>5. CASE rooter.method = 0
  <2>1. RestoringRemainder(n, w, p, s, T)
    BY Zenon, <1>1, <1>5 DEF RootInv, RemainderInv
  <2>2. T \in Nat /\ 2 * (T * p) = n * (p * p) - 4 * ((s * s) * w)
    BY Zenon, <2>1 DEF RestoringRemainder
  <2>3. 2 * T * p = 2 * (T * p)
    BY <2>2
  <2> QED BY Zenon, <1>1, <1>2, <1>3, <1>4, <1>5, <2>2, <2>3 DEF RootRemainderIsExact
<1>6. CASE rooter.method = 1
  <2>1. PICK t \in Int, c \in Int :
          /\ SignedRemainder(n, w, p, s, t)
          /\ T \in 0..(16 * w - 1) /\ T = t + (16 * w) * c
    BY Zenon, <1>1, <1>6 DEF RootInv, RemainderInv
  <2>2. -(8 * w) <= t /\ t < 8 * w
    BY ZenonT(40), <1>1, <2>1, SignedRange
  <2>3. Signed(F + 4, T) = t
    <3>1. PICK H \in Nat \ {0} : H = 8 * w
      OBVIOUS
    <3>2. F + 3 \in Nat /\ T \in 0..(2 * H - 1) /\ 2 * H = 16 * w
      BY <2>1, <3>1
    <3>3. -H <= t /\ t < H /\ T = t + (2 * H) * c
      <4>1. T = t + (2 * H) * c
        BY Zenon, <2>1, <3>2
      <4> QED BY <2>2, <3>1, <4>1
    <3>4. H = Pow2[F + 3]
      BY Zenon, <1>2, <3>1
    <3>5. Signed((F + 3) + 1, T) = t
      BY <3>2, <3>3, <3>4, SignedOf
    <3>6. (F + 3) + 1 = F + 4
      OBVIOUS
    <3> QED BY Zenon, <3>5, <3>6
  <2>4. t * p = n * (p * p) - (2 * s + 1) * (2 * s + 1) * w
    BY Zenon, <2>1 DEF SignedRemainder
  <2>5. ~(rooter.method = 0)
    BY <1>6
  <2> QED BY Zenon, <1>1, <1>2, <1>4, <2>3, <2>4, <2>5 DEF RootRemainderIsExact
<1> QED BY <1>1, <1>5, <1>6

-----------------------------------------------------------------------------
\* The square root is right by both methods, for every format whose exponent has two
\* bits or more (FPSqrt of FPSqrt.cpp): although a stage sees a few leading bits only,
\* its remainder and its digits are exact, the last digit rounds to the nearest number
\* without a carry, and the exponent is the halved one.
THEOREM SquareRootIsRight == Spec => []FPSqrtIsCorrect
<1>1. Init => RootInv
  BY DEF Init, SqrtInit, RootInv, SqrtIdle, SquareRootIsCorrect
<1>2. RootInv /\ UNCHANGED sqrtVars => RootInv'
  BY DEF sqrtVars, RootInv, RootTypes, RemainderInv, Normed, rootWF, rootFormat, SqrtIdle, SquareRootIsCorrect
<1>3. ASSUME RootInv, [Next]_vars PROVE RootInv'
  <2>1. CASE StartRoot
    BY <1>3, <2>1, RootEnters DEF StartRoot
  <2>2. CASE RootStep
    <3>1. CASE RestoringStage
      BY <1>3, <3>1, RestoringStageInv
    <3>2. CASE NonRestoringStage
      BY <1>3, <3>2, NonRestoringStageInv
    <3>3. CASE RootDone
      BY <1>3, <3>3, RootDoneInv
    <3> QED BY <2>2, <3>1, <3>2, <3>3 DEF RootStep
  <2>3. CASE UNCHANGED sqrtVars
    BY <1>2, <1>3, <2>3
  <2>4. CASE Combinational
    BY <2>3, <2>4 DEF Combinational
  <2>5. CASE StartDivision \/ DivisionStep
    BY <2>3, <2>5 DEF StartDivision, DivisionStep
  <2>6. CASE StartConstantDivision \/ ConstantDivisionStep
    BY <2>3, <2>6 DEF StartConstantDivision, ConstantDivisionStep
  <2>7. CASE StartMultiplier \/ MultiplierStep
    BY <2>3, <2>7 DEF StartMultiplier, MultiplierStep
  <2>8. CASE UNCHANGED vars
    BY <2>3, <2>8 DEF vars
  <2> QED BY <1>3, <2>1, <2>2, <2>4, <2>5, <2>6, <2>7, <2>8 DEF Next
<1>4. Spec => []RootInv
  BY <1>1, <1>3, PTL DEF Spec
<1>5. RootInv => FPSqrtIsCorrect
  BY RootIsExact DEF FPSqrtIsCorrect, RootInv
<1> QED BY <1>4, <1>5, PTL

-----------------------------------------------------------------------------

(***************************************************************************)
(* The end of both operators: an exponent of two bits more than the format *)
(* and a fraction in one vector, the rounding bit added to it, and the     *)
(* exception bits from the two bits above.                                 *)
(***************************************************************************)
\* Two digits make a number below the product of their ranges.
LEMMA TwoDigits ==
  ASSUME NEW w \in Nat \ {0}, NEW q \in Nat \ {0}, NEW a \in 0..(q - 1), NEW g \in 0..(w - 1)
  PROVE  a * w + g \in 0..(q * w - 1)
<1>1. a * w <= (q - 1) * w /\ a * w >= 0
  OBVIOUS
<1>2. (q - 1) * w = q * w - w
  OBVIOUS
<1>3. PICK y \in Int, z \in Int : y = a * w /\ z = q * w
  OBVIOUS
<1> QED BY <1>1, <1>2, <1>3

\* The rounding bit that a fraction of ones carries into the exponent, both kept
\* modulo their ranges.
CarriedTo(w, q, E, fr, u, c, g) ==
  /\ fr + u = w => c = E + 1 /\ g = 0
  /\ fr + u # w => c = E /\ g = fr + u
  /\ ((E % q) * w + fr + u) % (q * w) = (c % q) * w + g

\* There is one such exponent and fraction.
LEMMA Carried ==
  ASSUME NEW w \in Nat \ {0}, NEW q \in Nat \ {0}, NEW E \in Int, NEW fr \in 0..(w - 1), NEW u \in 0..1
  PROVE  \E c \in Int, g \in 0..(w - 1) : CarriedTo(w, q, E, fr, u, c, g)
<1>1. PICK k \in Int, a \in 0..(q - 1) : E = q * k + a /\ a = E % q
  BY ZenonT(40), Division
<1>2. PICK p \in Nat \ {0} : p = q * w
  OBVIOUS
<1>3. CASE fr + u = w
  <2>1. E + 1 \in Int
    OBVIOUS
  <2>2. PICK l \in Int, b \in 0..(q - 1) : E + 1 = q * l + b /\ b = (E + 1) % q
    BY ZenonT(40), <2>1, Division
  <2>3. (a * w + fr) + u = b * w + p * (l - k)
    <3>1. a + 1 = b + q * (l - k)
      <4>1. q * (l - k) = q * l - q * k
        OBVIOUS
      <4>2. PICK y \in Int, z \in Int : y = q * l /\ z = q * k
        OBVIOUS
      <4> QED BY <1>1, <2>2, <4>1, <4>2
    <3>2. (a + 1) * w = a * w + w /\ (b + q * (l - k)) * w = b * w + (q * w) * (l - k)
      OBVIOUS
    <3>3. PICK y \in Int, z \in Int : y = a * w /\ z = b * w + p * (l - k)
      OBVIOUS
    <3>4. y + w = z
      BY Zenon, <1>2, <3>1, <3>2, <3>3
    <3>5. (y + fr) + u = z
      BY <1>3, <3>4
    <3> QED BY Zenon, <3>3, <3>5
  <2>4. b * w + 0 \in 0..(q * w - 1)
    <3>1. 0 \in 0..(w - 1)
      OBVIOUS
    <3> QED BY ZenonT(40), <2>2, <3>1, TwoDigits
  <2>5. ((a * w + fr) + u) % p = (b * w + 0) % p
    <3>1. PICK y \in Int, z \in Int : y = (a * w + fr) + u /\ z = b * w + 0
      OBVIOUS
    <3>2. PICK j \in Int : j = l - k
      OBVIOUS
    <3>3. y = z + p * j
      <4>1. y = b * w + p * j
        BY Zenon, <2>3, <3>1, <3>2
      <4>2. z = b * w
        BY <3>1
      <4> QED BY Zenon, <4>1, <4>2
    <3>4. y % p = z % p
      <4>1. Congruent(y, z, p)
        BY Zenon, <3>3 DEF Congruent
      <4> QED BY ZenonT(40), <4>1, CongruentRemainder
    <3> QED BY Zenon, <3>1, <3>4
  <2>6. (b * w + 0) % p = b * w + 0
    <3>1. PICK z \in Int : z = b * w + 0 /\ z \in 0..(p - 1)
      BY <1>2, <2>4
    <3>2. z % p = z
      BY <3>1, SmallRemainder
    <3> QED BY Zenon, <3>1, <3>2
  <2>7. CarriedTo(w, q, E, fr, u, E + 1, 0)
    BY Zenon, <1>1, <1>2, <1>3, <2>2, <2>5, <2>6 DEF CarriedTo
  <2>8. 0 \in 0..(w - 1)
    OBVIOUS
  <2> QED BY Zenon, <2>1, <2>7, <2>8
<1>4. CASE fr + u # w
  <2>1. fr + u \in 0..(w - 1)
    BY <1>4
  <2>2. a * w + (fr + u) \in 0..(q * w - 1)
    BY ZenonT(40), <1>1, <2>1, TwoDigits
  <2>3. PICK y \in Int : y = (a * w + fr) + u /\ y = a * w + (fr + u)
    OBVIOUS
  <2>4. y % p = y
    <3>1. y \in 0..(p - 1)
      BY Zenon, <1>2, <2>2, <2>3
    <3> QED BY <3>1, SmallRemainder
  <2>5. CarriedTo(w, q, E, fr, u, E, fr + u)
    BY Zenon, <1>1, <1>2, <1>4, <2>3, <2>4 DEF CarriedTo
  <2> QED BY Zenon, <2>1, <2>5
<1> QED BY <1>3, <1>4

\* The slices of a vector of exponent c and fraction g; the two bits above the
\* exponent tell whether it overflows or is negative.
ResultBits(f, v, c, g, top, h) ==
  /\ Bits(v, f.wE + f.wF + 1, f.wE + f.wF) = top
  /\ BitOf(v, f.wE + f.wF + 1) = top \div 2 /\ BitOf(v, f.wE + f.wF) = top % 2
  /\ Bits(v, f.wE + f.wF - 1, f.wF) = h /\ Bits(v, f.wF - 1, 0) = g
  /\ Bits(v, f.wE + f.wF - 1, 0) = h * Pow2[f.wF] + g
  /\ c < 0 => top >= 2
  /\ 0 <= c /\ c < Pow2[f.wE] => top = 0 /\ h = c
  /\ Pow2[f.wE] <= c => top = 1
\* They are what is expected of them.
LEMMA ResultBitsAre ==
  ASSUME NEW f, NumberFormat(f), NEW c \in Int, -(2 * Pow2[f.wE]) <= c, c < 2 * Pow2[f.wE],
         NEW g \in 0..(Pow2[f.wF] - 1), NEW v, v = (c % (4 * Pow2[f.wE])) * Pow2[f.wF] + g
  PROVE  \E top \in 0..3, h \in 0..(Pow2[f.wE] - 1) : ResultBits(f, v, c, g, top, h)
<1>1. PICK F \in Nat, D \in Nat : F = f.wF /\ D = f.wE
  BY DEF NumberFormat
<1>2. PICK w \in Nat \ {0}, G \in Nat \ {0} : w = Pow2[F] /\ G = Pow2[D]
  BY Pow2Def
<1>3. PICK k \in Int, a \in 0..(4 * G - 1) : c = (4 * G) * k + a /\ a = c % (4 * G)
  <2>1. 4 * G \in Nat \ {0}
    OBVIOUS
  <2> QED BY ZenonT(40), <2>1, Division
<1>4. PICK top \in 0..3, h \in 0..(G - 1) : a = G * top + h
  <2>1. PICK q \in Nat, r \in 0..(G - 1) : a = G * q + r /\ G * q <= a
    <3>1. a \in Nat
      OBVIOUS
    <3>2. \E q \in Nat, r \in 0..(G - 1) : a = G * q + r /\ q = a \div G /\ r = a % G /\ r <= a /\ G * q <= a
      BY ZenonT(60), <3>1, NaturalDivision
    <3> QED BY Zenon, <3>2
  <2>2. q < 4
    <3>1. G * q < G * 4
      <4>1. G * q \in Int
        OBVIOUS
      <4> QED BY <2>1, <4>1
    <3> QED BY <3>1, ProductOrder
  <2>3. q \in 0..3
    BY <2>2
  <2> QED BY Zenon, <2>1, <2>3
<1>5. /\ c < 0 => top >= 2
      /\ 0 <= c /\ c < G => top = 0 /\ h = c
      /\ G <= c => top = 1
  <2>1. -(2 * G) <= c /\ c < 2 * G
    BY <1>1, <1>2
  <2>2. k = 0 \/ k = -1
    <3>1. (4 * G) * k = 4 * (G * k)
      OBVIOUS
    <3>2. k <= -2 => G * k <= G * (-2)
      BY ProductOrder
    <3>3. k >= 1 => G * 1 <= G * k
      BY ProductOrder
    <3>4. PICK z \in Int : z = G * k
      OBVIOUS
    <3> QED BY <1>3, <2>1, <3>1, <3>2, <3>3, <3>4
  <2>3. CASE k = 0
    <3>1. c = G * top + h
      BY <1>3, <1>4, <2>3
    <3>2. top = 0 \/ top = 1 \/ top = 2 \/ top = 3
      OBVIOUS
    <3> QED BY <2>1, <3>1, <3>2
  <2>4. CASE k = -1
    <3>1. c = -(4 * G) + (G * top + h)
      BY <1>3, <1>4, <2>4
    <3>2. top = 0 \/ top = 1 \/ top = 2 \/ top = 3
      OBVIOUS
    <3> QED BY <2>1, <3>1, <3>2
  <2> QED BY <2>2, <2>3, <2>4
<1>6. PICK p \in Nat \ {0} : p = G * w
  OBVIOUS
<1>7. PICK l \in 0..(p - 1) : l = h * w + g
  <2>1. g \in 0..(w - 1)
    BY <1>1, <1>2
  <2> QED BY ZenonT(40), <1>6, <2>1, TwoDigits
<1>8. v = p * top + l /\ v = w * a + g /\ v \in Nat
  <2>1. v = a * w + g
    BY Zenon, <1>1, <1>2, <1>3
  <2>2. (G * top + h) * w = (G * w) * top + h * w
    OBVIOUS
  <2>3. PICK y \in Int, z \in Int : y = h * w /\ z = p * top
    OBVIOUS
  <2>4. a * w = z + y
    BY Zenon, <1>4, <1>6, <2>2, <2>3
  <2>5. g \in Nat
    BY <1>1, <1>2
  <2>6. v = z + l
    BY <1>7, <2>1, <2>3, <2>4, <2>5
  <2>7. a * w = w * a /\ a * w \in Nat
    OBVIOUS
  <2> QED BY <2>1, <2>3, <2>5, <2>6, <2>7
<1>9. v \div p = top /\ v % p = l
  <2>1. top \in Int
    OBVIOUS
  <2>2. (p * top + l) \div p = top /\ (p * top + l) % p = l
    BY ZenonT(40), <2>1, DivisionUnique
  <2> QED BY Zenon, <1>8, <2>2
<1>10. v \div w = a /\ v % w = g
  <2>1. g \in 0..(w - 1) /\ a \in Int
    BY <1>1, <1>2
  <2>2. (w * a + g) \div w = a /\ (w * a + g) % w = g
    BY ZenonT(40), <2>1, DivisionUnique
  <2> QED BY Zenon, <1>8, <2>2
<1>11. /\ f.wE + f.wF = D + F /\ f.wE + f.wF + 1 = (D + F) + 1 /\ (D + F) + 1 = ((D + F) + 2) - 1
       /\ f.wE + f.wF - 1 = (D + F) - 1 /\ D + F = F + D /\ D + F \in Nat /\ f.wF - 1 = (0 + F) - 1
       /\ (D + F) - 1 = (0 + (D + F)) - 1
  BY <1>1
<1>12. /\ Pow2[D + F] = p /\ Pow2[(D + F) + 1] = 2 * p /\ Pow2[0] = 1 /\ Pow2[1] = 2 /\ Pow2[2] = 4
  <2>1. Pow2[D + F] = p
    BY <1>2, <1>6, Pow2Sum
  <2>2. Pow2[(D + F) + 1] = 2 * Pow2[D + F]
    BY Zenon, <1>11, Pow2Def
  <2>3. Pow2[0 + 1] = 2 * Pow2[0] /\ Pow2[1 + 1] = 2 * Pow2[1] /\ Pow2[0] = 1
    BY Pow2Def
  <2> QED BY <2>1, <2>2, <2>3
<1>13. PICK n \in Nat : n = D + F
  BY <1>11
<1>14. Bits(v, f.wE + f.wF + 1, f.wE + f.wF) = top
  <2>1. v \in Int /\ 2 \in Nat
    BY <1>8
  <2>2. Bits(v, (n + 2) - 1, n) = (v \div Pow2[n]) % Pow2[2]
    BY ZenonT(40), <2>1, BitsDef
  <2>3. top % 4 = top
    OBVIOUS
  <2> QED BY Zenon, <1>9, <1>11, <1>12, <1>13, <2>2, <2>3
<1>15. BitOf(v, f.wE + f.wF + 1) = top \div 2 /\ BitOf(v, f.wE + f.wF) = top % 2
  <2>1. v \div (2 * p) = top \div 2
    <3>1. PICK b \in 0..1, t \in 0..1 : top = 2 * b + t /\ b = top \div 2
      OBVIOUS
    <3>2. p * (2 * b + t) = (2 * p) * b + p * t
      OBVIOUS
    <3>3. p * t + l \in 0..(2 * p - 1)
      <4>1. t = 0 \/ t = 1
        OBVIOUS
      <4> QED BY <4>1
    <3>4. v = (2 * p) * b + (p * t + l)
      <4>1. PICK y \in Int, z \in Int : y = (2 * p) * b /\ z = p * t
        OBVIOUS
      <4>2. v = (y + z) + l
        BY Zenon, <1>8, <3>1, <3>2, <4>1
      <4>3. v = y + (z + l)
        BY <4>2
      <4> QED BY Zenon, <4>1, <4>3
    <3>5. ((2 * p) * b + (p * t + l)) \div (2 * p) = b
      <4>1. 2 * p \in Nat \ {0} /\ b \in Int
        OBVIOUS
      <4> QED BY <3>3, <4>1, DivisionUnique
    <3> QED BY Zenon, <3>1, <3>4, <3>5
  <2>2. (top \div 2) % 2 = top \div 2
    <3>1. top = 0 \/ top = 1 \/ top = 2 \/ top = 3
      OBVIOUS
    <3> QED BY <3>1
  <2> QED BY Zenon, <1>9, <1>11, <1>12, <2>1, <2>2 DEF BitOf
<1>16. Bits(v, f.wE + f.wF - 1, f.wF) = h
  <2>1. v \in Int
    BY <1>8
  <2>2. Bits(v, (F + D) - 1, F) = (v \div Pow2[F]) % Pow2[D]
    BY ZenonT(40), <2>1, BitsDef
  <2>3. (G * top + h) % G = h
    BY DivisionUnique
  <2> QED BY Zenon, <1>1, <1>2, <1>4, <1>10, <1>11, <2>2, <2>3
<1>17. Bits(v, f.wF - 1, 0) = g
  <2>1. v \in Int /\ 0 \in Nat /\ v \div 1 = v
    BY <1>8
  <2>2. Bits(v, (0 + F) - 1, 0) = (v \div Pow2[0]) % Pow2[F]
    BY ZenonT(40), <2>1, BitsDef
  <2> QED BY Zenon, <1>2, <1>10, <1>11, <1>12, <2>1, <2>2
<1>18. Bits(v, f.wE + f.wF - 1, 0) = h * w + g
  <2>1. v \in Int /\ 0 \in Nat /\ v \div 1 = v
    BY <1>8
  <2>2. Bits(v, (0 + n) - 1, 0) = (v \div Pow2[0]) % Pow2[n]
    BY ZenonT(40), <2>1, BitsDef
  <2> QED BY Zenon, <1>7, <1>9, <1>11, <1>12, <1>13, <2>1, <2>2
<1>19. ResultBits(f, v, c, g, top, h)
  BY Zenon, <1>1, <1>2, <1>5, <1>14, <1>15, <1>16, <1>17, <1>18 DEF ResultBits
<1>20. h \in 0..(Pow2[f.wE] - 1)
  BY <1>1, <1>2
<1> QED BY Zenon, <1>19, <1>20

\* Two encodings of the same zero, infinity or number that is not one agree, whatever
\* their free bits are.
OtherAgree(f, s, e, i, j, k, l) == FPEqual(f, Encode(f, e, s, i, j), Encode(f, e, s, k, l))

\* Only the exception bits and the sign are compared.
LEMMA EncodingsAgree ==
  ASSUME NEW f, NumberFormat(f), NEW s \in 0..1, NEW e \in {0, 2, 3},
         NEW i \in 0..(Pow2[f.wE] - 1), NEW j \in 0..(Pow2[f.wF] - 1),
         NEW k \in 0..(Pow2[f.wE] - 1), NEW l \in 0..(Pow2[f.wF] - 1)
  PROVE  OtherAgree(f, s, e, i, j, k, l)
<1>1. e \in 0..3 /\ e # 1
  OBVIOUS
<1>2. Exn(f, Encode(f, e, s, i, j)) = e /\ Sign(f, Encode(f, e, s, i, j)) = s
  BY ZenonT(40), <1>1, EncodedFields
<1>3. Exn(f, Encode(f, e, s, k, l)) = e /\ Sign(f, Encode(f, e, s, k, l)) = s
  BY ZenonT(40), <1>1, EncodedFields
<1>4. NormalExn = 1
  BY DEF NormalExn
<1> DEFINE v == Encode(f, e, s, i, j)
           w == Encode(f, e, s, k, l)
<1> HIDE DEF v, w
<1>5. Exn(f, v) = e /\ Sign(f, v) = s /\ Exn(f, w) = e /\ Sign(f, w) = s
  BY Zenon, <1>2, <1>3 DEF v, w
<1>6. FPEqual(f, v, w)
  BY Zenon, <1>1, <1>4, <1>5 DEF FPEqual
<1> QED BY Zenon, <1>6 DEF OtherAgree, v, w

\* They encode the rounded number, or the infinity or zero that it becomes.
LEMMA PackedResult ==
  ASSUME NEW f, NumberFormat(f), NEW sign \in 0..1, NEW c \in Int, NEW g \in 0..(Pow2[f.wF] - 1), NEW v,
         NEW top \in 0..3, NEW h \in 0..(Pow2[f.wE] - 1), ResultBits(f, v, c, g, top, h)
  PROVE  FPEqual(f, Encode(f, IF top = 0 THEN NormalExn ELSE IF top = 1 THEN InfExn ELSE ZeroExn, sign, h, g),
                 Packed(f, sign, c - Bias(f), g))
<1>1. PICK G \in Nat \ {0} : G = Pow2[f.wE]
  <2>1. f.wE \in Nat
    BY DEF NumberFormat
  <2> QED BY <2>1, Pow2Def
<1>2. (c - Bias(f)) + Bias(f) = c /\ Ones(f.wE) = G - 1
  <2>1. Bias(f) \in Int
    <3>1. f.wE - 1 \in Nat
      BY DEF NumberFormat
    <3>2. PICK l \in Nat \ {0} : l = Pow2[f.wE - 1]
      BY <3>1, Pow2Def
    <3>3. Bias(f) = l - 1
      BY Zenon, <3>2 DEF Bias
    <3> QED BY <3>3
  <2> QED BY <1>1, <2>1 DEF Ones
<1>3. 0 \in 0..3 /\ 1 \in 0..3 /\ 2 \in 0..3 /\ 0 \in 0..(Pow2[f.wE] - 1) /\ 0 \in 0..(Pow2[f.wF] - 1)
  <2>1. Pow2[f.wF] \in Nat \ {0}
    BY Pow2Def DEF NumberFormat
  <2> QED BY <1>1, <2>1
<1>4. ZeroExn = 0 /\ NormalExn = 1 /\ InfExn = 2 /\ NaNExn = 3
  BY DEF ZeroExn, NormalExn, InfExn, NaNExn
<1>5. ASSUME NEW exn \in 0..3, NEW i \in 0..(Pow2[f.wE] - 1), NEW j \in 0..(Pow2[f.wF] - 1)
      PROVE  Exn(f, Encode(f, exn, sign, i, j)) = exn /\ Sign(f, Encode(f, exn, sign, i, j)) = sign
  BY <1>5, EncodedFields
<1> DEFINE exn == IF top = 0 THEN NormalExn ELSE IF top = 1 THEN InfExn ELSE ZeroExn
<1>6. CASE c < 0
  <2>1. top # 0 /\ top # 1
    BY <1>6 DEF ResultBits
  <2>2. Packed(f, sign, c - Bias(f), g) = Zero(f, sign)
    <3>1. (c - Bias(f)) + Bias(f) < 0 /\ ~((c - Bias(f)) + Bias(f) > Ones(f.wE))
      BY <1>2, <1>6
    <3> QED BY ONLY SMT, <3>1 DEF Packed
  <2>3. Packed(f, sign, c - Bias(f), g) = Encode(f, 0, sign, 0, 0)
    BY Zenon, <1>4, <2>2 DEF Zero
  <2>4. exn = 0
    BY Zenon, <1>4, <2>1
  <2>5. OtherAgree(f, sign, 0, h, g, 0, 0)
    BY Zenon, <1>3, EncodingsAgree
  <2> HIDE DEF exn
  <2> QED BY Zenon, <2>3, <2>4, <2>5 DEF OtherAgree, exn
<1>7. CASE 0 <= c /\ c < G
  <2>1. top = 0 /\ h = c
    BY <1>1, <1>7 DEF ResultBits
  <2>2. ~(c < 0) /\ ~(c > G - 1)
    BY <1>7
  <2>3. Packed(f, sign, c - Bias(f), g) = Encode(f, 1, sign, c, g)
    BY Zenon, <1>2, <1>4, <2>2 DEF Packed
  <2>4. exn = 1
    BY Zenon, <1>4, <2>1
  <2>5. Exn(f, Encode(f, 1, sign, c, g)) = NormalExn
    BY Zenon, <1>4, <1>5, <1>3, <2>1
  <2> HIDE DEF exn
  <2>6. FPEqual(f, Encode(f, 1, sign, c, g), Encode(f, 1, sign, c, g))
    BY Zenon, <2>5 DEF FPEqual
  <2>7. FPEqual(f, Encode(f, exn, sign, h, g), Packed(f, sign, c - Bias(f), g))
    BY Zenon, <2>1, <2>3, <2>4, <2>6
  <2> QED BY Zenon, <2>7 DEF exn
<1>8. CASE G <= c
  <2>1. top = 1
    BY <1>1, <1>8 DEF ResultBits
  <2>2. ~(c < 0) /\ c > G - 1
    BY <1>8
  <2>3. Packed(f, sign, c - Bias(f), g) = Encode(f, 2, sign, 0, 0)
    BY Zenon, <1>2, <1>4, <2>2 DEF Packed, Infinity
  <2>4. exn = 2
    <3>1. 1 # 0
      OBVIOUS
    <3> QED BY Zenon, <1>4, <2>1, <3>1
  <2>5. OtherAgree(f, sign, 2, h, g, 0, 0)
    BY Zenon, <1>3, EncodingsAgree
  <2> HIDE DEF exn
  <2> QED BY Zenon, <2>3, <2>4, <2>5 DEF OtherAgree, exn
<1> QED BY <1>6, <1>7, <1>8

\* A positive factor changes no comparison.
LEMMA SameOrder ==
  ASSUME NEW a \in Nat \ {0}, NEW u \in Int, NEW v \in Int
  PROVE  (a * u < a * v <=> u < v) /\ (a * u = a * v <=> u = v)
<1>1. ASSUME NEW y \in Int, NEW z \in Int, y < z PROVE a * y < a * z
  <2>1. a * (y + 1) <= a * z
    <3>1. y + 1 \in Int /\ y + 1 <= z
      BY <1>1
    <3> QED BY ZenonT(40), <3>1, ProductOrder
  <2>2. a * (y + 1) = a * y + a
    OBVIOUS
  <2>3. PICK b \in Int, c \in Int : b = a * y /\ c = a * z
    OBVIOUS
  <2>4. b + a <= c
    BY Zenon, <2>1, <2>2, <2>3
  <2> QED BY <2>3, <2>4
<1>2. a * u \in Int /\ a * v \in Int
  OBVIOUS
<1>3. u < v => a * u < a * v
  BY <1>1
<1>4. v < u => a * v < a * u
  BY <1>1
<1>5. u = v => a * u = a * v
  OBVIOUS
<1> QED BY <1>2, <1>3, <1>4, <1>5

\* A digit is an integer.
LEMMA DigitType ==
  ASSUME NEW m \in 0..1
  PROVE  m \in Int /\ m \in Nat
  OBVIOUS

\* The exponent of a fraction from those of its terms.
MagnitudeFrom(n, den, b) == Magnitude(n, den) = IF n < den * Pow2[b] THEN b - 1 ELSE b

\* It is their difference, or one less.
LEMMA MagnitudeIs ==
  ASSUME NEW n \in Nat, NEW den \in Nat, NEW a \in Nat, NEW b \in Nat,
         Pow2[a] <= den, den < Pow2[a + 1], Pow2[a + b] <= n, n < Pow2[(a + b) + 1]
  PROVE  MagnitudeFrom(n, den, b)
<1>1. IntLog2(den) = a + 1
  BY ZenonT(40), IntLog2Between
<1>2. IntLog2(n) = (a + b) + 1
  <2>1. a + b \in Nat
    OBVIOUS
  <2> QED BY ZenonT(40), <2>1, IntLog2Between
<1>3. ((a + b) + 1) - (a + 1) = b /\ b >= 0
  OBVIOUS
<1> QED BY Zenon, <1>1, <1>2, <1>3 DEF Magnitude, Below, MagnitudeFrom

\* The significand that is rounded: q of the units of the last place, and a rest r of den.
NearestUp(q, r, e, u) == u = 1 <=> 2 * r > e \/ (2 * r = e /\ q % 2 = 1)
RoundsTo(f, sign, n, den, e, m, q, u) ==
  Rounded(f, sign, n, den, e)
    = IF q + u = Pow2[f.wF + 1] THEN Packed(f, sign, e + m + 1, 0)
      ELSE Packed(f, sign, e + m, (q + u) - Pow2[f.wF])

\* The definition of the rounding, for a fraction whose quotient and rest are known.
LEMMA RoundedIs ==
  ASSUME NEW f, NumberFormat(f), NEW sign, NEW n \in Nat, NEW den \in Nat \ {0}, NEW e \in Int,
         NEW m \in Int, Magnitude(n, den) = m, NEW k \in Nat, f.wF - m = k,
         NEW q \in Nat, NEW r \in 0..(den - 1), n * Pow2[k] = den * q + r,
         NEW u \in 0..1, NearestUp(q, r, den, u)
  PROVE  RoundsTo(f, sign, n, den, e, m, q, u)
<1>1. (den * q + r) \div den = q /\ (den * q + r) % den = r
  <2>1. q \in Int
    OBVIOUS
  <2> QED BY ZenonT(40), <2>1, DivisionUnique
<1>2. (n * Pow2[k]) \div den = q /\ (n * Pow2[k]) % den = r
  BY Zenon, <1>1
<1>3. k >= 0
  OBVIOUS
<1>4. Flag(2 * r > den \/ (2 * r = den /\ q % 2 = 1)) = u
  <2>1. u = 0 \/ u = 1
    OBVIOUS
  <2>2. u = 0 => u # 1
    OBVIOUS
  <2> QED BY Zenon, <2>1, <2>2 DEF Flag, NearestUp
<1>5. Rounded(f, sign, n, den, e) = RoundedTo(f, sign, n, den, e, "nearest")
  BY DEF Rounded
<1> QED BY Zenon, <1>2, <1>3, <1>4, <1>5 DEF RoundedTo, RoundsTo

\* The exception bits and sign of a result whose other bits are free.
LEMMA FreeBits ==
  ASSUME NEW f, NumberFormat(f), NEW s \in 0..1, NEW v \in Int
  PROVE  /\ Bits(v, f.wE + f.wF - 1, f.wF) \in 0..(Pow2[f.wE] - 1)
         /\ Bits(v, f.wF - 1, 0) \in 0..(Pow2[f.wF] - 1)
<1>1. PICK F \in Nat, D \in Nat : F = f.wF /\ D = f.wE
  BY DEF NumberFormat
<1>2. f.wE + f.wF - 1 = (F + D) - 1 /\ f.wF - 1 = (0 + F) - 1 /\ 0 \in Nat
  BY <1>1
<1>3. Bits(v, (F + D) - 1, F) \in 0..(Pow2[D] - 1)
  BY ZenonT(40), BitsDef
<1>4. Bits(v, (0 + F) - 1, 0) \in 0..(Pow2[F] - 1)
  BY ZenonT(40), <1>2, BitsDef
<1> QED BY Zenon, <1>1, <1>2, <1>3, <1>4

\* The two lemmas above, one after the other.
RoundedBits(f, E, fr, u, v, c, g, top, h) ==
  /\ fr + u = Pow2[f.wF] => c = E + 1 /\ g = 0
  /\ fr + u # Pow2[f.wF] => c = E /\ g = fr + u
  /\ ResultBits(f, v, c, g, top, h)

\* A rounded exponent and fraction are sliced as they should.
LEMMA RoundedBitsAre ==
  ASSUME NEW f, NumberFormat(f), NEW E \in Int, NEW fr \in 0..(Pow2[f.wF] - 1), NEW u \in 0..1,
         -(2 * Pow2[f.wE]) <= E, E < 2 * Pow2[f.wE],
         fr + u = Pow2[f.wF] => E + 1 < 2 * Pow2[f.wE],
         NEW v, v = ((E % Pow2[f.wE + 2]) * Pow2[f.wF] + fr + u) % Pow2[f.wE + f.wF + 2]
  PROVE  \E c \in Int, g \in 0..(Pow2[f.wF] - 1), top \in 0..3, h \in 0..(Pow2[f.wE] - 1) :
           RoundedBits(f, E, fr, u, v, c, g, top, h)
<1>1. PICK F \in Nat, D \in Nat : F = f.wF /\ D = f.wE
  BY DEF NumberFormat
<1>2. PICK w \in Nat \ {0}, G \in Nat \ {0} : w = Pow2[F] /\ G = Pow2[D]
  BY Pow2Def
<1>3. Pow2[f.wE + 2] = 4 * G /\ Pow2[f.wE + f.wF + 2] = (4 * G) * w
  <2>1. D + 1 \in Nat /\ D + 2 \in Nat /\ D + 2 = (D + 1) + 1 /\ f.wE + f.wF + 2 = (D + 2) + F
    BY <1>1
  <2>2. Pow2[D + 1] = 2 * Pow2[D] /\ Pow2[(D + 1) + 1] = 2 * Pow2[D + 1]
    BY Zenon, <2>1, Pow2Def
  <2>3. 2 * (2 * G) = 4 * G
    OBVIOUS
  <2>4. Pow2[(D + 2) + F] = Pow2[D + 2] * Pow2[F]
    BY ZenonT(40), <2>1, Pow2Sum
  <2> QED BY Zenon, <1>1, <1>2, <2>1, <2>2, <2>3, <2>4
<1>4. PICK q \in Nat \ {0} : q = 4 * G
  OBVIOUS
<1>5. fr \in 0..(w - 1)
  BY Zenon, <1>1, <1>2
<1>6. PICK c \in Int, g \in 0..(w - 1) : CarriedTo(w, q, E, fr, u, c, g)
  BY ZenonT(40), <1>5, Carried
<1>7. v = (c % (4 * Pow2[f.wE])) * Pow2[f.wF] + g
  BY Zenon, <1>1, <1>2, <1>3, <1>4, <1>6 DEF CarriedTo
<1>8. (fr + u = w => c = E + 1 /\ g = 0) /\ (fr + u # w => c = E /\ g = fr + u)
  BY Zenon, <1>6 DEF CarriedTo
<1>9. -(2 * Pow2[f.wE]) <= c /\ c < 2 * Pow2[f.wE]
  <2>1. -(2 * G) <= E /\ E < 2 * G /\ (fr + u = w => E + 1 < 2 * G)
    BY Zenon, <1>1, <1>2
  <2>2. -(2 * G) <= c /\ c < 2 * G
    BY <1>5, <1>8, <2>1
  <2> QED BY Zenon, <1>1, <1>2, <2>2
<1>10. g \in 0..(Pow2[f.wF] - 1)
  BY Zenon, <1>1, <1>2
<1>11. PICK top \in 0..3, h \in 0..(Pow2[f.wE] - 1) : ResultBits(f, v, c, g, top, h)
  BY ZenonT(40), <1>7, <1>9, <1>10, ResultBitsAre
<1>12. RoundedBits(f, E, fr, u, v, c, g, top, h)
  BY Zenon, <1>1, <1>2, <1>8, <1>11 DEF RoundedBits
<1> QED BY Zenon, <1>10, <1>12

\* Whatever they are taken from, bits are a natural number.
LEMMA BitsType ==
  ASSUME NEW v \in Int, NEW hi \in Int, NEW lo \in Nat
  PROVE  Bits(v, hi, lo) \in Nat
<1>1. CASE hi < lo
  BY <1>1 DEF Bits
<1>2. CASE ~(hi < lo)
  <2>1. PICK N \in Nat : N = (hi - lo) + 1
    BY <1>2
  <2>2. hi = (lo + N) - 1
    BY <2>1
  <2>3. Bits(v, (lo + N) - 1, lo) \in 0..(Pow2[N] - 1)
    BY ZenonT(40), BitsDef
  <2> QED BY <2>2, <2>3
<1> QED BY <1>1, <1>2

\* And a bit is zero or one.
LEMMA BitOfType ==
  ASSUME NEW v \in Int, NEW i \in Nat
  PROVE  BitOf(v, i) \in 0..1
<1>1. PICK p \in Nat \ {0} : p = Pow2[i]
  BY Pow2Def
<1>2. PICK q \in Int : q = v \div p
  OBVIOUS
<1>3. q % 2 \in 0..1
  OBVIOUS
<1> QED BY Zenon, <1>1, <1>2, <1>3 DEF BitOf

-----------------------------------------------------------------------------
(***************************************************************************)
(* The divider.                                                            *)
(***************************************************************************)
\* The parameters of the three dividers.
LEMMA SRTIs ==
  /\ SRT[42] = [radix |-> 4, alpha |-> 2, nbBitsW |-> 6, nbBitsD |-> 3, dMsb |-> 1, extraBit |-> 7, qMsbToDiscard |-> 1]
  /\ SRT[43] = [radix |-> 4, alpha |-> 3, nbBitsW |-> 4, nbBitsD |-> 1, dMsb |-> 1, extraBit |-> 6, qMsbToDiscard |-> 0]
  /\ SRT[87] = [radix |-> 8, alpha |-> 7, nbBitsW |-> 5, nbBitsD |-> 2, dMsb |-> 2, extraBit |-> 9, qMsbToDiscard |-> 1]
  /\ DOMAIN SRT = {42, 43, 87}
<1>1. DOMAIN SRT = {42, 43, 87}
  BY DEF SRT
<1>2. SRT[42] = [radix |-> 4, alpha |-> 2, nbBitsW |-> 6, nbBitsD |-> 3, dMsb |-> 1, extraBit |-> 7, qMsbToDiscard |-> 1]
  BY DEF SRT
<1>3. SRT[43] = [radix |-> 4, alpha |-> 3, nbBitsW |-> 4, nbBitsD |-> 1, dMsb |-> 1, extraBit |-> 6, qMsbToDiscard |-> 0]
  BY DEF SRT
<1>4. SRT[87] = [radix |-> 8, alpha |-> 7, nbBitsW |-> 5, nbBitsD |-> 2, dMsb |-> 2, extraBit |-> 9, qMsbToDiscard |-> 1]
  BY DEF SRT
<1> QED BY <1>1, <1>2, <1>3, <1>4

\* The first powers of two.
LEMMA SmallPowers ==
  Pow2[0] = 1 /\ Pow2[1] = 2 /\ Pow2[2] = 4 /\ Pow2[3] = 8 /\ Pow2[4] = 16 /\ Pow2[5] = 32 /\ Pow2[6] = 64
<1>1. /\ Pow2[0] = 1 /\ Pow2[0 + 1] = 2 * Pow2[0] /\ Pow2[1 + 1] = 2 * Pow2[1] /\ Pow2[2 + 1] = 2 * Pow2[2]
      /\ Pow2[3 + 1] = 2 * Pow2[3] /\ Pow2[4 + 1] = 2 * Pow2[4] /\ Pow2[5 + 1] = 2 * Pow2[5]
  BY Pow2Def
<1> QED BY <1>1

\* The two bounds of a digit q for the remainders that begin with w and the divisors
\* that begin with lo, in the units that are left when both sides are divided.
BelowUpper(m, al, n, w, lo, q) ==
  n * (w + 1) <= (q * m + al) * (IF q * m + al >= 0 THEN lo ELSE lo + 1)
AboveLower(m, al, n, w, lo, q) ==
  n * w >= (q * m - al) * (IF q * m - al >= 0 THEN lo + 1 ELSE lo)
DigitFits(m, al, n, w, lo, q) ==
  /\ AboveLower(m, al, n, w, lo, q) \/ q = -al
  /\ BelowUpper(m, al, n, w, lo, q) \/ q = al
  /\ AboveLower(m, al, n, w, lo, q) \/ BelowUpper(m, al, n, w, lo, q)

\* Every entry of the table has a digit: when q + 1 is too much, q is enough.
LEMMA DigitExists42 ==
  ASSUME NEW w \in Int, NEW lo \in 8..15
  PROVE  \E q \in -2..2 : DigitFits(3, 2, 6, w, lo, q)
<1>1. DigitFits(3, 2, 6, w, lo, -2) \/ DigitFits(3, 2, 6, w, lo, -1) \/ DigitFits(3, 2, 6, w, lo, 0)
      \/ DigitFits(3, 2, 6, w, lo, 1) \/ DigitFits(3, 2, 6, w, lo, 2)
  BY SMTT(60) DEF DigitFits, BelowUpper, AboveLower
<1> QED BY <1>1

\* So it does in radix 4 with digits up to 3.
LEMMA DigitExists43 ==
  ASSUME NEW w \in Int, NEW lo \in 2..3
  PROVE  \E q \in -3..3 : DigitFits(3, 3, 6, w, lo, q)
<1>1. DigitFits(3, 3, 6, w, lo, -3) \/ DigitFits(3, 3, 6, w, lo, -2) \/ DigitFits(3, 3, 6, w, lo, -1)
      \/ DigitFits(3, 3, 6, w, lo, 0) \/ DigitFits(3, 3, 6, w, lo, 1) \/ DigitFits(3, 3, 6, w, lo, 2)
      \/ DigitFits(3, 3, 6, w, lo, 3)
  BY SMTT(60) DEF DigitFits, BelowUpper, AboveLower
<1> QED BY <1>1

\* And in radix 8.
LEMMA DigitExists87 ==
  ASSUME NEW w \in Int, NEW lo \in 12..15
  PROVE  \E q \in -7..7 : DigitFits(7, 7, 56, w, lo, q)
<1>1. DigitFits(7, 7, 56, w, lo, -7) \/ DigitFits(7, 7, 56, w, lo, -6) \/ DigitFits(7, 7, 56, w, lo, -5)
      \/ DigitFits(7, 7, 56, w, lo, -4) \/ DigitFits(7, 7, 56, w, lo, -3) \/ DigitFits(7, 7, 56, w, lo, -2)
      \/ DigitFits(7, 7, 56, w, lo, -1) \/ DigitFits(7, 7, 56, w, lo, 0) \/ DigitFits(7, 7, 56, w, lo, 1)
      \/ DigitFits(7, 7, 56, w, lo, 2) \/ DigitFits(7, 7, 56, w, lo, 3) \/ DigitFits(7, 7, 56, w, lo, 4)
      \/ DigitFits(7, 7, 56, w, lo, 5) \/ DigitFits(7, 7, 56, w, lo, 6) \/ DigitFits(7, 7, 56, w, lo, 7)
  <2>1. CASE lo = 12
    BY SMTT(60), <2>1 DEF DigitFits, BelowUpper, AboveLower
  <2>2. CASE lo = 13
    BY SMTT(60), <2>2 DEF DigitFits, BelowUpper, AboveLower
  <2>3. CASE lo = 14
    BY SMTT(60), <2>3 DEF DigitFits, BelowUpper, AboveLower
  <2>4. CASE lo = 15
    BY SMTT(60), <2>4 DEF DigitFits, BelowUpper, AboveLower
  <2> QED BY <2>1, <2>2, <2>3, <2>4
<1> QED BY <1>1

\* The parameters of a divider: its radix and largest digit, the factor of the bounds of
\* its table, the bits of its selector, and the least leading bits of a divisor.
DivParameters(srt, r, al, n, nbW, nbD, msb, lo) ==
  \/ srt = 42 /\ r = 4 /\ al = 2 /\ n = 6 /\ nbW = 6 /\ nbD = 3 /\ msb = 1 /\ lo = 8
  \/ srt = 43 /\ r = 4 /\ al = 3 /\ n = 6 /\ nbW = 4 /\ nbD = 1 /\ msb = 1 /\ lo = 2
  \/ srt = 87 /\ r = 8 /\ al = 7 /\ n = 56 /\ nbW = 5 /\ nbD = 2 /\ msb = 2 /\ lo = 12
DivRecord(c, r, al, nbW, nbD, msb) ==
  c.radix = r /\ c.alpha = al /\ c.nbBitsW = nbW /\ c.nbBitsD = nbD /\ c.dMsb = msb

\* What they are in the source.
LEMMA DivParametersAre ==
  ASSUME NEW srt, NEW r, NEW al, NEW n, NEW nbW, NEW nbD, NEW msb, NEW lo,
         DivParameters(srt, r, al, n, nbW, nbD, msb, lo)
  PROVE  srt \in DOMAIN SRT /\ DivRecord(SRT[srt], r, al, nbW, nbD, msb)
<1>1. CASE srt = 42 /\ r = 4 /\ al = 2 /\ n = 6 /\ nbW = 6 /\ nbD = 3 /\ msb = 1 /\ lo = 8
  BY <1>1, SRTIs DEF DivRecord
<1>2. CASE srt = 43 /\ r = 4 /\ al = 3 /\ n = 6 /\ nbW = 4 /\ nbD = 1 /\ msb = 1 /\ lo = 2
  BY <1>2, SRTIs DEF DivRecord
<1>3. CASE srt = 87 /\ r = 8 /\ al = 7 /\ n = 56 /\ nbW = 5 /\ nbD = 2 /\ msb = 2 /\ lo = 12
  BY <1>3, SRTIs DEF DivRecord
<1> QED BY Zenon, <1>1, <1>2, <1>3 DEF DivParameters

\* A digit fits in the table when it does in the units above.
FitsAs(srt, r, al, n, w, lo, t, q) == Fits(SRT[srt], w, t, q) <=> DigitFits(r - 1, al, n, w, lo + t, q)

\* The bounds of the table are those above, multiplied.
LEMMA FitsIs ==
  ASSUME NEW srt, NEW r \in Int, NEW al \in Int, NEW n \in Int, NEW nbW \in Nat, NEW nbD \in Nat,
         NEW msb \in Nat, NEW lo \in Nat, DivParameters(srt, r, al, n, nbW, nbD, msb, lo),
         NEW w \in Int, NEW t \in Nat, NEW q \in Int
  PROVE  FitsAs(srt, r, al, n, w, lo, t, q)
<1>1. DivRecord(SRT[srt], r, al, nbW, nbD, msb)
  BY ZenonT(40), DivParametersAre
<1>2. PICK c : c = SRT[srt] /\ c.radix = r /\ c.alpha = al /\ c.nbBitsW = nbW /\ c.nbBitsD = nbD /\ c.dMsb = msb
  BY Zenon, <1>1 DEF DivRecord
<1>3. PICK u \in Int, v \in Int : u = q * (r - 1) + al /\ v = q * (r - 1) - al
  OBVIOUS
<1>4. PICK hi \in Nat : hi = lo + t
  OBVIOUS
<1>5. PICK y \in Int, z \in Int : /\ y = u * (IF u >= 0 THEN hi ELSE hi + 1)
                                  /\ z = v * (IF v >= 0 THEN hi + 1 ELSE hi)
  <2>1. u * hi \in Int /\ u * (hi + 1) \in Int /\ v * hi \in Int /\ v * (hi + 1) \in Int
    OBVIOUS
  <2>2. u * (IF u >= 0 THEN hi ELSE hi + 1) \in Int /\ v * (IF v >= 0 THEN hi + 1 ELSE hi) \in Int
    BY Zenon, <2>1
  <2> QED BY Zenon, <2>2
<1>6. /\ BelowUpper(r - 1, al, n, w, lo + t, q) <=> n * (w + 1) <= y
      /\ AboveLower(r - 1, al, n, w, lo + t, q) <=> n * w >= z
  BY Zenon, <1>3, <1>4, <1>5 DEF BelowUpper, AboveLower
<1>7. PICK e \in Nat, g \in Nat : /\ g = Pow2[nbW] /\ e = 2 * r * (r - 1) * Pow2[nbD + msb] /\ g > 0
                                  /\ DLow(c, t) = hi /\ DHigh(c, t) = hi + 1 /\ e = n * g
                                  /\ g = 64 \/ g = 16 \/ g = 32
  <2>1. (Pow2[msb] - 1) * Pow2[nbD] = lo
    <3>1. CASE srt = 42 /\ r = 4 /\ al = 2 /\ n = 6 /\ nbW = 6 /\ nbD = 3 /\ msb = 1 /\ lo = 8
      BY <3>1, SmallPowers
    <3>2. CASE srt = 43 /\ r = 4 /\ al = 3 /\ n = 6 /\ nbW = 4 /\ nbD = 1 /\ msb = 1 /\ lo = 2
      BY <3>2, SmallPowers
    <3>3. CASE srt = 87 /\ r = 8 /\ al = 7 /\ n = 56 /\ nbW = 5 /\ nbD = 2 /\ msb = 2 /\ lo = 12
      BY <3>3, SmallPowers
    <3> QED BY Zenon, <3>1, <3>2, <3>3 DEF DivParameters
  <2>2. DLow(c, t) = hi /\ DHigh(c, t) = hi + 1
    BY Zenon, <1>2, <1>4, <2>1 DEF DLow, DHigh
  <2>3. CASE srt = 42 /\ r = 4 /\ al = 2 /\ n = 6 /\ nbW = 6 /\ nbD = 3 /\ msb = 1 /\ lo = 8
    <3>1. nbD + msb = 4
      BY <2>3
    <3>2. Pow2[nbD + msb] = 16 /\ Pow2[nbW] = 64
      BY Zenon, <2>3, <3>1, SmallPowers
    <3> QED BY <2>2, <2>3, <3>2
  <2>4. CASE srt = 43 /\ r = 4 /\ al = 3 /\ n = 6 /\ nbW = 4 /\ nbD = 1 /\ msb = 1 /\ lo = 2
    <3>1. nbD + msb = 2
      BY <2>4
    <3>2. Pow2[nbD + msb] = 4 /\ Pow2[nbW] = 16
      BY Zenon, <2>4, <3>1, SmallPowers
    <3> QED BY <2>2, <2>4, <3>2
  <2>5. CASE srt = 87 /\ r = 8 /\ al = 7 /\ n = 56 /\ nbW = 5 /\ nbD = 2 /\ msb = 2 /\ lo = 12
    <3>1. nbD + msb = 4
      BY <2>5
    <3>2. Pow2[nbD + msb] = 16 /\ Pow2[nbW] = 32
      BY Zenon, <2>5, <3>1, SmallPowers
    <3> QED BY <2>2, <2>5, <3>2
  <2> QED BY Zenon, <2>3, <2>4, <2>5 DEF DivParameters
<1>8. /\ (w + 1) * e <= y * g <=> n * (w + 1) <= y
      /\ w * e >= z * g <=> n * w >= z
  <2>1. (w + 1) * (n * g) = g * (n * (w + 1)) /\ y * g = g * y /\ w * (n * g) = g * (n * w) /\ z * g = g * z
    OBVIOUS
  <2>2. PICK a \in Int, b \in Int : a = n * (w + 1) /\ b = n * w
    OBVIOUS
  <2>3. (g * a <= g * y <=> a <= y) /\ (g * b >= g * z <=> b >= z)
    BY <1>7
  <2> QED BY Zenon, <1>7, <2>1, <2>2, <2>3
<1>9. Fits(c, w, t, q) <=> /\ w * e >= z * g \/ q = -al
                           /\ (w + 1) * e <= y * g \/ q = al
                           /\ w * e >= z * g \/ (w + 1) * e <= y * g
  BY ZenonT(40), <1>2, <1>3, <1>5, <1>7 DEF Fits
<1>10. DigitFits(r - 1, al, n, w, lo + t, q) <=> /\ n * w >= z \/ q = -al
                                                 /\ n * (w + 1) <= y \/ q = al
                                                 /\ n * w >= z \/ n * (w + 1) <= y
  BY Zenon, <1>6 DEF DigitFits
<1> QED BY Zenon, <1>2, <1>8, <1>9, <1>10 DEF FitsAs

\* A set of integers with a lower bound has a least one.
LEMMA LeastInteger ==
  ASSUME NEW a \in Int, NEW V, V \in SUBSET Int, V # {}, \A q \in V : a <= q
  PROVE  \E q \in V : \A other \in V : q <= other
<1> DEFINE U == {q - a : q \in V}
<1>1. U \in SUBSET Nat /\ U # {}
  <2>1. \A q \in V : q - a \in Nat
    OBVIOUS
  <2>2. PICK q : q \in V
    OBVIOUS
  <2>3. q - a \in U
    BY Zenon, <2>2
  <2>4. \A x \in U : x \in Nat
    BY Zenon, <2>1
  <2> HIDE DEF U
  <2> QED BY Zenon, <2>3, <2>4
<1>2. PICK x \in U : \A y \in U : x <= y
  <2> HIDE DEF U
  <2> QED BY <1>1, LeastNatural
<1>3. PICK q \in V : x = q - a
  OBVIOUS
<1>4. \A other \in V : other - a \in U
  OBVIOUS
<1>5. \A other \in V : q - a <= other - a /\ other \in Int
  <2> HIDE DEF U
  <2> QED BY Zenon, <1>2, <1>3, <1>4
<1>6. \A other \in V : q <= other
  BY <1>5
<1> QED BY Zenon, <1>6

\* The table: whatever the entry, its digit is one that fits.
Selects(srt, r, al, n, lo, w, t, sel) ==
  /\ SelFunction[srt][sel] \in -al..al
  /\ DigitFits(r - 1, al, n, w, lo + t, SelFunction[srt][sel])

\* A digit that fits exists, and so the smallest of them is chosen.
LEMMA SelectionFits ==
  ASSUME NEW srt, NEW r \in Int, NEW al \in Int, NEW n \in Int, NEW nbW \in Nat, NEW nbD \in Nat,
         NEW msb \in Nat, NEW lo \in Nat, DivParameters(srt, r, al, n, nbW, nbD, msb, lo),
         NEW sel \in 0..(Pow2[nbW + nbD] - 1), NEW w \in Int, w = Signed(nbW, sel \div Pow2[nbD]),
         NEW t \in 0..(Pow2[nbD] - 1), t = Bits(sel, nbD - 1, 0)
  PROVE  Selects(srt, r, al, n, lo, w, t, sel)
<1>1. srt \in DOMAIN SRT /\ DivRecord(SRT[srt], r, al, nbW, nbD, msb)
  BY ZenonT(40), DivParametersAre
<1>2. PICK c : c = SRT[srt] /\ c.radix = r /\ c.alpha = al /\ c.nbBitsW = nbW /\ c.nbBitsD = nbD /\ c.dMsb = msb
  BY Zenon, <1>1 DEF DivRecord
<1> DEFINE fitting == {q \in -al..al : Fits(c, w, t, q)}
<1>3. SelFunction[srt][sel] = CHOOSE q \in fitting : \A other \in fitting : q <= other
  <2>1. sel \in 0..Ones(c.nbBitsW + c.nbBitsD)
    BY Zenon, <1>2 DEF Ones
  <2>2. SelFunction[srt] = [s \in 0..Ones(SRT[srt].nbBitsW + SRT[srt].nbBitsD) |->
          LET c1 == SRT[srt]
              d1 == Bits(s, c1.nbBitsD - 1, 0)
              w1 == Signed(c1.nbBitsW, s \div Pow2[c1.nbBitsD])
              fitting1 == {q \in -c1.alpha..c1.alpha : Fits(c1, w1, d1, q)}
          IN CHOOSE q \in fitting1 : \A other \in fitting1 : q <= other]
    BY Zenon, <1>1 DEF SelFunction
  <2> QED BY ZenonT(40), <1>2, <2>1, <2>2
<1>4. t \in Nat /\ \A q \in -al..al : Fits(c, w, t, q) <=> DigitFits(r - 1, al, n, w, lo + t, q)
  <2>1. t \in Nat
    OBVIOUS
  <2> SUFFICES ASSUME NEW q \in -al..al
               PROVE  Fits(c, w, t, q) <=> DigitFits(r - 1, al, n, w, lo + t, q)
    BY <2>1
  <2>2. q \in Int
    OBVIOUS
  <2>3. FitsAs(srt, r, al, n, w, lo, t, q)
    BY ZenonT(60), <2>1, <2>2, FitsIs
  <2> QED BY Zenon, <1>2, <2>3 DEF FitsAs
<1>5. fitting # {}
  <2>1. \E q \in -al..al : DigitFits(r - 1, al, n, w, lo + t, q)
    <3>1. CASE srt = 42 /\ r = 4 /\ al = 2 /\ n = 6 /\ nbW = 6 /\ nbD = 3 /\ msb = 1 /\ lo = 8
      <4>1. lo + t \in 8..15 /\ r - 1 = 3
        BY <3>1, SmallPowers
      <4>2. \E q \in -2..2 : DigitFits(3, 2, 6, w, lo + t, q)
        BY ZenonT(40), <4>1, DigitExists42
      <4> QED BY Zenon, <3>1, <4>1, <4>2
    <3>2. CASE srt = 43 /\ r = 4 /\ al = 3 /\ n = 6 /\ nbW = 4 /\ nbD = 1 /\ msb = 1 /\ lo = 2
      <4>1. lo + t \in 2..3 /\ r - 1 = 3
        BY <3>2, SmallPowers
      <4>2. \E q \in -3..3 : DigitFits(3, 3, 6, w, lo + t, q)
        BY ZenonT(40), <4>1, DigitExists43
      <4> QED BY Zenon, <3>2, <4>1, <4>2
    <3>3. CASE srt = 87 /\ r = 8 /\ al = 7 /\ n = 56 /\ nbW = 5 /\ nbD = 2 /\ msb = 2 /\ lo = 12
      <4>1. lo + t \in 12..15 /\ r - 1 = 7
        BY <3>3, SmallPowers
      <4>2. \E q \in -7..7 : DigitFits(7, 7, 56, w, lo + t, q)
        BY ZenonT(40), <4>1, DigitExists87
      <4> QED BY Zenon, <3>3, <4>1, <4>2
    <3> QED BY Zenon, <3>1, <3>2, <3>3 DEF DivParameters
  <2> QED BY Zenon, <1>4, <2>1
<1>6. \E q \in fitting : \A other \in fitting : q <= other
  <2>1. -al \in Int /\ fitting \in SUBSET Int /\ \A q \in fitting : -al <= q
    OBVIOUS
  <2> HIDE DEF fitting
  <2> QED BY ZenonT(40), <1>5, <2>1, LeastInteger
<1>7. SelFunction[srt][sel] \in fitting
  <2> HIDE DEF fitting
  <2> QED BY Zenon, <1>3, <1>6
<1> QED BY Zenon, <1>4, <1>7 DEF Selects

\* A factor keeps an order, or reverses it.
LEMMA ScaledOrder ==
  ASSUME NEW a \in Int, NEW u \in Int, NEW v \in Int, u <= v
  PROVE  (a >= 0 => a * u <= a * v) /\ (a <= 0 => a * v <= a * u)
<1>1. PICK k \in Nat : v = u + k
  <2>1. v - u \in Nat /\ v = u + (v - u)
    OBVIOUS
  <2> QED BY <2>1
<1>2. a * (u + k) = a * u + a * k
  OBVIOUS
<1>3. (a >= 0 => a * k >= 0) /\ (a <= 0 => a * k <= 0)
  OBVIOUS
<1>4. PICK x \in Int, y \in Int, z \in Int : x = a * u /\ y = a * v /\ z = a * k
  OBVIOUS
<1>5. y = x + z /\ (a >= 0 => z >= 0) /\ (a <= 0 => z <= 0)
  BY Zenon, <1>1, <1>2, <1>3, <1>4
<1>6. (a >= 0 => x <= y) /\ (a <= 0 => y <= x)
  BY <1>5
<1> QED BY Zenon, <1>4, <1>6

\* A remainder within the bounds on which a selection rests, m being radix - 1.
Within(m, al, y, x) == -(4 * (al * y)) <= m * x /\ m * x <= 4 * (al * y)

\* The upper bound of a digit bounds the next remainder from above.
LEMMA NextUpper ==
  ASSUME NEW r \in Nat, NEW m \in Nat, r = m + 1, NEW al \in Nat, NEW n \in Nat, NEW M \in Nat, NEW K \in Nat,
         r * (m * K) = 4 * (n * M), NEW hi \in Nat, NEW y \in Int, hi * M <= y, y <= (hi + 1) * M,
         NEW w \in Int, NEW x \in Int, x <= K * (w + 1), Within(m, al, y, x),
         NEW q \in Int, BelowUpper(m, al, n, w, hi, q) \/ q = al
  PROVE  m * (r * x) <= 4 * ((q * m + al) * y)
<1>1. PICK u \in Int : u = q * m + al
  OBVIOUS
<1>2. CASE BelowUpper(m, al, n, w, hi, q)
  <2>1. PICK z \in Int : z = u * (IF u >= 0 THEN hi ELSE hi + 1)
    <3>1. u * hi \in Int /\ u * (hi + 1) \in Int
      OBVIOUS
    <3> QED BY <3>1
  <2>2. n * (w + 1) <= z
    BY Zenon, <1>1, <1>2, <2>1 DEF BelowUpper
  <2>3. PICK p \in Int, s \in Int, i \in Int : p = hi * M /\ s = (hi + 1) * M /\ i = u * y
    OBVIOUS
  <2>4. M * z <= i
    <3>1. CASE u >= 0
      <4>1. p <= y
        BY Zenon, <2>3
      <4>2. u * p <= u * y
        BY ZenonT(40), <3>1, <4>1, ScaledOrder
      <4>3. M * (u * hi) = u * (hi * M)
        OBVIOUS
      <4>4. z = u * hi
        BY Zenon, <2>1, <3>1
      <4> QED BY Zenon, <2>3, <4>2, <4>3, <4>4
    <3>2. CASE ~(u >= 0)
      <4>1. y <= s /\ u <= 0
        BY <2>3, <3>2
      <4>2. u * s <= u * y
        BY ZenonT(40), <4>1, ScaledOrder
      <4>3. M * (u * (hi + 1)) = u * ((hi + 1) * M)
        OBVIOUS
      <4>4. z = u * (hi + 1)
        BY Zenon, <2>1, <3>2
      <4> QED BY Zenon, <2>3, <4>2, <4>3, <4>4
    <3> QED BY <3>1, <3>2
  <2>5. M * (n * (w + 1)) <= M * z
    <3>1. n * (w + 1) \in Int /\ M >= 0 /\ M \in Int
      OBVIOUS
    <3> QED BY ZenonT(40), <2>2, <3>1, ScaledOrder
  <2>6. (m * r) * x <= (m * r) * (K * (w + 1))
    <3>1. K * (w + 1) \in Int /\ m * r >= 0 /\ m * r \in Int
      OBVIOUS
    <3> QED BY ZenonT(40), <3>1, ScaledOrder
  <2>7. (m * r) * (K * (w + 1)) = (r * (m * K)) * (w + 1) /\ (4 * (n * M)) * (w + 1) = 4 * (M * (n * (w + 1)))
        /\ (m * r) * x = m * (r * x)
    OBVIOUS
  <2>8. PICK a \in Int, b \in Int, c \in Int : a = m * (r * x) /\ b = M * (n * (w + 1)) /\ c = M * z
    OBVIOUS
  <2>9. a <= 4 * b /\ b <= c /\ c <= i
    BY Zenon, <2>4, <2>5, <2>6, <2>7, <2>8
  <2>10. a <= 4 * i
    BY <2>9
  <2> QED BY Zenon, <1>1, <2>3, <2>8, <2>10
<1>3. CASE q = al
  <2>1. PICK a \in Int, b \in Int : a = m * x /\ b = 4 * (al * y)
    OBVIOUS
  <2>2. a <= b
    BY Zenon, <2>1 DEF Within
  <2>3. r * a <= r * b
    <3>1. r \in Int /\ r >= 0
      OBVIOUS
    <3> QED BY ZenonT(40), <2>2, <3>1, ScaledOrder
  <2>4. r * (m * x) = m * (r * x) /\ r * (4 * (al * y)) = 4 * ((al * r) * y)
    OBVIOUS
  <2>5. al * r = al * m + al
    <3>1. al * (m + 1) = al * m + al
      OBVIOUS
    <3> QED BY Zenon, <3>1
  <2> QED BY Zenon, <1>3, <2>1, <2>3, <2>4, <2>5
<1> QED BY <1>2, <1>3

\* And its lower bound bounds it from below.
LEMMA NextLower ==
  ASSUME NEW r \in Nat, NEW m \in Nat, r = m + 1, NEW al \in Nat, NEW n \in Nat, NEW M \in Nat, NEW K \in Nat,
         r * (m * K) = 4 * (n * M), NEW hi \in Nat, NEW y \in Int, hi * M <= y, y <= (hi + 1) * M,
         NEW w \in Int, NEW x \in Int, K * w <= x, Within(m, al, y, x),
         NEW q \in Int, AboveLower(m, al, n, w, hi, q) \/ q = -al
  PROVE  4 * ((q * m - al) * y) <= m * (r * x)
<1>1. PICK u \in Int : u = q * m - al
  OBVIOUS
<1>2. CASE AboveLower(m, al, n, w, hi, q)
  <2>1. PICK z \in Int : z = u * (IF u >= 0 THEN hi + 1 ELSE hi)
    <3>1. u * hi \in Int /\ u * (hi + 1) \in Int
      OBVIOUS
    <3> QED BY <3>1
  <2>2. z <= n * w
    <3>1. n * w >= z
      BY Zenon, <1>1, <1>2, <2>1 DEF AboveLower
    <3> QED BY <3>1
  <2>3. PICK p \in Int, s \in Int, i \in Int : p = hi * M /\ s = (hi + 1) * M /\ i = u * y
    OBVIOUS
  <2>4. i <= M * z
    <3>1. CASE u >= 0
      <4>1. y <= s
        BY Zenon, <2>3
      <4>2. u * y <= u * s
        BY ZenonT(40), <3>1, <4>1, ScaledOrder
      <4>3. M * (u * (hi + 1)) = u * ((hi + 1) * M)
        OBVIOUS
      <4>4. z = u * (hi + 1)
        BY Zenon, <2>1, <3>1
      <4> QED BY Zenon, <2>3, <4>2, <4>3, <4>4
    <3>2. CASE ~(u >= 0)
      <4>1. p <= y /\ u <= 0
        BY <2>3, <3>2
      <4>2. u * y <= u * p
        BY ZenonT(40), <4>1, ScaledOrder
      <4>3. M * (u * hi) = u * (hi * M)
        OBVIOUS
      <4>4. z = u * hi
        BY Zenon, <2>1, <3>2
      <4> QED BY Zenon, <2>3, <4>2, <4>3, <4>4
    <3> QED BY <3>1, <3>2
  <2>5. M * z <= M * (n * w)
    <3>1. n * w \in Int /\ M >= 0 /\ M \in Int
      OBVIOUS
    <3> QED BY ZenonT(40), <2>2, <3>1, ScaledOrder
  <2>6. (m * r) * (K * w) <= (m * r) * x
    <3>1. K * w \in Int /\ m * r >= 0 /\ m * r \in Int
      OBVIOUS
    <3> QED BY ZenonT(40), <3>1, ScaledOrder
  <2>7. (m * r) * (K * w) = (r * (m * K)) * w /\ (4 * (n * M)) * w = 4 * (M * (n * w))
        /\ (m * r) * x = m * (r * x)
    OBVIOUS
  <2>8. PICK a \in Int, b \in Int, c \in Int : a = m * (r * x) /\ b = M * (n * w) /\ c = M * z
    OBVIOUS
  <2>9. 4 * b <= a /\ c <= b /\ i <= c
    BY Zenon, <2>4, <2>5, <2>6, <2>7, <2>8
  <2>10. 4 * i <= a
    BY <2>9
  <2> QED BY Zenon, <1>1, <2>3, <2>8, <2>10
<1>3. CASE q = -al
  <2>1. PICK a \in Int, b \in Int : a = m * x /\ b = -(4 * (al * y))
    OBVIOUS
  <2>2. b <= a
    BY Zenon, <2>1 DEF Within
  <2>3. r * b <= r * a
    <3>1. r \in Int /\ r >= 0
      OBVIOUS
    <3> QED BY ZenonT(40), <2>2, <3>1, ScaledOrder
  <2>4. r * (m * x) = m * (r * x) /\ r * (-(4 * (al * y))) = 4 * ((-(al * r)) * y)
    OBVIOUS
  <2>5. -(al * r) = (-al) * m - al
    <3>1. -(al * (m + 1)) = (-al) * m - al
      OBVIOUS
    <3> QED BY Zenon, <3>1
  <2> QED BY Zenon, <1>3, <2>1, <2>3, <2>4, <2>5
<1> QED BY <1>2, <1>3

\* The next remainder is within the bounds.
LEMMA NextWithin ==
  ASSUME NEW r \in Nat, NEW m \in Nat, r = m + 1, NEW al \in Nat, NEW n \in Nat, NEW M \in Nat, NEW K \in Nat,
         r * (m * K) = 4 * (n * M), NEW hi \in Nat, NEW y \in Int, hi * M <= y, y <= (hi + 1) * M,
         NEW w \in Int, NEW x \in Int, K * w <= x, x <= K * (w + 1), Within(m, al, y, x),
         NEW q \in Int, DigitFits(m, al, n, w, hi, q)
  PROVE  Within(m, al, y, r * x - 4 * (q * y))
<1>1. BelowUpper(m, al, n, w, hi, q) \/ q = al
  BY Zenon DEF DigitFits
<1>2. AboveLower(m, al, n, w, hi, q) \/ q = -al
  BY Zenon DEF DigitFits
<1>3. m * (r * x) <= 4 * ((q * m + al) * y)
  BY ZenonT(60), <1>1, NextUpper
<1>4. 4 * ((q * m - al) * y) <= m * (r * x)
  BY ZenonT(60), <1>2, NextLower
<1>5. /\ (q * m + al) * y = m * (q * y) + al * y
      /\ (q * m - al) * y = m * (q * y) - al * y
      /\ m * (r * x - 4 * (q * y)) = m * (r * x) - 4 * (m * (q * y))
  OBVIOUS
<1>6. PICK a \in Int, b \in Int, c \in Int, e \in Int : /\ a = m * (r * x) /\ b = m * (q * y) /\ c = al * y
                                                       /\ e = m * (r * x - 4 * (q * y))
  OBVIOUS
<1>7. a <= 4 * (b + c) /\ 4 * (b - c) <= a /\ e = a - 4 * b
  BY Zenon, <1>3, <1>4, <1>5, <1>6
<1>8. -(4 * c) <= e /\ e <= 4 * c
  BY <1>7
<1> QED BY Zenon, <1>6, <1>8 DEF Within

\* The leading bits of a remainder that is kept modulo a power of two are those of the remainder.
LEMMA LeadingBits ==
  ASSUME NEW k \in Nat, NEW n \in Nat, NEW x \in Int
  PROVE  Bits(x % Pow2[k + n], (k + n) - 1, k) = (x \div Pow2[k]) % Pow2[n]
<1>0. PICK w : w = x \div Pow2[k]
  OBVIOUS
<1>1. PICK K \in Nat \ {0}, N \in Nat \ {0} : K = Pow2[k] /\ N = Pow2[n]
  BY Pow2Def
<1>2. Pow2[k + n] = K * N /\ K * N \in Nat \ {0}
  <2>1. Pow2[k + n] = Pow2[k] * Pow2[n]
    BY ZenonT(40), Pow2Sum
  <2>2. Pow2[k + n] \in Nat \ {0}
    BY Pow2Def
  <2> QED BY Zenon, <1>1, <2>1, <2>2
<1>3. x % (K * N) = ((x \div K) % N) * K + (x % K)
  BY ZenonT(40), QuotientOfQuotient
<1>4. x \div K \in Int /\ x % K \in 0..(K - 1)
  BY ZenonT(40), Division
<1>5. w \in Int /\ w % N \in 0..(N - 1)
  <2>1. w \in Int
    BY Zenon, <1>0, <1>1, <1>4
  <2> QED BY ZenonT(40), <2>1, Division
<1>6. PICK v \in Int, q \in Int, s \in 0..(K - 1) : v = x % (K * N) /\ q = w % N /\ s = x % K
  <2>1. x % (K * N) \in 0..(K * N - 1)
    BY ZenonT(40), <1>2, Division
  <2>2. x % (K * N) \in Int /\ w % N \in Int
    BY <1>5, <2>1
  <2> QED BY Zenon, <1>4, <2>2
<1>7. v = K * q + s
  <2>1. v = q * K + s
    BY Zenon, <1>0, <1>1, <1>3, <1>6
  <2> QED BY <2>1
<1>8. v \div K = q
  BY ZenonT(40), <1>7, DivisionUnique
<1>9. Bits(v, (k + n) - 1, k) = (v \div Pow2[k]) % Pow2[n]
  BY ZenonT(40), BitsDef
<1>10. q % N = q
  <2>1. q \in 0..(N - 1)
    BY Zenon, <1>5, <1>6
  <2> QED BY ZenonT(40), <2>1, SmallRemainder
<1> QED BY Zenon, <1>0, <1>1, <1>2, <1>6, <1>8, <1>9, <1>10

\* The selector of a row: the leading bits of the remainder, in two's complement, and
\* those of the divisor behind the ones that are known.
SelectorOf(size, nbW, L, nbD, msb, y, x) ==
  Cat(Bits(x % Pow2[size], size - 1, size - nbW), nbD, Bits(y, L - msb - 1, L - msb - nbD))
SelectorIs(sel, nbW, nbD, w, t) ==
  /\ sel \in 0..(Pow2[nbW + nbD] - 1)
  /\ w = Signed(nbW, sel \div Pow2[nbD])
  /\ t \in 0..(Pow2[nbD] - 1) /\ t = Bits(sel, nbD - 1, 0)

\* Its two parts are read back from it.
LEMMA SelectorFields ==
  ASSUME NEW size \in Nat, NEW L \in Nat, NEW g \in Nat, NEW nbW \in Nat, nbW = g + 1,
         NEW nbD \in Nat, NEW msb \in Nat,
         NEW k \in Nat, size = k + nbW, NEW j \in Nat, L = j + (msb + nbD), NEW lo \in Nat,
         lo = (Pow2[msb] - 1) * Pow2[nbD], NEW t \in 0..(Pow2[nbD] - 1),
         NEW y \in Nat, y \div Pow2[j] = lo + t,
         NEW x \in Int, NEW w \in Int, w = x \div Pow2[k], -Pow2[g] <= w, w < Pow2[g]
  PROVE  SelectorIs(SelectorOf(size, nbW, L, nbD, msb, y, x), nbW, nbD, w, t)
<1>1. PICK N \in Nat \ {0}, W \in Nat \ {0}, G \in Nat \ {0} :
        N = Pow2[nbD] /\ W = Pow2[nbW] /\ G = Pow2[g] /\ W = 2 * G
  <2>1. Pow2[g + 1] = 2 * Pow2[g]
    BY Pow2Def
  <2>2. Pow2[nbW] = 2 * Pow2[g]
    BY Zenon, <2>1
  <2> QED BY <2>2, Pow2Def
<1>2. Bits(x % Pow2[size], size - 1, size - nbW) = w % W
  <2>1. size - nbW = k
    OBVIOUS
  <2>2. Bits(x % Pow2[k + nbW], (k + nbW) - 1, k) = (x \div Pow2[k]) % Pow2[nbW]
    BY ZenonT(40), LeadingBits
  <2> QED BY Zenon, <1>1, <2>1, <2>2
<1>3. Bits(y, L - msb - 1, L - msb - nbD) = t
  <2>1. L - msb - 1 = (j + nbD) - 1 /\ L - msb - nbD = j
    OBVIOUS
  <2>2. y \in Int
    OBVIOUS
  <2>3. Bits(y, (j + nbD) - 1, j) = (y \div Pow2[j]) % Pow2[nbD]
    BY ZenonT(40), <2>2, BitsDef
  <2>4. PICK a \in Int : a = Pow2[msb] - 1
    <3>1. Pow2[msb] - 1 \in Int
      BY Pow2Def
    <3> QED BY <3>1
  <2>5. lo + t = N * a + t
    <3>1. lo = a * N
      BY Zenon, <1>1, <2>4
    <3>2. a * N = N * a
      OBVIOUS
    <3> QED BY Zenon, <3>1, <3>2
  <2>6. (N * a + t) % N = t
    <3>1. t \in 0..(N - 1)
      BY Zenon, <1>1
    <3> QED BY ZenonT(40), <3>1, DivisionUnique
  <2> QED BY Zenon, <1>1, <2>1, <2>3, <2>5, <2>6
<1>4. PICK u \in 0..(W - 1), c \in Int : u = w % W /\ w = W * c + u
  <2>1. w \div W \in Int /\ w % W \in 0..(W - 1) /\ w = W * (w \div W) + (w % W)
    BY ZenonT(40), Division
  <2> QED BY Zenon, <2>1
<1>5. PICK sel \in Int : sel = SelectorOf(size, nbW, L, nbD, msb, y, x) /\ sel = N * u + t
  <2>1. SelectorOf(size, nbW, L, nbD, msb, y, x) = u * N + t
    BY Zenon, <1>1, <1>2, <1>3, <1>4 DEF SelectorOf, Cat
  <2>2. u * N + t = N * u + t /\ N * u + t \in Int
    <3>1. u \in Int /\ t \in Int
      OBVIOUS
    <3> QED BY <3>1
  <2> QED BY Zenon, <2>1, <2>2
<1>6. sel \div N = u /\ sel % N = t
  <2>1. u \in Int /\ t \in 0..(N - 1)
    BY <1>1
  <2>2. (N * u + t) \div N = u /\ (N * u + t) % N = t
    BY ZenonT(40), <2>1, DivisionUnique
  <2> QED BY Zenon, <1>5, <2>2
<1>7. sel \in 0..(Pow2[nbW + nbD] - 1)
  <2>1. Pow2[nbW + nbD] = W * N
    <3>1. Pow2[nbW + nbD] = Pow2[nbW] * Pow2[nbD]
      BY Pow2Sum
    <3> QED BY Zenon, <1>1, <3>1
  <2>2. t \in 0..(N - 1)
    BY <1>1
  <2>3. u * N + t \in 0..(W * N - 1)
    BY ZenonT(40), <2>2, TwoDigits
  <2>4. sel = u * N + t
    <3>1. u \in Int
      OBVIOUS
    <3> QED BY <1>5, <3>1
  <2> QED BY Zenon, <2>1, <2>3, <2>4
<1>8. w = Signed(nbW, sel \div Pow2[nbD])
  <2>1. PICK e \in Int : -G <= w /\ w < G /\ u \in 0..(2 * G - 1) /\ u = w + (2 * G) * e
    <3>1. w = (2 * G) * c + u
      BY Zenon, <1>1, <1>4
    <3>2. PICK p \in Int : p = (2 * G) * c /\ (2 * G) * (-c) = -p
      OBVIOUS
    <3>3. -c \in Int /\ -G <= w /\ w < G /\ u \in 0..(2 * G - 1) /\ u = w + (-p)
      BY <1>1, <3>1, <3>2
    <3> QED BY Zenon, <3>2, <3>3
  <2>2. Signed(g + 1, u) = w
    <3>1. G \in Nat \ {0} /\ G = Pow2[g]
      BY Zenon, <1>1
    <3> QED BY <2>1, <3>1, SignedOf
  <2> QED BY Zenon, <1>1, <1>6, <2>2
<1>9. t = Bits(sel, nbD - 1, 0)
  <2>1. 0 \in Nat /\ (0 + nbD) - 1 = nbD - 1 /\ sel \div 1 = sel
    BY <1>5
  <2>2. Bits(sel, (0 + nbD) - 1, 0) = (sel \div Pow2[0]) % Pow2[nbD]
    BY ZenonT(40), <2>1, BitsDef
  <2> QED BY Zenon, <1>1, <1>6, <2>1, <2>2, Pow2Def
<1> QED BY Zenon, <1>5, <1>7, <1>8, <1>9 DEF SelectorIs

\* A row: the digit that is selected keeps the next remainder within the bounds.
RowIs(srt, r, al, y, x, q) == q \in Int /\ Within(r - 1, al, y, r * x - 4 * (q * y))

\* A row chooses such a digit, since the remainder is between the multiples that its
\* leading bits stand for.
LEMMA RowWithin ==
  ASSUME NEW srt, NEW r \in Nat, NEW al \in Nat, NEW n \in Nat, NEW nbW \in Nat, NEW nbD \in Nat,
         NEW msb \in Nat, NEW lo \in Nat, DivParameters(srt, r, al, n, nbW, nbD, msb, lo),
         NEW j \in Nat, NEW L \in Nat, L = j + (msb + nbD), NEW size \in Nat, size = L + 3,
         NEW y \in Nat, lo * Pow2[j] <= y, y < (lo + Pow2[nbD]) * Pow2[j],
         NEW x \in Int, Within(r - 1, al, y, x)
  PROVE  RowIs(srt, r, al, y, x, SelFunction[srt][SelectorOf(size, nbW, L, nbD, msb, y, x)])
<1>1. PICK m \in Nat : r = m + 1 /\ r - 1 = m
  <2>1. r - 1 \in Nat /\ r = (r - 1) + 1
    BY DEF DivParameters
  <2> QED BY Zenon, <2>1
<1>2. PICK M \in Nat \ {0}, K \in Nat \ {0}, k \in Nat, g \in Nat, G \in Nat \ {0}, N \in Nat \ {0} :
        /\ M = Pow2[j] /\ K = Pow2[k] /\ size = k + nbW /\ nbW = g + 1 /\ G = Pow2[g] /\ N = Pow2[nbD]
        /\ r * (m * K) = 4 * (n * M)
        /\ -(G * K) <= x /\ x < G * K
        /\ lo = (Pow2[msb] - 1) * Pow2[nbD]
  <2>1. PICK M \in Nat \ {0} : M = Pow2[j]
    BY Pow2Def
  <2>2. Pow2[j + 1] = 2 * M /\ Pow2[j + 2] = 4 * M
    <3>1. Pow2[j + 1] = 2 * Pow2[j] /\ j + 1 \in Nat /\ (j + 1) + 1 = j + 2
      BY Pow2Def
    <3>2. Pow2[(j + 1) + 1] = 2 * Pow2[j + 1]
      BY ZenonT(40), <3>1, Pow2Def
    <3>3. Pow2[j + 2] = 2 * (2 * M)
      BY Zenon, <2>1, <3>1, <3>2
    <3> QED BY <2>1, <3>1, <3>3
  <2>3. CASE srt = 42 /\ r = 4 /\ al = 2 /\ n = 6 /\ nbW = 6 /\ nbD = 3 /\ msb = 1 /\ lo = 8
    <3>1. size = (j + 1) + nbW /\ nbW = 5 + 1 /\ j + 1 \in Nat
      BY <2>3
    <3>2. Pow2[5] = 32 /\ Pow2[nbD] = 8 /\ lo = (Pow2[msb] - 1) * Pow2[nbD]
      BY <2>3, SmallPowers
    <3>3. -(4 * (2 * y)) <= 3 * x /\ 3 * x <= 4 * (2 * y) /\ y < (8 + 8) * M
      <4>1. r - 1 = 3
        BY <2>3
      <4>2. Within(3, 2, y, x)
        BY Zenon, <2>3, <4>1
      <4>3. y < (lo + Pow2[nbD]) * M
        BY Zenon, <2>1
      <4>4. y < (8 + 8) * M
        BY Zenon, <2>3, <3>2, <4>3
      <4> QED BY Zenon, <4>2, <4>4 DEF Within
    <3>4. -(32 * (2 * M)) <= x /\ x < 32 * (2 * M)
      BY <3>3
    <3>5. r * (m * (2 * M)) = 4 * (n * M)
      <4>1. m = 3
        BY <1>1, <2>3
      <4> QED BY <2>3, <4>1
    <3>6. 2 * M \in Nat \ {0} /\ 32 \in Nat \ {0} /\ 8 \in Nat \ {0} /\ 5 \in Nat
      OBVIOUS
    <3> QED BY <2>1, <2>2, <3>1, <3>2, <3>4, <3>5, <3>6
  <2>4. CASE srt = 43 /\ r = 4 /\ al = 3 /\ n = 6 /\ nbW = 4 /\ nbD = 1 /\ msb = 1 /\ lo = 2
    <3>1. size = (j + 1) + nbW /\ nbW = 3 + 1 /\ j + 1 \in Nat
      BY <2>4
    <3>2. Pow2[3] = 8 /\ Pow2[nbD] = 2 /\ lo = (Pow2[msb] - 1) * Pow2[nbD]
      BY <2>4, SmallPowers
    <3>3. -(4 * (3 * y)) <= 3 * x /\ 3 * x <= 4 * (3 * y) /\ y < (2 + 2) * M
      <4>1. r - 1 = 3
        BY <2>4
      <4>2. Within(3, 3, y, x)
        BY Zenon, <2>4, <4>1
      <4>3. y < (lo + Pow2[nbD]) * M
        BY Zenon, <2>1
      <4>4. y < (2 + 2) * M
        BY Zenon, <2>4, <3>2, <4>3
      <4> QED BY Zenon, <4>2, <4>4 DEF Within
    <3>4. -(8 * (2 * M)) <= x /\ x < 8 * (2 * M)
      BY <3>3
    <3>5. r * (m * (2 * M)) = 4 * (n * M)
      <4>1. m = 3
        BY <1>1, <2>4
      <4> QED BY <2>4, <4>1
    <3>6. 2 * M \in Nat \ {0} /\ 8 \in Nat \ {0} /\ 2 \in Nat \ {0} /\ 3 \in Nat
      OBVIOUS
    <3> QED BY <2>1, <2>2, <3>1, <3>2, <3>4, <3>5, <3>6
  <2>5. CASE srt = 87 /\ r = 8 /\ al = 7 /\ n = 56 /\ nbW = 5 /\ nbD = 2 /\ msb = 2 /\ lo = 12
    <3>1. size = (j + 2) + nbW /\ nbW = 4 + 1 /\ j + 2 \in Nat
      BY <2>5
    <3>2. Pow2[4] = 16 /\ Pow2[nbD] = 4 /\ lo = (Pow2[msb] - 1) * Pow2[nbD]
      BY <2>5, SmallPowers
    <3>3. -(4 * (7 * y)) <= 7 * x /\ 7 * x <= 4 * (7 * y) /\ y < (12 + 4) * M
      <4>1. r - 1 = 7
        BY <2>5
      <4>2. Within(7, 7, y, x)
        BY Zenon, <2>5, <4>1
      <4>3. y < (lo + Pow2[nbD]) * M
        BY Zenon, <2>1
      <4>4. y < (12 + 4) * M
        BY Zenon, <2>5, <3>2, <4>3
      <4> QED BY Zenon, <4>2, <4>4 DEF Within
    <3>4. -(16 * (4 * M)) <= x /\ x < 16 * (4 * M)
      BY <3>3
    <3>5. r * (m * (4 * M)) = 4 * (n * M)
      <4>1. m = 7
        BY <1>1, <2>5
      <4> QED BY <2>5, <4>1
    <3>6. 4 * M \in Nat \ {0} /\ 16 \in Nat \ {0} /\ 4 \in Nat \ {0} /\ 4 \in Nat
      OBVIOUS
    <3> QED BY <2>1, <2>2, <3>1, <3>2, <3>4, <3>5, <3>6
  <2> QED BY Zenon, <2>3, <2>4, <2>5 DEF DivParameters
<1>3. PICK w \in Int, z \in 0..(K - 1) : w = x \div K /\ x = K * w + z
  <2>1. x \div K \in Int /\ x % K \in 0..(K - 1) /\ x = K * (x \div K) + (x % K)
    BY ZenonT(40), Division
  <2> QED BY Zenon, <2>1
<1>4. -G <= w /\ w < G
  <2>1. K * (-G) <= x => -G <= x \div K
    <3>1. -G \in Int
      OBVIOUS
    <3> QED BY ZenonT(40), <3>1, QuotientMonotone
  <2>2. x < K * G => x \div K < G
    <3>1. G \in Int
      OBVIOUS
    <3> QED BY ZenonT(40), <3>1, QuotientMonotone
  <2>3. K * (-G) = -(G * K) /\ K * G = G * K
    OBVIOUS
  <2> QED BY Zenon, <1>2, <1>3, <2>1, <2>2, <2>3
<1>5. PICK t \in 0..(N - 1) : y \div M = lo + t
  <2>1. y \in Int /\ lo \in Int /\ lo + N \in Int
    OBVIOUS
  <2>2. M * lo <= y => lo <= y \div M
    BY ZenonT(40), <2>1, QuotientMonotone
  <2>3. y < M * (lo + N) => y \div M < lo + N
    BY ZenonT(40), <2>1, QuotientMonotone
  <2>4. M * lo = lo * M /\ M * (lo + N) = (lo + N) * M
    OBVIOUS
  <2>5. lo <= y \div M /\ y \div M < lo + N
    BY Zenon, <1>2, <2>2, <2>3, <2>4
  <2>6. PICK v \in Int : v = y \div M
    BY ZenonT(40), <2>1, Division
  <2>7. v - lo \in 0..(N - 1) /\ v = lo + (v - lo)
    BY <2>5, <2>6
  <2> QED BY Zenon, <2>6, <2>7
<1>6. PICK sel : sel = SelectorOf(size, nbW, L, nbD, msb, y, x)
  OBVIOUS
<1>7. SelectorIs(sel, nbW, nbD, w, t)
  <2>1. SelectorIs(SelectorOf(size, nbW, L, nbD, msb, y, x), nbW, nbD, w, t)
    BY ZenonT(90), <1>2, <1>3, <1>4, <1>5, SelectorFields
  <2> QED BY Zenon, <1>6, <2>1
<1>8. Selects(srt, r, al, n, lo, w, t, sel)
  <2>1. r \in Int /\ al \in Int /\ n \in Int
    OBVIOUS
  <2> QED BY ZenonT(90), <1>7, <2>1, SelectionFits DEF SelectorIs
<1>9. PICK q \in Int : q = SelFunction[srt][sel] /\ DigitFits(m, al, n, w, lo + t, q)
  <2>1. SelFunction[srt][sel] \in -al..al /\ DigitFits(m, al, n, w, lo + t, SelFunction[srt][sel])
    BY Zenon, <1>1, <1>8 DEF Selects
  <2>2. SelFunction[srt][sel] \in Int
    BY <2>1
  <2> QED BY Zenon, <2>1, <2>2
<1>10. PICK hi \in Nat : hi = lo + t /\ hi * M <= y /\ y <= (hi + 1) * M
  <2>1. lo + t \in Nat /\ y \in Int
    OBVIOUS
  <2>2. PICK hi \in Nat : hi = lo + t
    BY Zenon, <2>1
  <2>3. y \div M = hi /\ y % M \in 0..(M - 1) /\ y = M * (y \div M) + (y % M)
    BY ZenonT(40), <1>5, <2>1, <2>2, Division
  <2>4. PICK s \in 0..(M - 1) : y = M * hi + s
    BY Zenon, <2>3
  <2>5. M * hi = hi * M /\ (hi + 1) * M = hi * M + M
    OBVIOUS
  <2>6. PICK p \in Int : p = hi * M
    OBVIOUS
  <2>7. y = p + s /\ p <= p + s /\ p + s <= p + M
    BY <2>4, <2>5, <2>6
  <2> QED BY Zenon, <2>2, <2>5, <2>6, <2>7
<1>11. K * w <= x /\ x <= K * (w + 1)
  <2>1. K * (w + 1) = K * w + K
    OBVIOUS
  <2>2. PICK p \in Int : p = K * w
    OBVIOUS
  <2>3. p <= p + z /\ p + z <= p + K
    OBVIOUS
  <2> QED BY Zenon, <1>3, <2>1, <2>2, <2>3
<1>12. Within(m, al, y, r * x - 4 * (q * y))
  <2>1. M \in Nat /\ K \in Nat /\ y \in Int /\ Within(m, al, y, x) /\ DigitFits(m, al, n, w, hi, q)
    BY <1>1, <1>9, <1>10
  <2>2. r = m + 1 /\ r * (m * K) = 4 * (n * M)
    BY Zenon, <1>1, <1>2
  <2> QED BY ZenonT(90), <1>10, <1>11, <2>1, <2>2, NextWithin
<1> QED BY Zenon, <1>1, <1>6, <1>9, <1>12 DEF RowIs

\* The widths and operands of a division, from its parameters.
DigitBitsOf(srt) == IntLog2(SRT[srt].radix - 1)
nDigitOf(srt, f) == (f.wF + SRT[srt].extraBit) \div DigitBitsOf(srt)
DSizeOf(srt, f) == f.wF + 1 + (IF SRT[srt].radix = 8 THEN 2 ELSE 0)
PrescalingOf(srt, f, y) ==
  IF SRT[srt].radix = 4 THEN 1
  ELSE IF Bits(y, f.wF - 1, f.wF - 2) = 0 THEN 6
  ELSE IF Bits(y, f.wF - 1, f.wF - 2) = 1 THEN 5
  ELSE 4
DivisorOf(srt, f, y) == PrescalingOf(srt, f, y) * Significand(f, y)
DividendOf(srt, f, x, y) == PrescalingOf(srt, f, y) * Significand(f, x) * (IF SRT[srt].alpha = 3 THEN 2 ELSE 1)

\* The formats of a divider.
DivFormat(f) == f.wE \in Nat \ {0, 1} /\ f.wF \in Nat \ {0}

\* The leading bits of the significand of a divisor make it a multiple of 4 to 7 quarters.
TopPart(f, y, v, b, low) ==
  /\ Pow2[f.wF] = 4 * v /\ Pow2[f.wF - 1] = 2 * v
  /\ Bits(y, f.wF - 1, f.wF - 2) = b /\ Significand(f, y) = (4 + b) * v + low

\* Every divisor of three bits or more has them.
LEMMA LeadingQuarters ==
  ASSUME NEW f, DivFormat(f), f.wF >= 2, NEW y \in Numbers(f)
  PROVE  \E v \in Nat \ {0}, b \in 0..3, low \in Nat : low < v /\ TopPart(f, y, v, b, low)
<1>1. NumberFormat(f)
  BY DEF DivFormat, NumberFormat
<1>2. PICK w \in Nat \ {0}, g \in Nat \ {0}, e \in Nat, frac \in Nat : FieldsOf(f, y, w, g, e, frac)
  BY ZenonT(40), <1>1, NumberFields
<1>3. PICK k \in Nat : f.wF = k + 2 /\ f.wF - 2 = k /\ f.wF - 1 = k + 1 /\ (k + 2) - 1 = k + 1
  <2>1. f.wF - 2 \in Nat /\ f.wF = (f.wF - 2) + 2 /\ f.wF - 1 = (f.wF - 2) + 1 /\ ((f.wF - 2) + 2) - 1 = (f.wF - 2) + 1
    BY DEF DivFormat
  <2> QED BY Zenon, <2>1
<1>4. PICK v \in Nat \ {0} : v = Pow2[k]
  BY Pow2Def
<1>5. Pow2[k + 1] = 2 * v /\ Pow2[k + 2] = 4 * v /\ Pow2[2] = 4
  <2>1. Pow2[k + 1] = 2 * Pow2[k] /\ k + 1 \in Nat /\ (k + 1) + 1 = k + 2
    BY Pow2Def
  <2>2. Pow2[(k + 1) + 1] = 2 * Pow2[k + 1]
    BY ZenonT(40), <2>1, Pow2Def
  <2>3. Pow2[k + 2] = 2 * (2 * v)
    BY Zenon, <1>4, <2>1, <2>2
  <2> QED BY <1>4, <2>1, <2>3, SmallPowers
<1>6. y \in Int
  BY <1>2 DEF Numbers
<1>7. Fraction(f, y) = y % (v * 4)
  <2>1. 0 \in Nat /\ f.wF \in Nat /\ (0 + f.wF) - 1 = f.wF - 1 /\ y \div 1 = y
    BY <1>6 DEF DivFormat
  <2>2. Bits(y, (0 + f.wF) - 1, 0) = (y \div Pow2[0]) % Pow2[f.wF]
    BY ZenonT(40), <1>6, <2>1, BitsDef
  <2>3. Bits(y, f.wF - 1, 0) = y % (4 * v)
    BY Zenon, <1>3, <1>5, <2>1, <2>2, Pow2Def
  <2>4. 4 * v = v * 4
    OBVIOUS
  <2> QED BY Zenon, <2>3, <2>4 DEF Fraction
<1>8. Bits(y, f.wF - 1, f.wF - 2) = (y \div v) % 4
  <2>1. 2 \in Nat
    OBVIOUS
  <2>2. Bits(y, (k + 2) - 1, k) = (y \div Pow2[k]) % Pow2[2]
    BY ZenonT(40), <1>6, <2>1, BitsDef
  <2> QED BY Zenon, <1>3, <1>4, <1>5, <2>2
<1>9. y % (v * 4) = ((y \div v) % 4) * v + (y % v)
  <2>1. 4 \in Nat \ {0}
    OBVIOUS
  <2> QED BY ZenonT(40), <1>6, <2>1, QuotientOfQuotient
<1>10. PICK b \in 0..3 : b = (y \div v) % 4
  <2>1. y \div v \in Int
    BY ZenonT(40), <1>6, Division
  <2>2. 4 \in Nat \ {0} /\ 4 - 1 = 3
    OBVIOUS
  <2>3. (y \div v) % 4 \in 0..(4 - 1)
    BY ZenonT(40), <2>1, <2>2, Division
  <2> QED BY Zenon, <2>2, <2>3
<1>11. PICK low \in Nat : low = y % v /\ low < v
  <2>1. y % v \in 0..(v - 1)
    BY ZenonT(40), <1>6, Division
  <2>2. y % v \in Nat /\ y % v < v
    BY <2>1
  <2> QED BY Zenon, <2>2
<1>12. Significand(f, y) = (4 + b) * v + low
  <2>1. Significand(f, y) = 4 * v + (b * v + low)
    BY Zenon, <1>3, <1>5, <1>7, <1>9, <1>10, <1>11 DEF Significand
  <2>2. 4 * v + (b * v + low) = (4 + b) * v + low
    OBVIOUS
  <2> QED BY Zenon, <2>1, <2>2
<1>13. TopPart(f, y, v, b, low)
  BY Zenon, <1>3, <1>5, <1>8, <1>10, <1>12 DEF TopPart
<1> QED BY Zenon, <1>11, <1>13

\* What the recurrence rests on: p is the prescaling, a and b the significands, h half of
\* the range of the subtracter.
DivSetting(srt, f, x, y, r, al, n, nbW, nbD, msb, lo, j, p, w, h) ==
  /\ DivParameters(srt, r, al, n, nbW, nbD, msb, lo)
  /\ DSizeOf(srt, f) = j + (msb + nbD) /\ Pow2[DSizeOf(srt, f) + 2] = h /\ w = Pow2[f.wF]
  /\ PrescalingOf(srt, f, y) = p /\ p * Significand(f, y) < 8 * w
  /\ lo * Pow2[j] <= p * Significand(f, y) /\ p * Significand(f, y) < (lo + Pow2[nbD]) * Pow2[j]
  /\ 4 * (al * (p * Significand(f, y))) < (r - 1) * h

\* All of it holds for every divider, whatever its operands.
LEMMA SettingExists ==
  ASSUME NEW srt \in DivRadix, NEW f \in DivFormats, NEW x \in Numbers(f), NEW y \in Numbers(f)
  PROVE  \E r \in Nat, al \in Nat, n \in Nat, nbW \in Nat, nbD \in Nat, msb \in Nat, lo \in Nat, j \in Nat,
            p \in Nat \ {0}, w \in Nat \ {0}, h \in Nat \ {0} :
              DivSetting(srt, f, x, y, r, al, n, nbW, nbD, msb, lo, j, p, w, h)
<1>1. DivFormat(f) /\ NumberFormat(f) /\ srt \in {42, 43, 87} /\ f.wF >= SRT[srt].nbBitsD
  BY FPDivAssumption, SRTIs DEF FPDivAssumption, DivFormat, NumberFormat
<1>2. PICK w \in Nat \ {0}, g \in Nat \ {0}, e \in Nat, frac \in Nat : FieldsOf(f, y, w, g, e, frac)
  BY ZenonT(40), <1>1, NumberFields
<1>3. PICK b \in Nat : b = Significand(f, y) /\ w <= b /\ b < 2 * w /\ w = Pow2[f.wF]
  <2>1. w + frac \in Nat /\ w <= w + frac /\ w + frac < 2 * w
    BY <1>2 DEF FieldsOf
  <2>2. Significand(f, y) = w + frac /\ w = Pow2[f.wF]
    BY Zenon, <1>2 DEF FieldsOf
  <2> QED BY Zenon, <2>1, <2>2
<1>4. PICK F \in Nat \ {0} : F = f.wF
  BY <1>1 DEF DivFormat
<1>5. ASSUME NEW k \in Nat
      PROVE  /\ Pow2[k + 1] = 2 * Pow2[k] /\ Pow2[k + 2] = 4 * Pow2[k] /\ Pow2[k + 3] = 8 * Pow2[k]
             /\ Pow2[k + 5] = 32 * Pow2[k]
  <2>1. Pow2[k] \in Nat \ {0}
    BY Pow2Def
  <2>2. 2 \in Nat /\ 3 \in Nat /\ 5 \in Nat /\ 1 \in Nat
    OBVIOUS
  <2>3. Pow2[k + 1] = Pow2[k] * Pow2[1] /\ Pow2[k + 2] = Pow2[k] * Pow2[2]
        /\ Pow2[k + 3] = Pow2[k] * Pow2[3] /\ Pow2[k + 5] = Pow2[k] * Pow2[5]
    BY <2>2, Pow2Sum
  <2> QED BY <2>1, <2>3, SmallPowers
<1>6. CASE srt = 42
  <2>1. SRT[42].radix = 4 /\ SRT[42].alpha = 2 /\ SRT[42].nbBitsD = 3
    BY SRTIs
  <2>2. DivParameters(srt, 4, 2, 6, 6, 3, 1, 8)
    BY <1>6 DEF DivParameters
  <2>3. PICK j \in Nat : F = j + 3 /\ DSizeOf(srt, f) = j + (1 + 3) /\ DSizeOf(srt, f) + 2 = F + 3
    <3>1. F >= 3
      BY Zenon, <1>1, <1>4, <1>6, <2>1
    <3>2. DSizeOf(srt, f) = F + 1 + 0
      BY <1>4, <1>6, <2>1 DEF DSizeOf
    <3>3. F - 3 \in Nat /\ F = (F - 3) + 3 /\ F + 1 + 0 = (F - 3) + (1 + 3) /\ F + 1 + 0 + 2 = F + 3
      BY <3>1
    <3> QED BY Zenon, <3>2, <3>3
  <2>4. PICK M \in Nat \ {0} : M = Pow2[j] /\ w = 8 * M /\ Pow2[F + 3] = 8 * w
    <3>1. Pow2[j] \in Nat \ {0} /\ Pow2[j + 3] = 8 * Pow2[j] /\ Pow2[F + 3] = 8 * Pow2[F]
      BY <1>5, Pow2Def
    <3> QED BY Zenon, <1>3, <1>4, <2>3, <3>1
  <2>5. PrescalingOf(srt, f, y) = 1 /\ 1 * b = b
    BY <1>6, <2>1 DEF PrescalingOf
  <2>6. 8 * M <= b /\ b < (8 + 8) * M /\ 4 * (2 * b) < (4 - 1) * (8 * w) /\ b < 8 * w
    BY <1>3, <2>4
  <2>7. Pow2[3] = 8 /\ 8 * w \in Nat \ {0} /\ 1 \in Nat \ {0}
    BY SmallPowers
  <2>8. DivSetting(srt, f, x, y, 4, 2, 6, 6, 3, 1, 8, j, 1, w, 8 * w)
    BY Zenon, <1>3, <1>4, <2>2, <2>3, <2>4, <2>5, <2>6, <2>7 DEF DivSetting
  <2>9. 4 \in Nat /\ 2 \in Nat /\ 6 \in Nat /\ 3 \in Nat /\ 1 \in Nat /\ 8 \in Nat
    OBVIOUS
  <2> QED BY Zenon, <2>7, <2>8, <2>9
<1>7. CASE srt = 43
  <2>1. SRT[43].radix = 4 /\ SRT[43].alpha = 3 /\ SRT[43].nbBitsD = 1
    BY SRTIs
  <2>2. DivParameters(srt, 4, 3, 6, 4, 1, 1, 2)
    BY <1>7 DEF DivParameters
  <2>3. PICK j \in Nat : F = j + 1 /\ DSizeOf(srt, f) = j + (1 + 1) /\ DSizeOf(srt, f) + 2 = F + 3
    <3>2. DSizeOf(srt, f) = F + 1 + 0
      BY <1>4, <1>7, <2>1 DEF DSizeOf
    <3>3. F - 1 \in Nat /\ F = (F - 1) + 1 /\ F + 1 + 0 = (F - 1) + (1 + 1) /\ F + 1 + 0 + 2 = F + 3
      OBVIOUS
    <3> QED BY Zenon, <3>2, <3>3
  <2>4. PICK M \in Nat \ {0} : M = Pow2[j] /\ w = 2 * M /\ Pow2[F + 3] = 8 * w
    <3>1. Pow2[j] \in Nat \ {0} /\ Pow2[j + 1] = 2 * Pow2[j] /\ Pow2[F + 3] = 8 * Pow2[F]
      BY <1>5, Pow2Def
    <3> QED BY Zenon, <1>3, <1>4, <2>3, <3>1
  <2>5. PrescalingOf(srt, f, y) = 1 /\ 1 * b = b
    BY <1>7, <2>1 DEF PrescalingOf
  <2>6. 2 * M <= b /\ b < (2 + 2) * M /\ 4 * (3 * b) < (4 - 1) * (8 * w) /\ b < 8 * w
    BY <1>3, <2>4
  <2>7. Pow2[1] = 2 /\ 8 * w \in Nat \ {0} /\ 1 \in Nat \ {0}
    BY SmallPowers
  <2>8. DivSetting(srt, f, x, y, 4, 3, 6, 4, 1, 1, 2, j, 1, w, 8 * w)
    BY Zenon, <1>3, <1>4, <2>2, <2>3, <2>4, <2>5, <2>6, <2>7 DEF DivSetting
  <2>9. 4 \in Nat /\ 3 \in Nat /\ 6 \in Nat /\ 1 \in Nat /\ 2 \in Nat
    OBVIOUS
  <2> QED BY Zenon, <2>7, <2>8, <2>9
<1>8. CASE srt = 87
  <2>1. SRT[87].radix = 8 /\ SRT[87].alpha = 7 /\ SRT[87].nbBitsD = 2
    BY SRTIs
  <2>2. DivParameters(srt, 8, 7, 56, 5, 2, 2, 12)
    BY <1>8 DEF DivParameters
  <2>3. PICK j \in Nat : /\ F = j + 1 /\ DSizeOf(srt, f) = j + (2 + 2) /\ DSizeOf(srt, f) + 2 = F + 5
                         /\ F >= 2 /\ f.wF - 1 = j
    <3>1. F >= 2
      BY Zenon, <1>1, <1>4, <1>8, <2>1
    <3>2. DSizeOf(srt, f) = F + 1 + 2
      BY <1>4, <1>8, <2>1 DEF DSizeOf
    <3>3. F - 1 \in Nat /\ F = (F - 1) + 1 /\ F + 1 + 2 = (F - 1) + (2 + 2) /\ F + 1 + 2 + 2 = F + 5
      OBVIOUS
    <3> QED BY Zenon, <1>4, <3>1, <3>2, <3>3
  <2>4. PICK v \in Nat \ {0}, t \in 0..3, low \in Nat : low < v /\ TopPart(f, y, v, t, low)
    <3>1. f.wF >= 2
      BY Zenon, <1>4, <2>3
    <3> QED BY ZenonT(40), <1>1, <3>1, LeadingQuarters
  <2>5. Pow2[j] = 2 * v /\ w = 4 * v /\ b = (4 + t) * v + low /\ Bits(y, f.wF - 1, f.wF - 2) = t
    BY Zenon, <1>3, <2>3, <2>4 DEF TopPart
  <2>6. PICK p \in Nat \ {0} : p = PrescalingOf(srt, f, y) /\ 24 * v <= p * b /\ p * b < 32 * v
    <3>1. SRT[srt].radix # 4
      BY <1>8, <2>1
    <3>2. CASE t = 0
      <4>1. PrescalingOf(srt, f, y) = 6
        BY Zenon, <2>5, <3>1, <3>2 DEF PrescalingOf
      <4>2. b = 4 * v + low
        BY <2>5, <3>2
      <4>3. 24 * v <= 6 * b /\ 6 * b < 32 * v /\ 6 \in Nat \ {0}
        BY <2>4, <4>2
      <4> QED BY Zenon, <4>1, <4>3
    <3>3. CASE t = 1
      <4>1. PrescalingOf(srt, f, y) = 5
        <5>1. 1 # 0
          OBVIOUS
        <5> QED BY Zenon, <2>5, <3>1, <3>3, <5>1 DEF PrescalingOf
      <4>2. b = 5 * v + low
        BY <2>5, <3>3
      <4>3. 24 * v <= 5 * b /\ 5 * b < 32 * v /\ 5 \in Nat \ {0}
        BY <2>4, <4>2
      <4> QED BY Zenon, <4>1, <4>3
    <3>4. CASE t = 2 \/ t = 3
      <4>1. PrescalingOf(srt, f, y) = 4
        <5>1. t # 0 /\ t # 1
          BY <3>4
        <5> QED BY Zenon, <2>5, <3>1, <5>1 DEF PrescalingOf
      <4>2. b = 6 * v + low \/ b = 7 * v + low
        BY <2>5, <3>4
      <4>3. 24 * v <= 4 * b /\ 4 * b < 32 * v /\ 4 \in Nat \ {0}
        BY <2>4, <4>2
      <4> QED BY Zenon, <4>1, <4>3
    <3> QED BY <3>2, <3>3, <3>4
  <2>7. PICK q \in Nat : q = p * b
    OBVIOUS
  <2>8. 12 * (2 * v) <= q /\ q < (12 + 4) * (2 * v) /\ 4 * (7 * q) < (8 - 1) * (32 * w) /\ q < 8 * w
    <3>1. 24 * v <= q /\ q < 32 * v
      BY Zenon, <2>6, <2>7
    <3> QED BY <2>5, <3>1
  <2>9. Pow2[2] = 4 /\ 32 * w \in Nat \ {0}
    BY SmallPowers
  <2>10. Pow2[F + 5] = 32 * w
    <3>1. Pow2[F + 5] = 32 * Pow2[F]
      BY <1>5
    <3> QED BY Zenon, <1>3, <1>4, <3>1
  <2>11. DivSetting(srt, f, x, y, 8, 7, 56, 5, 2, 2, 12, j, p, w, 32 * w)
    BY Zenon, <1>3, <2>2, <2>3, <2>5, <2>6, <2>7, <2>8, <2>9, <2>10 DEF DivSetting
  <2>12. 8 \in Nat /\ 7 \in Nat /\ 56 \in Nat /\ 5 \in Nat /\ 2 \in Nat /\ 12 \in Nat
    OBVIOUS
  <2> QED BY Zenon, <2>9, <2>11, <2>12
<1> QED BY <1>1, <1>6, <1>7, <1>8

\* The bits of a digit are those of the radix.
LEMMA DigitBitsAre ==
  ASSUME NEW srt, NEW r, NEW al, NEW n, NEW nbW, NEW nbD, NEW msb, NEW lo,
         DivParameters(srt, r, al, n, nbW, nbD, msb, lo)
  PROVE  /\ DigitBitsOf(srt) \in Nat \ {0} /\ Pow2[DigitBitsOf(srt)] = r
         /\ r = 4 => DigitBitsOf(srt) = 2
         /\ r = 8 => DigitBitsOf(srt) = 3
         /\ SRT[srt].radix = r /\ SRT[srt].alpha = al
<1>1. SRT[srt].radix = r /\ SRT[srt].alpha = al
  <2>1. DivRecord(SRT[srt], r, al, nbW, nbD, msb)
    BY ZenonT(40), DivParametersAre
  <2> QED BY Zenon, <2>1 DEF DivRecord
<1>2. CASE r = 4
  <2>1. 4 - 1 = 3 /\ 3 \in Nat /\ 1 \in Nat /\ 1 + 1 = 2 /\ Pow2[1] <= 3 /\ 3 < Pow2[2]
    BY SmallPowers
  <2>2. PICK v \in Nat, m \in Nat : v = 3 /\ m = 1 /\ Pow2[m] <= v /\ v < Pow2[m + 1] /\ m + 1 = 2
    BY Zenon, <2>1
  <2>3. IntLog2(v) = m + 1
    BY ZenonT(40), <2>2, IntLog2Between
  <2>4. DigitBitsOf(srt) = 2
    BY Zenon, <1>1, <1>2, <2>1, <2>2, <2>3 DEF DigitBitsOf
  <2> QED BY <1>1, <1>2, <2>4, SmallPowers
<1>3. CASE r = 8
  <2>1. 8 - 1 = 7 /\ 7 \in Nat /\ 2 \in Nat /\ 2 + 1 = 3 /\ Pow2[2] <= 7 /\ 7 < Pow2[3]
    BY SmallPowers
  <2>2. PICK v \in Nat, m \in Nat : v = 7 /\ m = 2 /\ Pow2[m] <= v /\ v < Pow2[m + 1] /\ m + 1 = 3
    BY Zenon, <2>1
  <2>3. IntLog2(v) = m + 1
    BY ZenonT(40), <2>2, IntLog2Between
  <2>4. DigitBitsOf(srt) = 3
    BY Zenon, <1>1, <1>3, <2>1, <2>2, <2>3 DEF DigitBitsOf
  <2> QED BY <1>1, <1>3, <2>4, SmallPowers
<1>4. r = 4 \/ r = 8
  BY DEF DivParameters
<1> QED BY <1>2, <1>3, <1>4

\* What is known of the remainder after i rows.
DivRemainder(srt, f, x, y, i, quo) ==
  Pow2[DigitBitsOf(srt) * i] * DividendOf(srt, f, x, y) - 4 * (quo * DivisorOf(srt, f, y))
DivRemains(srt, f, x, y, i, rem, quo) ==
  /\ Within(SRT[srt].radix - 1, SRT[srt].alpha, DivisorOf(srt, f, y), DivRemainder(srt, f, x, y, i, quo))
  /\ rem = DivRemainder(srt, f, x, y, i, quo) % Pow2[DSizeOf(srt, f) + 3]

\* The operands of the recurrence are integers, and so is what remains.
OperandsAre(srt, f, x, y, v, t) == DivisorOf(srt, f, y) = v /\ DividendOf(srt, f, x, y) = t

\* The operands are natural numbers.
LEMMA OperandTypes ==
  ASSUME NEW srt \in DivRadix, NEW f \in DivFormats, NEW x \in Numbers(f), NEW y \in Numbers(f)
  PROVE  \E v \in Nat, t \in Nat : OperandsAre(srt, f, x, y, v, t)
<1>1. PICK r \in Nat, al \in Nat, n \in Nat, nbW \in Nat, nbD \in Nat, msb \in Nat, lo \in Nat, j \in Nat,
           p \in Nat \ {0}, w \in Nat \ {0}, h \in Nat \ {0} :
             DivSetting(srt, f, x, y, r, al, n, nbW, nbD, msb, lo, j, p, w, h)
  BY ZenonT(60), SettingExists
<1>2. NumberFormat(f)
  BY FPDivAssumption DEF FPDivAssumption, NumberFormat
<1>3. PICK u \in Nat, c \in Nat : u = Significand(f, x) /\ c = Significand(f, y)
  <2>1. PICK wx \in Nat \ {0}, gx \in Nat \ {0}, ex \in Nat, fx \in Nat : FieldsOf(f, x, wx, gx, ex, fx)
    BY ZenonT(40), <1>2, NumberFields
  <2>2. PICK wy \in Nat \ {0}, gy \in Nat \ {0}, ey \in Nat, fy \in Nat : FieldsOf(f, y, wy, gy, ey, fy)
    BY ZenonT(40), <1>2, NumberFields
  <2>3. wx + fx \in Nat /\ wy + fy \in Nat
    OBVIOUS
  <2>4. Significand(f, x) = wx + fx /\ Significand(f, y) = wy + fy
    BY Zenon, <2>1, <2>2 DEF FieldsOf
  <2> QED BY Zenon, <2>3, <2>4
<1>4. p * c \in Nat /\ (p * u) * 2 \in Nat /\ (p * u) * 1 \in Nat
  OBVIOUS
<1>5. PrescalingOf(srt, f, y) = p
  BY Zenon, <1>1 DEF DivSetting
<1>6. DivisorOf(srt, f, y) = p * c /\ DividendOf(srt, f, x, y) = (p * u) * (IF SRT[srt].alpha = 3 THEN 2 ELSE 1)
  BY Zenon, <1>3, <1>5 DEF DivisorOf, DividendOf
<1>7. DividendOf(srt, f, x, y) \in Nat
  BY Zenon, <1>4, <1>6
<1> QED BY Zenon, <1>4, <1>6, <1>7 DEF OperandsAre

\* The dividend is within the bounds itself.
LEMMA DividendWithin ==
  ASSUME NEW srt \in DivRadix, NEW f \in DivFormats, NEW x \in Numbers(f), NEW y \in Numbers(f)
  PROVE  Within(SRT[srt].radix - 1, SRT[srt].alpha, DivisorOf(srt, f, y), DividendOf(srt, f, x, y))
<1>1. PICK r \in Nat, al \in Nat, n \in Nat, nbW \in Nat, nbD \in Nat, msb \in Nat, lo \in Nat, j \in Nat,
           p \in Nat \ {0}, w \in Nat \ {0}, h \in Nat \ {0} :
             DivSetting(srt, f, x, y, r, al, n, nbW, nbD, msb, lo, j, p, w, h)
  BY ZenonT(60), SettingExists
<1>2. NumberFormat(f)
  BY FPDivAssumption DEF FPDivAssumption, NumberFormat
<1>3. PICK u \in Nat, c \in Nat : u = Significand(f, x) /\ c = Significand(f, y) /\ u < 2 * c
  <2>1. PICK wx \in Nat \ {0}, gx \in Nat \ {0}, ex \in Nat, fx \in Nat : FieldsOf(f, x, wx, gx, ex, fx)
    BY ZenonT(40), <1>2, NumberFields
  <2>2. PICK wy \in Nat \ {0}, gy \in Nat \ {0}, ey \in Nat, fy \in Nat : FieldsOf(f, y, wy, gy, ey, fy)
    BY ZenonT(40), <1>2, NumberFields
  <2>3. wx = wy /\ fx < wx
    <3>1. wx = wy /\ fx \in 0..(wx - 1)
      BY Zenon, <2>1, <2>2 DEF FieldsOf
    <3> QED BY <3>1
  <2>4. wx + fx \in Nat /\ wy + fy \in Nat /\ wx + fx < 2 * (wy + fy)
    BY <2>3
  <2>5. Significand(f, x) = wx + fx /\ Significand(f, y) = wy + fy
    BY Zenon, <2>1, <2>2 DEF FieldsOf
  <2> QED BY Zenon, <2>4, <2>5
<1>4. PrescalingOf(srt, f, y) = p /\ DivParameters(srt, r, al, n, nbW, nbD, msb, lo)
  BY Zenon, <1>1 DEF DivSetting
<1>5. DivisorOf(srt, f, y) = p * c /\ DividendOf(srt, f, x, y) = (p * u) * (IF SRT[srt].alpha = 3 THEN 2 ELSE 1)
  BY Zenon, <1>3, <1>4 DEF DivisorOf, DividendOf
<1>6. SRT[srt].radix = r /\ SRT[srt].alpha = al
  BY ZenonT(40), <1>4, DigitBitsAre
<1>7. PICK s \in Nat, t \in Nat : s = p * u /\ t = p * c /\ s <= 2 * t
  <2>1. p \in Int /\ p >= 0 /\ u \in Int /\ 2 * c \in Int /\ u <= 2 * c
    BY <1>3
  <2>2. p * u <= p * (2 * c)
    BY ZenonT(40), <2>1, ScaledOrder
  <2>3. p * (2 * c) = 2 * (p * c) /\ p * u \in Nat /\ p * c \in Nat
    OBVIOUS
  <2> QED BY Zenon, <2>2, <2>3
<1>8. CASE r = 4 /\ al = 2
  <2>1. -(4 * (2 * t)) <= 3 * (s * 1) /\ 3 * (s * 1) <= 4 * (2 * t) /\ 4 - 1 = 3 /\ 2 # 3
    BY <1>7
  <2> QED BY Zenon, <1>5, <1>6, <1>7, <1>8, <2>1 DEF Within
<1>9. CASE r = 4 /\ al = 3
  <2>1. -(4 * (3 * t)) <= 3 * (s * 2) /\ 3 * (s * 2) <= 4 * (3 * t) /\ 4 - 1 = 3
    BY <1>7
  <2> QED BY Zenon, <1>5, <1>6, <1>7, <1>9, <2>1 DEF Within
<1>10. CASE r = 8 /\ al = 7
  <2>1. -(4 * (7 * t)) <= 7 * (s * 1) /\ 7 * (s * 1) <= 4 * (7 * t) /\ 8 - 1 = 7 /\ 7 # 3
    BY <1>7
  <2> QED BY Zenon, <1>5, <1>6, <1>7, <1>10, <2>1 DEF Within
<1> QED BY <1>4, <1>8, <1>9, <1>10 DEF DivParameters

\* A remainder within the bounds fits the subtracter.
RangeIs(srt, f, c, h) == Pow2[DSizeOf(srt, f) + 2] = h /\ Pow2[DSizeOf(srt, f) + 3] = 2 * h /\ -h <= c /\ c < h

\* The subtracter has a bit for the sign of everything within the bounds.
LEMMA RemainderRange ==
  ASSUME NEW srt \in DivRadix, NEW f \in DivFormats, NEW x \in Numbers(f), NEW y \in Numbers(f),
         NEW c \in Int, Within(SRT[srt].radix - 1, SRT[srt].alpha, DivisorOf(srt, f, y), c)
  PROVE  DSizeOf(srt, f) \in Nat /\ \E h \in Nat \ {0} : RangeIs(srt, f, c, h)
<1>1. PICK r \in Nat, al \in Nat, n \in Nat, nbW \in Nat, nbD \in Nat, msb \in Nat, lo \in Nat, j \in Nat,
           p \in Nat \ {0}, w \in Nat \ {0}, h \in Nat \ {0} :
             DivSetting(srt, f, x, y, r, al, n, nbW, nbD, msb, lo, j, p, w, h)
  BY ZenonT(60), SettingExists
<1>2. PICK v \in Nat, t \in Nat : OperandsAre(srt, f, x, y, v, t)
  BY ZenonT(60), OperandTypes
<1>3. /\ PrescalingOf(srt, f, y) = p /\ DivParameters(srt, r, al, n, nbW, nbD, msb, lo)
      /\ DSizeOf(srt, f) = j + (msb + nbD) /\ Pow2[DSizeOf(srt, f) + 2] = h
      /\ 4 * (al * (p * Significand(f, y))) < (r - 1) * h
  BY Zenon, <1>1 DEF DivSetting
<1>4. p * Significand(f, y) = v
  BY Zenon, <1>2, <1>3 DEF OperandsAre, DivisorOf
<1>5. SRT[srt].radix = r /\ SRT[srt].alpha = al
  BY ZenonT(40), <1>3, DigitBitsAre
<1>6. PICK a \in Int : a = 4 * (al * v) /\ a < (r - 1) * h /\ -a <= (r - 1) * c /\ (r - 1) * c <= a
  <2>1. Within(r - 1, al, v, c)
    BY Zenon, <1>2, <1>5 DEF OperandsAre
  <2>2. 4 * (al * v) \in Int
    OBVIOUS
  <2>3. 4 * (al * v) < (r - 1) * h
    BY Zenon, <1>3, <1>4
  <2> QED BY Zenon, <2>1, <2>2, <2>3 DEF Within
<1>7. -h <= c /\ c < h
  <2>1. CASE r = 4
    <3>1. r - 1 = 3
      BY <2>1
    <3>2. a < 3 * h /\ -a <= 3 * c /\ 3 * c <= a
      BY Zenon, <1>6, <3>1
    <3> QED BY <3>2
  <2>2. CASE r = 8
    <3>1. r - 1 = 7
      BY <2>2
    <3>2. a < 7 * h /\ -a <= 7 * c /\ 7 * c <= a
      BY Zenon, <1>6, <3>1
    <3> QED BY <3>2
  <2>3. r = 4 \/ r = 8
    BY <1>3 DEF DivParameters
  <2> QED BY <2>1, <2>2, <2>3
<1>8. DSizeOf(srt, f) \in Nat
  <2>1. j + (msb + nbD) \in Nat
    OBVIOUS
  <2> QED BY Zenon, <1>3, <2>1
<1>9. Pow2[DSizeOf(srt, f) + 3] = 2 * h
  <2>1. DSizeOf(srt, f) + 2 \in Nat /\ (DSizeOf(srt, f) + 2) + 1 = DSizeOf(srt, f) + 3
    BY <1>8
  <2>2. Pow2[(DSizeOf(srt, f) + 2) + 1] = 2 * Pow2[DSizeOf(srt, f) + 2]
    BY ZenonT(40), <2>1, Pow2Def
  <2> QED BY Zenon, <1>3, <2>1, <2>2
<1> QED BY Zenon, <1>3, <1>7, <1>8, <1>9 DEF RangeIs

\* The remainder enters as the dividend.
LEMMA FirstRemainder ==
  ASSUME NEW srt \in DivRadix, NEW f \in DivFormats, NEW x \in Numbers(f), NEW y \in Numbers(f)
  PROVE  DivRemains(srt, f, x, y, 0, DividendOf(srt, f, x, y), 0)
<1>1. PICK v \in Nat, t \in Nat : OperandsAre(srt, f, x, y, v, t)
  BY ZenonT(60), OperandTypes
<1>2. DigitBitsOf(srt) \in Nat
  <2>1. PICK r \in Nat, al \in Nat, n \in Nat, nbW \in Nat, nbD \in Nat, msb \in Nat, lo \in Nat, j \in Nat,
             p \in Nat \ {0}, w \in Nat \ {0}, h \in Nat \ {0} :
               DivSetting(srt, f, x, y, r, al, n, nbW, nbD, msb, lo, j, p, w, h)
    BY ZenonT(60), SettingExists
  <2>2. DivParameters(srt, r, al, n, nbW, nbD, msb, lo)
    BY Zenon, <2>1 DEF DivSetting
  <2>3. DigitBitsOf(srt) \in Nat \ {0}
    BY ZenonT(40), <2>2, DigitBitsAre
  <2> QED BY <2>3
<1>3. DivRemainder(srt, f, x, y, 0, 0) = t
  <2>1. DigitBitsOf(srt) * 0 = 0 /\ 1 * t - 4 * (0 * v) = t
    BY <1>2
  <2> QED BY Zenon, <1>1, <2>1, Pow2Def DEF OperandsAre, DivRemainder
<1>4. Within(SRT[srt].radix - 1, SRT[srt].alpha, DivisorOf(srt, f, y), t)
  <2>1. Within(SRT[srt].radix - 1, SRT[srt].alpha, DivisorOf(srt, f, y), DividendOf(srt, f, x, y))
    BY ZenonT(60), DividendWithin
  <2> QED BY Zenon, <1>1, <2>1 DEF OperandsAre
<1>5. PICK h \in Nat \ {0} : RangeIs(srt, f, t, h)
  <2>1. t \in Int
    OBVIOUS
  <2> QED BY ZenonT(60), <1>4, <2>1, RemainderRange
<1>6. t % (2 * h) = t
  <2>1. 2 * h \in Nat \ {0} /\ t \in 0..(2 * h - 1) /\ t \in Int
    BY <1>5 DEF RangeIs
  <2>2. PICK P \in Nat \ {0} : P = 2 * h
    BY Zenon, <2>1
  <2>3. t \in Int /\ t \in 0..(P - 1)
    BY Zenon, <2>1, <2>2
  <2>4. t % P = t
    BY ZenonT(40), <2>3, SmallRemainder
  <2> QED BY Zenon, <2>2, <2>4
<1> QED BY Zenon, <1>1, <1>3, <1>4, <1>5, <1>6 DEF DivRemains, OperandsAre, RangeIs

\* What remains is an integer.
LEMMA RemainderType ==
  ASSUME NEW srt \in DivRadix, NEW f \in DivFormats, NEW x \in Numbers(f), NEW y \in Numbers(f),
         NEW i \in Nat, NEW quo \in Int
  PROVE  DivRemainder(srt, f, x, y, i, quo) \in Int
<1>1. PICK v \in Nat, t \in Nat : OperandsAre(srt, f, x, y, v, t)
  BY ZenonT(60), OperandTypes
<1>2. PICK r \in Nat, al \in Nat, n \in Nat, nbW \in Nat, nbD \in Nat, msb \in Nat, lo \in Nat, j \in Nat,
           p \in Nat \ {0}, w \in Nat \ {0}, h \in Nat \ {0} :
             DivSetting(srt, f, x, y, r, al, n, nbW, nbD, msb, lo, j, p, w, h)
  BY ZenonT(60), SettingExists
<1>3. DivParameters(srt, r, al, n, nbW, nbD, msb, lo)
  BY Zenon, <1>2 DEF DivSetting
<1>4. DigitBitsOf(srt) \in Nat \ {0}
  BY ZenonT(40), <1>3, DigitBitsAre
<1>5. PICK k \in Nat : k = DigitBitsOf(srt) * i
  BY <1>4
<1>6. PICK e \in Int : e = Pow2[k]
  BY Pow2Def
<1>7. e * t - 4 * (quo * v) \in Int
  OBVIOUS
<1> QED BY Zenon, <1>1, <1>5, <1>6, <1>7 DEF OperandsAre, DivRemainder

\* A row leaves what it should.
RowDigit(srt, f, y, rem) ==
  SelFunction[srt][Cat(Bits(rem, DSizeOf(srt, f) + 3 - 1, DSizeOf(srt, f) + 3 - SRT[srt].nbBitsW), SRT[srt].nbBitsD,
                       Bits(DivisorOf(srt, f, y), DSizeOf(srt, f) - SRT[srt].dMsb - 1,
                            DSizeOf(srt, f) - SRT[srt].dMsb - SRT[srt].nbBitsD))]
RowRemainder(srt, f, y, rem, q) ==
  (4 * ((SRT[srt].radix \div 4) * rem - q * DivisorOf(srt, f, y))) % Pow2[DSizeOf(srt, f) + 3]
RowLeaves(srt, f, x, y, i, rem, quo, q) ==
  q \in Int /\ DivRemains(srt, f, x, y, i + 1, RowRemainder(srt, f, y, rem, q), quo * SRT[srt].radix + q)

\* A row leaves a remainder of one digit more, whatever bits the subtracter drops.
LEMMA NextRemainder ==
  ASSUME NEW srt \in DivRadix, NEW f \in DivFormats, NEW x \in Numbers(f), NEW y \in Numbers(f),
         NEW i \in Nat, NEW rem, NEW quo \in Int, DivRemains(srt, f, x, y, i, rem, quo)
  PROVE  RowLeaves(srt, f, x, y, i, rem, quo, RowDigit(srt, f, y, rem))
<1>1. PICK r \in Nat, al \in Nat, n \in Nat, nbW \in Nat, nbD \in Nat, msb \in Nat, lo \in Nat, j \in Nat,
           p \in Nat \ {0}, w \in Nat \ {0}, h \in Nat \ {0} :
             DivSetting(srt, f, x, y, r, al, n, nbW, nbD, msb, lo, j, p, w, h)
  BY ZenonT(60), SettingExists
<1>2. PICK v \in Nat, t \in Nat : OperandsAre(srt, f, x, y, v, t)
  BY ZenonT(60), OperandTypes
<1>3. PICK c \in Int : c = DivRemainder(srt, f, x, y, i, quo)
  <2>1. DivRemainder(srt, f, x, y, i, quo) \in Int
    BY ZenonT(60), RemainderType
  <2> QED BY Zenon, <2>1
<1>4. DivParameters(srt, r, al, n, nbW, nbD, msb, lo)
  BY Zenon, <1>1 DEF DivSetting
<1>5. /\ SRT[srt].radix = r /\ SRT[srt].alpha = al /\ Pow2[DigitBitsOf(srt)] = r
      /\ DigitBitsOf(srt) \in Nat \ {0}
  BY ZenonT(40), <1>4, DigitBitsAre
<1>6. SRT[srt].nbBitsW = nbW /\ SRT[srt].nbBitsD = nbD /\ SRT[srt].dMsb = msb
  <2>1. DivRecord(SRT[srt], r, al, nbW, nbD, msb)
    BY ZenonT(40), <1>4, DivParametersAre
  <2> QED BY Zenon, <2>1 DEF DivRecord
<1>7. PICK L \in Nat, H \in Nat : L = DSizeOf(srt, f) /\ L = j + (msb + nbD) /\ H = L + 3
  <2>1. j + (msb + nbD) \in Nat /\ j + (msb + nbD) + 3 \in Nat
    OBVIOUS
  <2>2. DSizeOf(srt, f) = j + (msb + nbD)
    BY Zenon, <1>1 DEF DivSetting
  <2> QED BY Zenon, <2>1, <2>2
<1>8. Within(r - 1, al, v, c) /\ rem = c % Pow2[H]
  BY Zenon, <1>2, <1>3, <1>5, <1>7 DEF DivRemains, OperandsAre
<1>9. PICK q : q = RowDigit(srt, f, y, rem) /\ RowIs(srt, r, al, v, c, q)
  <2>1. p * Significand(f, y) = v
    BY Zenon, <1>1, <1>2 DEF DivSetting, OperandsAre, DivisorOf
  <2>2. lo * Pow2[j] <= v /\ v < (lo + Pow2[nbD]) * Pow2[j]
    BY Zenon, <1>1, <2>1 DEF DivSetting
  <2>3. RowIs(srt, r, al, v, c, SelFunction[srt][SelectorOf(H, nbW, L, nbD, msb, v, c)])
    BY ZenonT(150), <1>4, <1>7, <1>8, <2>2, RowWithin
  <2>4. RowDigit(srt, f, y, rem) = SelFunction[srt][SelectorOf(H, nbW, L, nbD, msb, v, c)]
    <3>1. DSizeOf(srt, f) + 3 = H /\ DSizeOf(srt, f) = L /\ DivisorOf(srt, f, y) = v
      BY Zenon, <1>2, <1>7 DEF OperandsAre
    <3>2. RowDigit(srt, f, y, rem)
            = SelFunction[srt][Cat(Bits(rem, H - 1, H - nbW), nbD, Bits(v, L - msb - 1, L - msb - nbD))]
      BY <1>6, <3>1 DEF RowDigit
    <3> QED BY Zenon, <1>8, <3>2 DEF SelectorOf
  <2> QED BY Zenon, <2>3, <2>4
<1>10. q \in Int /\ Within(r - 1, al, v, r * c - 4 * (q * v))
  BY Zenon, <1>9 DEF RowIs
<1>11. DivRemainder(srt, f, x, y, i + 1, quo * r + q) = r * c - 4 * (q * v)
  <2>1. PICK b \in Nat, k \in Nat, e \in Int : b = DigitBitsOf(srt) /\ k = b * i /\ e = Pow2[k]
    <3>1. DigitBitsOf(srt) \in Nat /\ DigitBitsOf(srt) * i \in Nat
      BY <1>5
    <3>2. Pow2[DigitBitsOf(srt) * i] \in Int
      BY <3>1, Pow2Def
    <3> QED BY Zenon, <3>1, <3>2
  <2>2. c = e * t - 4 * (quo * v)
    BY Zenon, <1>2, <1>3, <2>1 DEF OperandsAre, DivRemainder
  <2>3. Pow2[b * (i + 1)] = e * r
    <3>1. b * (i + 1) = k + b
      <4>1. b * (i + 1) = b * i + b
        OBVIOUS
      <4> QED BY Zenon, <2>1, <4>1
    <3>2. Pow2[k + b] = Pow2[k] * Pow2[b]
      BY ZenonT(40), Pow2Sum
    <3> QED BY Zenon, <1>5, <2>1, <3>1, <3>2
  <2>4. DivRemainder(srt, f, x, y, i + 1, quo * r + q) = (e * r) * t - 4 * ((quo * r + q) * v)
    BY Zenon, <1>2, <2>1, <2>3 DEF OperandsAre, DivRemainder
  <2>5. (e * r) * t - 4 * ((quo * r + q) * v) = r * (e * t - 4 * (quo * v)) - 4 * (q * v)
    BY <1>10
  <2> QED BY Zenon, <2>2, <2>4, <2>5
<1>12. RowRemainder(srt, f, y, rem, q) = (r * c - 4 * (q * v)) % Pow2[H]
  <2>1. PICK P \in Nat \ {0} : P = Pow2[H]
    BY Pow2Def
  <2>2. PICK g \in Int : c % P = c + P * g
    <3>1. c \div P \in Int /\ c % P \in 0..(P - 1) /\ c = P * (c \div P) + (c % P)
      BY ZenonT(40), Division
    <3>2. PICK a \in Int, z \in Int : a = c \div P /\ z = c % P
      BY <3>1
    <3>3. c = P * a + z
      BY Zenon, <3>1, <3>2
    <3>4. P * (-a) = -(P * a) /\ -a \in Int
      OBVIOUS
    <3>5. z = c + P * (-a)
      BY <3>3, <3>4
    <3> QED BY Zenon, <3>2, <3>4, <3>5
  <2>3. PICK s \in Nat : s = r \div 4 /\ r = 4 * s
    <3>1. r = 4 \/ r = 8
      BY <1>4 DEF DivParameters
    <3>2. 4 \div 4 = 1 /\ 4 = 4 * 1 /\ 8 \div 4 = 2 /\ 8 = 4 * 2 /\ 1 \in Nat /\ 2 \in Nat
      OBVIOUS
    <3> QED BY Zenon, <3>1, <3>2
  <2>4. 4 * (s * (c + P * g) - q * v) = ((4 * s) * c - 4 * (q * v)) + P * ((4 * s) * g)
    BY <1>10
  <2>5. PICK a \in Int, z \in Int, k \in Int :
          a = 4 * (s * (c + P * g) - q * v) /\ z = (4 * s) * c - 4 * (q * v) /\ k = (4 * s) * g
    <3>1. P * g \in Int /\ q * v \in Int /\ (4 * s) * c \in Int /\ (4 * s) * g \in Int
      BY <1>10
    <3>2. s * (c + P * g) \in Int
      BY <3>1
    <3>3. 4 * (s * (c + P * g) - q * v) \in Int /\ (4 * s) * c - 4 * (q * v) \in Int
      BY <3>1, <3>2
    <3> QED BY Zenon, <3>1, <3>3
  <2>6. Congruent(a, z, P)
    BY Zenon, <2>4, <2>5 DEF Congruent
  <2>7. a % P = z % P
    BY ZenonT(40), <2>6, CongruentRemainder
  <2>8. RowRemainder(srt, f, y, rem, q) = a % P
    BY Zenon, <1>2, <1>5, <1>7, <1>8, <2>1, <2>2, <2>3, <2>5 DEF RowRemainder, OperandsAre
  <2>9. z = r * c - 4 * (q * v)
    BY Zenon, <2>3, <2>5
  <2> QED BY Zenon, <2>1, <2>7, <2>8, <2>9
<1>13. DivRemains(srt, f, x, y, i + 1, RowRemainder(srt, f, y, rem, q), quo * SRT[srt].radix + q)
  BY Zenon, <1>2, <1>5, <1>7, <1>10, <1>11, <1>12 DEF DivRemains, OperandsAre
<1> QED BY Zenon, <1>9, <1>10, <1>13 DEF RowLeaves

\* The remainder is read back from the subtracter: its value and its sign.
RemainderReads(srt, f, x, y, i, rem, quo, c) ==
  /\ c = DivRemainder(srt, f, x, y, i, quo)
  /\ Signed(DSizeOf(srt, f) + 3, rem) = c
  /\ BitOf(rem, DSizeOf(srt, f) + 2) = IF c >= 0 THEN 0 ELSE 1
  /\ rem = 0 <=> c = 0
  /\ Within(SRT[srt].radix - 1, SRT[srt].alpha, DivisorOf(srt, f, y), c)

\* Nothing is lost by keeping the remainder modulo the size of the subtracter.
LEMMA RemainderRead ==
  ASSUME NEW srt \in DivRadix, NEW f \in DivFormats, NEW x \in Numbers(f), NEW y \in Numbers(f),
         NEW i \in Nat, NEW rem, NEW quo \in Int, DivRemains(srt, f, x, y, i, rem, quo)
  PROVE  \E c \in Int : RemainderReads(srt, f, x, y, i, rem, quo, c)
<1>1. PICK c \in Int : c = DivRemainder(srt, f, x, y, i, quo)
  <2>1. DivRemainder(srt, f, x, y, i, quo) \in Int
    BY ZenonT(60), RemainderType
  <2> QED BY Zenon, <2>1
<1>2. Within(SRT[srt].radix - 1, SRT[srt].alpha, DivisorOf(srt, f, y), c)
      /\ rem = c % Pow2[DSizeOf(srt, f) + 3]
  BY Zenon, <1>1 DEF DivRemains
<1>3. DSizeOf(srt, f) \in Nat /\ \E h \in Nat \ {0} : RangeIs(srt, f, c, h)
  BY ZenonT(60), <1>2, RemainderRange
<1>4. PICK h \in Nat \ {0} : RangeIs(srt, f, c, h)
  BY Zenon, <1>3
<1>5. PICK k \in Nat : k = DSizeOf(srt, f) + 2 /\ k + 1 = DSizeOf(srt, f) + 3
  <2>1. DSizeOf(srt, f) + 2 \in Nat /\ (DSizeOf(srt, f) + 2) + 1 = DSizeOf(srt, f) + 3
    BY <1>3
  <2> QED BY Zenon, <2>1
<1>6. h = Pow2[k] /\ Pow2[k + 1] = 2 * h /\ -h <= c /\ c < h
  BY Zenon, <1>4, <1>5 DEF RangeIs
<1>7. PICK P \in Nat \ {0} : P = 2 * h
  OBVIOUS
<1>8. PICK z \in 0..(2 * h - 1), a \in Int : z = c % P /\ z = c + (2 * h) * a
  <2>1. c \div P \in Int /\ c % P \in 0..(P - 1) /\ c = P * (c \div P) + (c % P)
    BY ZenonT(40), Division
  <2>2. PICK b \in Int, z \in 0..(P - 1) : b = c \div P /\ z = c % P
    BY Zenon, <2>1
  <2>3. c = P * b + z
    BY Zenon, <2>1, <2>2
  <2>4. P * (-b) = -(P * b) /\ -b \in Int
    OBVIOUS
  <2>5. z = c + P * (-b)
    BY <2>3, <2>4
  <2> QED BY Zenon, <1>7, <2>2, <2>4, <2>5
<1>9. rem = z
  BY Zenon, <1>2, <1>5, <1>6, <1>7, <1>8
<1>10. Signed(k + 1, z) = c /\ BitOf(z, k) = IF c >= 0 THEN 0 ELSE 1
  BY ZenonT(90), <1>6, <1>8, SignedOf
<1>11. z = 0 <=> c = 0
  <2>1. c >= 0 => z = c
    <3>1. c >= 0 => c \in 0..(P - 1)
      BY <1>6, <1>7
    <3>2. c \in 0..(P - 1) => c % P = c
      BY ZenonT(40), SmallRemainder
    <3> QED BY Zenon, <1>8, <3>1, <3>2
  <2>2. ~(c >= 0) => z = c + P
    <3>1. ~(c >= 0) => c \in (-P)..(-1)
      BY <1>6, <1>7
    <3>2. c \in (-P)..(-1) => c % P = c + P
      BY ZenonT(40), SmallRemainder
    <3> QED BY Zenon, <1>8, <3>1, <3>2
  <2> QED BY <1>6, <1>7, <2>1, <2>2
<1>12. RemainderReads(srt, f, x, y, i, rem, quo, c)
  BY Zenon, <1>1, <1>2, <1>5, <1>9, <1>10, <1>11 DEF RemainderReads
<1> QED BY Zenon, <1>12

\* A power of two divides a product by an odd number only if it divides the other factor.
OddFactorOf(k, n, m, i) == Pow2[k] * n = (2 * i + 1) * m => \E t \in Nat : m = Pow2[k] * t
OddFactor(k) == \A n \in Nat, m \in Nat, i \in Nat : OddFactorOf(k, n, m, i)

\* By induction on the power.
LEMMA OddMultiple ==
  \A k \in Nat : OddFactor(k)
<1> DEFINE R == {k \in Nat : OddFactor(k)}
<1>1. 0 \in R
  <2>1. ASSUME NEW b \in Nat PROVE b = 1 * b
    OBVIOUS
  <2> QED BY <2>1, Pow2Def DEF OddFactor, OddFactorOf
<1>2. ASSUME NEW k \in Nat, k \in R PROVE k + 1 \in R
  <2>1. PICK p \in Nat : p = Pow2[k] /\ Pow2[k + 1] = 2 * p
    BY Pow2Def
  <2>2. OddFactor(k)
    BY <1>2
  <2>3. ASSUME NEW a \in Nat, NEW b \in Nat, NEW z \in Nat PROVE OddFactorOf(k + 1, a, b, z)
    <3>0. SUFFICES ASSUME Pow2[k + 1] * a = (2 * z + 1) * b PROVE \E t \in Nat : b = Pow2[k + 1] * t
      BY Zenon DEF OddFactorOf
    <3>1. PICK j \in Nat, i \in 0..1 : b = 2 * j + i
      <4>1. (b \div 2) \in Nat /\ (b % 2) \in 0..1 /\ b = 2 * (b \div 2) + (b % 2)
        OBVIOUS
      <4> QED BY ZenonT(40), <4>1
    <3>2. PICK c \in Int, e \in Int : c = p * a /\ e = (2 * z + 1) * j
      OBVIOUS
    <3>3. 2 * c = 2 * e + (2 * z + 1) * i
      <4>1. (2 * p) * a = 2 * (p * a) /\ (2 * z + 1) * (2 * j + i) = 2 * ((2 * z + 1) * j) + (2 * z + 1) * i
        OBVIOUS
      <4> QED BY Zenon, <2>1, <3>0, <3>1, <3>2, <4>1
    <3>4. i = 0
      <4>1. i = 1 => (2 * z + 1) * i = 2 * z + 1
        OBVIOUS
      <4> QED BY <3>3, <4>1
    <3>5. c = e /\ b = 2 * j
      <4>1. (2 * z + 1) * i = 0
        BY <3>4
      <4>2. 2 * c = 2 * e + 0
        BY Zenon, <3>3, <4>1
      <4> QED BY <3>1, <3>4, <4>2
    <3>6. p * a = (2 * z + 1) * j
      BY Zenon, <3>2, <3>5
    <3>7. PICK t \in Nat : j = p * t
      <4>1. OddFactorOf(k, a, j, z)
        BY Zenon, <2>2 DEF OddFactor
      <4>2. Pow2[k] * a = (2 * z + 1) * j
        BY Zenon, <2>1, <3>6
      <4>3. \E t \in Nat : j = Pow2[k] * t
        BY Zenon, <4>1, <4>2 DEF OddFactorOf
      <4> QED BY Zenon, <2>1, <4>3
    <3>8. 2 * (p * t) = (2 * p) * t
      OBVIOUS
    <3> QED BY Zenon, <2>1, <3>5, <3>7, <3>8
  <2>4. OddFactor(k + 1)
    BY Zenon, <2>3 DEF OddFactor
  <2> QED BY <2>4
<1> HIDE DEF R
<1>3. \A k \in Nat : k \in R
  BY <1>1, <1>2, Induction
<1> QED BY <1>3 DEF R

\* A quotient of significands is never half way between two numbers.
LEMMA NoTie ==
  ASSUME NEW k \in Nat, NEW a \in Nat, NEW b \in Nat \ {0}, b < Pow2[k], NEW z \in Nat
  PROVE  Pow2[k] * a # (2 * z + 1) * b
<1>0. SUFFICES ASSUME Pow2[k] * a = (2 * z + 1) * b PROVE FALSE
  OBVIOUS
<1>1. PICK p \in Nat \ {0} : p = Pow2[k]
  BY Pow2Def
<1>2. OddFactor(k)
  BY OddMultiple
<1>3. PICK t \in Nat : b = p * t
  <2>1. \E t \in Nat : b = Pow2[k] * t
    <3>1. b \in Nat
      OBVIOUS
    <3>2. OddFactorOf(k, a, b, z)
      BY Zenon, <1>2, <3>1 DEF OddFactor
    <3> QED BY Zenon, <1>0, <3>2 DEF OddFactorOf
  <2> QED BY Zenon, <1>1, <2>1
<1>4. t = 0 => p * t = 0
  OBVIOUS
<1>5. t >= 1 => p * 1 <= p * t
  BY ProductOrder
<1> QED BY <1>1, <1>3, <1>4, <1>5

\* Half a quotient with one bit more, rounded by that bit, is the nearest: without ties
\* and whether the division is exact or not, the bit is enough.
RoundsUpTo(num, b, q, r, v, h, u) == num = b * q + r /\ NearestUp(q, r, b, v) /\ q + v = h + u

\* There is a quotient and a rest that say so.
LEMMA DivisionRounds ==
  ASSUME NEW b \in Nat \ {0}, NEW num \in Nat, NEW h \in Nat, NEW u \in 0..1,
         (2 * h + u) * b <= 2 * num, 2 * num <= (2 * h + u + 1) * b,
         \A z \in Nat : 2 * num # (2 * z + 1) * b
  PROVE  \E q \in Nat, r \in 0..(b - 1), v \in 0..1 : RoundsUpTo(num, b, q, r, v, h, u)
<1>1. PICK c \in Nat : c = b * h
  OBVIOUS
<1>2. (2 * h + u) * b = 2 * (b * h) + u * b /\ (2 * h + u + 1) * b = 2 * (b * h) + (u + 1) * b
  OBVIOUS
<1>3. 2 * c + u * b <= 2 * num /\ 2 * num <= 2 * c + (u + 1) * b
  BY Zenon, <1>1, <1>2
<1>4. 2 * num # 2 * c + b
  <2>1. (2 * h + 1) * b = 2 * (b * h) + b
    OBVIOUS
  <2>2. 2 * num # (2 * h + 1) * b
    OBVIOUS
  <2> QED BY Zenon, <1>1, <2>1, <2>2
<1>5. CASE u = 0
  <2>1. u * b = 0 /\ (u + 1) * b = b
    BY <1>5
  <2>2. 2 * c + 0 <= 2 * num /\ 2 * num <= 2 * c + b
    BY Zenon, <1>3, <2>1
  <2>3. PICK r \in 0..(b - 1) : num = c + r /\ 2 * r < b
    <3>1. num - c \in 0..(b - 1) /\ num = c + (num - c) /\ 2 * (num - c) < b
      BY <1>4, <2>2
    <3> QED BY Zenon, <3>1
  <2>4. ~(2 * r > b) /\ 2 * r # b /\ 0 # 1 /\ 0 \in 0..1 /\ h + 0 = h + u
    BY <1>5, <2>3
  <2>5. NearestUp(h, r, b, 0)
    BY Zenon, <2>4 DEF NearestUp
  <2>6. RoundsUpTo(num, b, h, r, 0, h, u)
    BY Zenon, <1>1, <2>3, <2>4, <2>5 DEF RoundsUpTo
  <2> QED BY Zenon, <2>4, <2>6
<1>6. CASE u = 1
  <2>1. u * b = b /\ (u + 1) * b = 2 * b
    BY <1>6
  <2>2. 2 * c + b <= 2 * num /\ 2 * num <= 2 * c + 2 * b
    BY Zenon, <1>3, <2>1
  <2>3. CASE num = c + b
    <3>1. b * (h + 1) = b * h + b
      OBVIOUS
    <3>2. b * (h + 1) + 0 = c + b
      BY <1>1, <3>1
    <3>3. ~(2 * 0 > b) /\ 2 * 0 # b /\ 0 # 1 /\ 0 \in 0..1 /\ 0 \in 0..(b - 1) /\ (h + 1) + 0 = h + u /\ h + 1 \in Nat
      BY <1>6
    <3>4. NearestUp(h + 1, 0, b, 0)
      BY Zenon, <3>3 DEF NearestUp
    <3>5. RoundsUpTo(num, b, h + 1, 0, 0, h, u)
      BY Zenon, <2>3, <3>2, <3>3, <3>4 DEF RoundsUpTo
    <3> QED BY Zenon, <3>3, <3>5
  <2>4. CASE num # c + b
    <3>1. PICK r \in 0..(b - 1) : num = c + r /\ 2 * r > b
      <4>1. num - c \in 0..(b - 1) /\ num = c + (num - c) /\ 2 * (num - c) > b
        BY <1>4, <2>2, <2>4
      <4> QED BY Zenon, <4>1
    <3>2. 1 \in 0..1 /\ h + 1 = h + u
      BY <1>6
    <3>3. NearestUp(h, r, b, 1)
      BY Zenon, <3>1 DEF NearestUp
    <3>4. RoundsUpTo(num, b, h, r, 1, h, u)
      BY Zenon, <1>1, <3>1, <3>2, <3>3 DEF RoundsUpTo
    <3> QED BY Zenon, <3>2, <3>4
  <2> QED BY <2>3, <2>4
<1> QED BY <1>5, <1>6

\* The significand of a quotient: its leading bit is one of two, and behind it come the
\* units of the last place h, the bit u that rounds them, and if m = 1 an unused bit t.
QuotientDigits(w, a, b, z, m, h, u, t) ==
  /\ 2 * w <= z /\ z < 8 * w
  /\ m = 0 => /\ z = 2 * h + u /\ z < 4 * w /\ a <= b
              /\ (2 * h + u) * b <= 2 * ((2 * w) * a) /\ 2 * ((2 * w) * a) <= (2 * h + u + 1) * b
  /\ m = 1 => /\ z = 2 * (2 * h + u) + t /\ 4 * w <= z /\ b <= a
              /\ (2 * h + u) * b <= 2 * (w * a) /\ 2 * (w * a) <= (2 * h + u + 1) * b

\* A quotient of two significands has these digits.
LEMMA QuotientDigitsAre ==
  ASSUME NEW w \in Nat \ {0}, NEW a \in w..(2 * w - 1), NEW b \in w..(2 * w - 1), NEW z \in Nat,
         z * b <= (4 * w) * a, (4 * w) * a <= (z + 1) * b
  PROVE  \E m \in 0..1, h \in w..(2 * w - 1), u \in 0..1, t \in 0..1 : QuotientDigits(w, a, b, z, m, h, u, t)
<1>1. a \in Nat \ {0} /\ b \in Nat \ {0}
  OBVIOUS
<1>2. PICK W \in Nat, A \in Nat, B \in Nat : W = w * w /\ A = w * a /\ B = w * b
  <2>1. w * w \in Nat /\ w * a \in Nat /\ w * b \in Nat
    BY <1>1
  <2> QED BY Zenon, <2>1
<1>3. W <= A /\ A < 2 * W /\ W <= B /\ B < 2 * W
  <2>1. w * w <= w * a /\ w * a <= w * (2 * w - 1) /\ w * (2 * w - 1) = 2 * (w * w) - w
    BY ProductOrder
  <2>2. w * w <= w * b /\ w * b <= w * (2 * w - 1)
    BY ProductOrder
  <2>3. W <= A /\ A <= 2 * W - w /\ W <= B /\ B <= 2 * W - w
    BY Zenon, <1>2, <2>1, <2>2
  <2> QED BY <2>3
<1>4. PICK c \in Int : c = z * b /\ c <= 4 * A /\ 4 * A <= c + b
  <2>1. (z + 1) * b = z * b + b /\ (4 * w) * a = 4 * (w * a) /\ z * b \in Int
    BY <1>1
  <2> QED BY Zenon, <1>2, <2>1
<1>5. 2 * w <= z
  <2>1. CASE z <= 2 * w - 1
    <3>1. b * z <= b * (2 * w - 1) /\ b * (2 * w - 1) = 2 * (w * b) - b /\ b * z = z * b
      BY <1>1, <2>1, ProductOrder
    <3>2. c <= 2 * B - b
      BY Zenon, <1>2, <1>4, <3>1
    <3> QED BY <1>1, <1>3, <1>4, <3>2
  <2> QED BY <2>1
<1>6. z < 8 * w
  <2>1. CASE 8 * w <= z
    <3>1. b * (8 * w) <= b * z /\ b * (8 * w) = 8 * (w * b) /\ b * z = z * b
      BY <1>1, <2>1, ProductOrder
    <3>2. 8 * B <= c
      BY Zenon, <1>2, <1>4, <3>1
    <3> QED BY <1>3, <1>4, <3>2
  <2> QED BY <2>1
<1>7. CASE z < 4 * w
  <2>1. PICK h \in Nat, u \in 0..1 : z = 2 * h + u
    <3>1. (z \div 2) \in Nat /\ (z % 2) \in 0..1 /\ z = 2 * (z \div 2) + (z % 2)
      OBVIOUS
    <3> QED BY ZenonT(40), <3>1
  <2>2. h \in w..(2 * w - 1)
    BY <1>5, <1>7, <2>1
  <2>3. a <= b
    <3>1. (z + 1) * b <= (4 * w) * b
      <4>1. b * (z + 1) <= b * (4 * w) /\ b * (z + 1) = (z + 1) * b /\ b * (4 * w) = (4 * w) * b
        BY <1>1, <1>7, ProductOrder
      <4> QED BY Zenon, <4>1
    <3>2. (z + 1) * b = z * b + b /\ (4 * w) * b = 4 * (w * b)
      BY <1>1
    <3>3. c + b <= 4 * B
      BY Zenon, <1>2, <1>4, <3>1, <3>2
    <3>4. A <= B
      BY <1>1, <1>4, <3>3
    <3>5. w * b < w * a => b < a
      BY <1>1, ProductOrder
    <3> QED BY <1>1, <1>2, <3>4, <3>5
  <2>4. 2 * ((2 * w) * a) = (4 * w) * a
    BY <1>1
  <2>5. (2 * h + u) * b <= 2 * ((2 * w) * a) /\ 2 * ((2 * w) * a) <= (2 * h + u + 1) * b
    BY Zenon, <2>1, <2>4
  <2>6. 0 # 1 /\ 0 \in 0..1
    OBVIOUS
  <2>7. QuotientDigits(w, a, b, z, 0, h, u, 0)
    BY Zenon, <1>5, <1>6, <1>7, <2>1, <2>3, <2>5, <2>6 DEF QuotientDigits
  <2> QED BY Zenon, <2>2, <2>6, <2>7
<1>8. CASE 4 * w <= z
  <2>1. PICK k \in Nat, t \in 0..1 : z = 2 * k + t
    <3>1. (z \div 2) \in Nat /\ (z % 2) \in 0..1 /\ z = 2 * (z \div 2) + (z % 2)
      OBVIOUS
    <3> QED BY ZenonT(40), <3>1
  <2>2. PICK h \in Nat, u \in 0..1 : k = 2 * h + u
    <3>1. (k \div 2) \in Nat /\ (k % 2) \in 0..1 /\ k = 2 * (k \div 2) + (k % 2)
      OBVIOUS
    <3> QED BY ZenonT(40), <3>1
  <2>3. h \in w..(2 * w - 1)
    BY <1>6, <1>8, <2>1, <2>2
  <2>4. b <= a
    <3>1. b * (4 * w) <= b * z /\ b * (4 * w) = 4 * (w * b) /\ b * z = z * b
      BY <1>1, <1>8, ProductOrder
    <3>2. 4 * B <= c
      BY Zenon, <1>2, <1>4, <3>1
    <3>3. B <= A
      BY <1>4, <3>2
    <3>4. w * a < w * b => a < b
      BY <1>1, ProductOrder
    <3> QED BY <1>1, <1>2, <3>3, <3>4
  <2>5. k * b <= 2 * (w * a) /\ 2 * (w * a) <= (k + 1) * b
    <3>1. (2 * k + t) * b = 2 * (k * b) + t * b /\ (k + 1) * b = k * b + b
      BY <1>1
    <3>2. PICK e \in Int, o \in Int : e = k * b /\ o = t * b
      BY <1>1
    <3>3. c = 2 * e + o
      BY Zenon, <1>4, <2>1, <3>1, <3>2
    <3>4. 0 <= o /\ o <= b
      <4>1. t = 0 \/ t = 1
        OBVIOUS
      <4>2. t = 0 => t * b = 0
        BY <1>1
      <4>3. t = 1 => t * b = b
        BY <1>1
      <4> QED BY <1>1, <3>2, <4>1, <4>2, <4>3
    <3>5. e <= 2 * A /\ 2 * A <= e + b
      BY <1>1, <1>4, <3>3, <3>4
    <3> QED BY Zenon, <1>2, <3>1, <3>2, <3>5
  <2>6. (2 * h + u) * b <= 2 * (w * a) /\ 2 * (w * a) <= (2 * h + u + 1) * b
    BY Zenon, <2>2, <2>5
  <2>7. 0 # 1 /\ 1 \in 0..1
    OBVIOUS
  <2>8. QuotientDigits(w, a, b, z, 1, h, u, t)
    BY Zenon, <1>5, <1>6, <1>8, <2>1, <2>2, <2>4, <2>6, <2>7 DEF QuotientDigits
  <2> QED BY Zenon, <2>3, <2>7, <2>8
<1> QED BY <1>7, <1>8

\* What the reference makes of a quotient.
Expected(f, sign, a, b, e, m, h, u) ==
  Rounded(f, sign, a, b, e)
    = IF h + u = Pow2[f.wF + 1] THEN Packed(f, sign, ((e - 1) + m) + 1, 0)
      ELSE Packed(f, sign, (e - 1) + m, (h + u) - Pow2[f.wF])

\* A division rounded at k bits.
LEMMA RoundedAt ==
  ASSUME NEW f, NumberFormat(f), NEW sign, NEW e \in Int, NEW a \in Nat, NEW b \in Nat \ {0},
         NEW m \in 0..1, NEW k \in Nat, f.wF - (m - 1) = k, Magnitude(a, b) = m - 1,
         b < Pow2[k + 1], NEW h \in Nat, NEW u \in 0..1,
         (2 * h + u) * b <= 2 * (a * Pow2[k]), 2 * (a * Pow2[k]) <= (2 * h + u + 1) * b
  PROVE  Expected(f, sign, a, b, e, m, h, u)
<1>1. PICK p \in Nat \ {0} : p = Pow2[k] /\ Pow2[k + 1] = 2 * p
  BY Pow2Def
<1>2. PICK num \in Nat : num = a * p
  OBVIOUS
<1>3. (2 * h + u) * b <= 2 * num /\ 2 * num <= (2 * h + u + 1) * b
  BY Zenon, <1>1, <1>2
<1>4. ASSUME NEW z \in Nat PROVE 2 * num # (2 * z + 1) * b
  <2>1. k + 1 \in Nat
    OBVIOUS
  <2>2. Pow2[k + 1] * a # (2 * z + 1) * b
    BY ZenonT(40), <2>1, NoTie
  <2>3. (2 * p) * a = 2 * (a * p)
    OBVIOUS
  <2> QED BY Zenon, <1>1, <1>2, <2>2, <2>3
<1>5. PICK q \in Nat, r \in 0..(b - 1), v \in 0..1 : RoundsUpTo(num, b, q, r, v, h, u)
  BY ZenonT(60), <1>3, <1>4, DivisionRounds
<1>6. num = b * q + r /\ NearestUp(q, r, b, v) /\ q + v = h + u
  BY Zenon, <1>5 DEF RoundsUpTo
<1>7. PICK i \in Int : i = m - 1
  OBVIOUS
<1>8. RoundsTo(f, sign, a, b, e, i, q, v)
  <2>1. a * Pow2[k] = b * q + r /\ f.wF - i = k /\ Magnitude(a, b) = i
    BY Zenon, <1>1, <1>2, <1>6, <1>7
  <2> QED BY ZenonT(60), <1>6, <2>1, RoundedIs
<1>9. e + i = (e - 1) + m /\ e + i + 1 = ((e - 1) + m) + 1
  BY <1>7
<1> QED BY Zenon, <1>6, <1>8, <1>9 DEF RoundsTo, Expected

\* The reference rounds the same bits of the same significand. A quotient of one is the
\* only one whose leading bit may be missing, and then the rounding restores it.
LEMMA ReferenceQuotient ==
  ASSUME NEW f, NumberFormat(f), NEW sign, NEW e \in Int, NEW w, w = Pow2[f.wF],
         NEW a \in w..(2 * w - 1), NEW b \in w..(2 * w - 1), NEW z \in Nat, (4 * w) * a <= (z + 1) * b,
         NEW m \in 0..1, NEW h \in w..(2 * w - 1), NEW u \in 0..1, NEW t \in 0..1,
         QuotientDigits(w, a, b, z, m, h, u, t)
  PROVE  Expected(f, sign, a, b, e, m, h, u)
<1>1. PICK F \in Nat : F = f.wF /\ F + 1 = f.wF + 1
  BY DEF NumberFormat
<1>2. w \in Nat \ {0} /\ Pow2[F] = w /\ Pow2[F + 1] = 2 * w
  <2>1. Pow2[F + 1] = 2 * Pow2[F] /\ Pow2[F] \in Nat \ {0}
    BY Pow2Def
  <2> QED BY Zenon, <1>1, <2>1
<1>3. a \in Nat /\ b \in Nat \ {0} /\ b \in Nat /\ h \in Nat /\ w <= a /\ a < 2 * w /\ w <= b /\ b < 2 * w
  BY <1>2
<1>4. Magnitude(a, b) = IF a < b THEN -1 ELSE 0
  <2>1. 0 \in Nat /\ F + 0 = F /\ 0 - 1 = -1 /\ b * 1 = b
    BY <1>3
  <2>2. Pow2[F] <= b /\ b < Pow2[F + 1] /\ Pow2[F + 0] <= a /\ a < Pow2[(F + 0) + 1]
    BY Zenon, <1>2, <1>3, <2>1
  <2>3. MagnitudeFrom(a, b, 0)
    BY ZenonT(60), <1>3, <2>1, <2>2, MagnitudeIs
  <2>4. Pow2[0] = 1
    BY Pow2Def
  <2> QED BY Zenon, <2>1, <2>3, <2>4 DEF MagnitudeFrom
<1>5. CASE m = 1
  <2>1. b <= a /\ (2 * h + u) * b <= 2 * (w * a) /\ 2 * (w * a) <= (2 * h + u + 1) * b
    BY Zenon, <1>5 DEF QuotientDigits
  <2>2. Magnitude(a, b) = m - 1
    <3>1. ~(a < b) /\ 1 - 1 = 0
      BY <1>3, <2>1
    <3> QED BY Zenon, <1>4, <1>5, <3>1
  <2>3. f.wF - (m - 1) = F
    BY <1>1, <1>5
  <2>4. w * a = a * w
    BY <1>2, <1>3
  <2>5. b < Pow2[F + 1] /\ (2 * h + u) * b <= 2 * (a * Pow2[F]) /\ 2 * (a * Pow2[F]) <= (2 * h + u + 1) * b
    BY Zenon, <1>2, <1>3, <2>1, <2>4
  <2> QED BY ZenonT(60), <1>3, <2>2, <2>3, <2>5, RoundedAt
<1>6. CASE m = 0 /\ a < b
  <2>1. (2 * h + u) * b <= 2 * ((2 * w) * a) /\ 2 * ((2 * w) * a) <= (2 * h + u + 1) * b
    BY Zenon, <1>6 DEF QuotientDigits
  <2>2. Magnitude(a, b) = m - 1
    <3>1. 0 - 1 = -1
      OBVIOUS
    <3> QED BY Zenon, <1>4, <1>6, <3>1
  <2>3. f.wF - (m - 1) = F + 1 /\ F + 1 \in Nat
    BY <1>1, <1>6
  <2>4. (2 * w) * a = a * (2 * w)
    BY <1>2, <1>3
  <2>5. b < Pow2[(F + 1) + 1]
    <3>1. Pow2[(F + 1) + 1] = 2 * Pow2[F + 1]
      BY <2>3, Pow2Def
    <3>2. b < 2 * (2 * w)
      BY <1>2, <1>3
    <3> QED BY Zenon, <1>2, <3>1, <3>2
  <2>6. (2 * h + u) * b <= 2 * (a * Pow2[F + 1]) /\ 2 * (a * Pow2[F + 1]) <= (2 * h + u + 1) * b
    BY Zenon, <1>2, <2>1, <2>4
  <2> QED BY ZenonT(60), <1>3, <2>2, <2>3, <2>5, <2>6, RoundedAt
<1>7. CASE m = 0 /\ ~(a < b)
  <2>1. z = 2 * h + u /\ z < 4 * w /\ a <= b
    BY Zenon, <1>7 DEF QuotientDigits
  <2>2. a = b
    BY <1>3, <1>7, <2>1
  <2>3. 4 * w <= z + 1
    <3>1. (4 * w) * a = a * (4 * w) /\ (z + 1) * a = a * (z + 1)
      BY <1>2, <1>3
    <3>2. a * (4 * w) <= a * (z + 1)
      BY Zenon, <2>2, <3>1
    <3>3. a * (z + 1) < a * (4 * w) => z + 1 < 4 * w
      <4>1. a \in Nat \ {0} /\ z + 1 \in Int /\ 4 * w \in Int
        BY <1>2, <1>3
      <4> QED BY ZenonT(40), <4>1, ProductOrder
    <3>4. a * (z + 1) \in Int /\ a * (4 * w) \in Int
      BY <1>2, <1>3
    <3> QED BY <1>2, <3>2, <3>3, <3>4
  <2>4. h + u = 2 * w
    <3>1. h <= 2 * w - 1
      BY <1>2
    <3>2. ASSUME NEW i \in Nat, NEW j \in 0..1, NEW l \in Nat, i <= 2 * l - 1, 4 * l <= (2 * i + j) + 1
          PROVE  i + j = 2 * l
      BY <3>2
    <3>3. 4 * w <= (2 * h + u) + 1
      BY Zenon, <2>1, <2>3
    <3>4. w \in Nat
      BY <1>2
    <3> QED BY Zenon, <1>3, <3>1, <3>2, <3>3, <3>4
  <2>5. Magnitude(a, b) = 0
    BY Zenon, <1>4, <1>7
  <2>6. RoundsTo(f, sign, a, b, e, 0, w, 0)
    <3>1. f.wF - 0 = F /\ 0 \in Int /\ 0 \in 0..1 /\ 0 \in 0..(b - 1) /\ w \in Nat
      BY <1>1, <1>2, <1>3
    <3>2. a * Pow2[F] = b * w + 0
      <4>1. b * w + 0 = b * w
        BY <1>2, <1>3
      <4> QED BY Zenon, <1>2, <2>2, <4>1
    <3>3. NearestUp(w, 0, b, 0)
      <4>1. ~(2 * 0 > b) /\ 2 * 0 # b /\ 0 # 1
        BY <1>3
      <4> QED BY Zenon, <4>1 DEF NearestUp
    <3> QED BY ZenonT(60), <1>3, <2>5, <3>1, <3>2, <3>3, RoundedIs
  <2>7. w + 0 # 2 * w /\ (w + 0) - w = 0 /\ e + 0 = ((e - 1) + 0) + 1
    BY <1>2
  <2> QED BY Zenon, <1>1, <1>2, <1>7, <2>4, <2>6, <2>7 DEF RoundsTo, Expected
<1> QED BY <1>5, <1>6, <1>7

\* The end of a division, from its parameters.
QSizeOf(srt, f) ==
  DigitBitsOf(srt) * (IF SRT[srt].radix = 4 THEN nDigitOf(srt, f) - 1 ELSE nDigitOf(srt, f))
CorrectedOf(srt, f, rem, quo) ==
  IF SRT[srt].radix = 4 THEN quo - BitOf(rem, DSizeOf(srt, f) + 2)
  ELSE IF rem = 0 THEN 8 * quo
  ELSE 8 * quo + 2 - 4 * BitOf(rem, DSizeOf(srt, f) + 2)
SignificandOf(srt, f, rem, quo) ==
  Bits(CorrectedOf(srt, f, rem, quo) % Pow2[QSizeOf(srt, f)],
       QSizeOf(srt, f) - 1 - SRT[srt].qMsbToDiscard,
       QSizeOf(srt, f) - SRT[srt].qMsbToDiscard - (f.wF + 3))

\* With i rows before the last one, the quotient has g bits below the rounding bit, and
\* in radix 8 the k bits of a last digit.
DivWidth(srt, f, i, g, k, s) ==
  /\ nDigitOf(srt, f) - 1 = i
  /\ Pow2[DigitBitsOf(srt) * i] * s = 16 * (Pow2[f.wF] * Pow2[g])
  /\ (IF SRT[srt].alpha = 3 THEN 2 ELSE 1) = s
  /\ QSizeOf(srt, f) \in Nat /\ (k + g) + (f.wF + 3) <= QSizeOf(srt, f)
  /\ QSizeOf(srt, f) - SRT[srt].qMsbToDiscard - (f.wF + 3) = k + g
  /\ QSizeOf(srt, f) - 1 - SRT[srt].qMsbToDiscard = ((k + g) + (f.wF + 3)) - 1
  /\ SRT[srt].radix = 4 => k = 0
  /\ SRT[srt].radix # 4 => k = 3

\* For each of the dividers the widths add up.
LEMMA DivWidthIs ==
  ASSUME NEW srt \in DivRadix, NEW f \in DivFormats
  PROVE  \E i \in Nat, g \in Nat, k \in Nat, s \in 1..2 : DivWidth(srt, f, i, g, k, s)
<1>1. PICK F \in Nat \ {0} : F = f.wF
  BY FPDivAssumption DEF FPDivAssumption
<1>2. srt \in {42, 43, 87}
  BY FPDivAssumption, SRTIs DEF FPDivAssumption
<1>3. ASSUME NEW g \in Nat
      PROVE  Pow2[F + 4 + g] = 16 * (Pow2[f.wF] * Pow2[g]) /\ Pow2[F + 3 + g] * 2 = 16 * (Pow2[f.wF] * Pow2[g])
  <2>1. F \in Nat /\ F + g \in Nat /\ 4 \in Nat /\ 3 \in Nat /\ F + 4 + g = (F + g) + 4 /\ F + 3 + g = (F + g) + 3
    OBVIOUS
  <2>2. PICK w \in Nat, p \in Nat, v \in Nat : w = Pow2[F] /\ p = Pow2[g] /\ v = w * p
    <3>1. Pow2[F] \in Nat /\ Pow2[g] \in Nat
      BY <2>1, Pow2Def
    <3>2. Pow2[F] * Pow2[g] \in Nat
      BY <3>1
    <3> QED BY Zenon, <3>1, <3>2
  <2>3. Pow2[F + g] = v
    <3>1. Pow2[F + g] = Pow2[F] * Pow2[g]
      BY <2>1, Pow2Sum
    <3> QED BY Zenon, <2>2, <3>1
  <2>4. Pow2[(F + g) + 4] = v * 16 /\ Pow2[(F + g) + 3] = v * 8
    <3>1. Pow2[(F + g) + 4] = Pow2[F + g] * Pow2[4] /\ Pow2[(F + g) + 3] = Pow2[F + g] * Pow2[3]
      BY <2>1, Pow2Sum
    <3> QED BY Zenon, <2>3, <3>1, SmallPowers
  <2>5. v * 16 = 16 * v /\ (v * 8) * 2 = 16 * v
    OBVIOUS
  <2> QED BY Zenon, <1>1, <2>1, <2>2, <2>4, <2>5
<1>4. CASE srt = 42
  <2>1. SRT[srt].radix = 4 /\ SRT[srt].alpha = 2 /\ SRT[srt].extraBit = 7 /\ SRT[srt].qMsbToDiscard = 1
    BY <1>4, SRTIs
  <2>2. DigitBitsOf(srt) = 2
    <3>1. DivParameters(srt, 4, 2, 6, 6, 3, 1, 8)
      BY <1>4 DEF DivParameters
    <3>2. PICK r, al, n, nbW, nbD, msb, lo :
                r = 4 /\ DivParameters(srt, r, al, n, nbW, nbD, msb, lo)
      BY Zenon, <3>1
    <3> QED BY ZenonT(40), <3>2, DigitBitsAre
  <2>3. PICK n \in Nat, g \in 0..1 : F = 2 * n + g
    <3>1. (F \div 2) \in Nat /\ (F % 2) \in 0..1 /\ F = 2 * (F \div 2) + (F % 2)
      OBVIOUS
    <3> QED BY ZenonT(40), <3>1
  <2>4. (F + 7) \div 2 = n + 3 + g
    BY <2>3
  <2>5. nDigitOf(srt, f) = n + 3 + g
    BY Zenon, <1>1, <2>1, <2>2, <2>4 DEF nDigitOf
  <2>6. PICK i \in Nat : i = n + 2 + g
    OBVIOUS
  <2>7. nDigitOf(srt, f) - 1 = i
    BY <2>5, <2>6
  <2>8. QSizeOf(srt, f) = 2 * i
    BY Zenon, <2>1, <2>2, <2>7 DEF QSizeOf
  <2>9. 2 * i = F + 4 + g /\ 2 * i \in Nat
    BY <2>3, <2>6
  <2>10. g \in Nat /\ 0 \in Nat /\ 1 \in 1..2 /\ 2 # 3 /\ 4 = 4
    OBVIOUS
  <2>11. Pow2[2 * i] * 1 = 16 * (Pow2[f.wF] * Pow2[g])
    <3>1. Pow2[2 * i] \in Nat
      BY <2>9, Pow2Def
    <3>2. Pow2[2 * i] * 1 = Pow2[2 * i]
      BY <3>1
    <3>3. Pow2[F + 4 + g] = 16 * (Pow2[f.wF] * Pow2[g])
      BY <1>3, <2>10
    <3> QED BY Zenon, <2>9, <3>2, <3>3
  <2>12. (0 + g) + (F + 3) <= 2 * i /\ 2 * i - 1 - (F + 3) = 0 + g /\ 2 * i - 1 - 1 = ((0 + g) + (F + 3)) - 1
    BY <2>9
  <2>13. DivWidth(srt, f, i, g, 0, 1)
    BY Zenon, <1>1, <2>1, <2>2, <2>7, <2>8, <2>9, <2>10, <2>11, <2>12 DEF DivWidth
  <2> QED BY Zenon, <2>10, <2>13
<1>5. CASE srt = 43
  <2>1. SRT[srt].radix = 4 /\ SRT[srt].alpha = 3 /\ SRT[srt].extraBit = 6 /\ SRT[srt].qMsbToDiscard = 0
    BY <1>5, SRTIs
  <2>2. DigitBitsOf(srt) = 2
    <3>1. DivParameters(srt, 4, 3, 6, 4, 1, 1, 2)
      BY <1>5 DEF DivParameters
    <3>2. PICK r, al, n, nbW, nbD, msb, lo :
                r = 4 /\ DivParameters(srt, r, al, n, nbW, nbD, msb, lo)
      BY Zenon, <3>1
    <3> QED BY ZenonT(40), <3>2, DigitBitsAre
  <2>3. PICK n \in Nat, o \in 0..1 : F = 2 * n + o
    <3>1. (F \div 2) \in Nat /\ (F % 2) \in 0..1 /\ F = 2 * (F \div 2) + (F % 2)
      OBVIOUS
    <3> QED BY ZenonT(40), <3>1
  <2>4. (F + 6) \div 2 = n + 3
    BY <2>3
  <2>5. nDigitOf(srt, f) = n + 3
    BY Zenon, <1>1, <2>1, <2>2, <2>4 DEF nDigitOf
  <2>6. PICK i \in Nat, g \in Nat : i = n + 2 /\ g = 1 - o
    <3>1. n + 2 \in Nat /\ 1 - o \in Nat
      OBVIOUS
    <3> QED BY Zenon, <3>1
  <2>7. nDigitOf(srt, f) - 1 = i
    BY <2>5, <2>6
  <2>8. QSizeOf(srt, f) = 2 * i
    BY Zenon, <2>1, <2>2, <2>7 DEF QSizeOf
  <2>9. 2 * i = F + 3 + g /\ 2 * i \in Nat
    BY <2>3, <2>6
  <2>10. 0 \in Nat /\ 2 \in 1..2 /\ 3 = 3 /\ 4 = 4
    OBVIOUS
  <2>11. Pow2[2 * i] * 2 = 16 * (Pow2[f.wF] * Pow2[g])
    <3>1. Pow2[F + 3 + g] * 2 = 16 * (Pow2[f.wF] * Pow2[g])
      BY <1>3
    <3> QED BY Zenon, <2>9, <3>1
  <2>12. (0 + g) + (F + 3) <= 2 * i /\ 2 * i - 0 - (F + 3) = 0 + g /\ 2 * i - 1 - 0 = ((0 + g) + (F + 3)) - 1
    BY <2>9
  <2>13. DivWidth(srt, f, i, g, 0, 2)
    BY Zenon, <1>1, <2>1, <2>2, <2>7, <2>8, <2>9, <2>10, <2>11, <2>12 DEF DivWidth
  <2> QED BY Zenon, <2>10, <2>13
<1>6. CASE srt = 87
  <2>1. SRT[srt].radix = 8 /\ SRT[srt].alpha = 7 /\ SRT[srt].extraBit = 9 /\ SRT[srt].qMsbToDiscard = 1
    BY <1>6, SRTIs
  <2>2. DigitBitsOf(srt) = 3
    <3>1. DivParameters(srt, 8, 7, 56, 5, 2, 2, 12)
      BY <1>6 DEF DivParameters
    <3>2. PICK r, al, n, nbW, nbD, msb, lo :
                r = 8 /\ DivParameters(srt, r, al, n, nbW, nbD, msb, lo)
      BY Zenon, <3>1
    <3> QED BY ZenonT(40), <3>2, DigitBitsAre
  <2>3. PICK n \in Nat, o \in 0..2 : F = 3 * n + o
    <3>1. (F \div 3) \in Nat /\ (F % 3) \in 0..2 /\ F = 3 * (F \div 3) + (F % 3)
      OBVIOUS
    <3> QED BY ZenonT(40), <3>1
  <2>4. (F + 9) \div 3 = n + 3
    BY <2>3
  <2>5. nDigitOf(srt, f) = n + 3
    BY Zenon, <1>1, <2>1, <2>2, <2>4 DEF nDigitOf
  <2>6. PICK i \in Nat, g \in Nat : i = n + 2 /\ g = 2 - o
    <3>1. n + 2 \in Nat /\ 2 - o \in Nat
      OBVIOUS
    <3> QED BY Zenon, <3>1
  <2>7. nDigitOf(srt, f) - 1 = i /\ nDigitOf(srt, f) = i + 1
    BY <2>5, <2>6
  <2>8. QSizeOf(srt, f) = 3 * (i + 1)
    <3>1. 8 # 4
      OBVIOUS
    <3> QED BY Zenon, <2>1, <2>2, <2>7, <3>1 DEF QSizeOf
  <2>9. 3 * i = F + 4 + g /\ 3 * (i + 1) = F + 7 + g /\ 3 * i \in Nat /\ 3 * (i + 1) \in Nat
    BY <2>3, <2>6
  <2>10. 3 \in Nat /\ 1 \in 1..2 /\ 7 # 3 /\ 8 # 4
    OBVIOUS
  <2>11. Pow2[3 * i] * 1 = 16 * (Pow2[f.wF] * Pow2[g])
    <3>1. Pow2[3 * i] \in Nat
      BY <2>9, Pow2Def
    <3>2. Pow2[3 * i] * 1 = Pow2[3 * i]
      BY <3>1
    <3>3. Pow2[F + 4 + g] = 16 * (Pow2[f.wF] * Pow2[g])
      BY <1>3
    <3> QED BY Zenon, <2>9, <3>2, <3>3
  <2>12. (3 + g) + (F + 3) <= 3 * (i + 1) /\ 3 * (i + 1) - 1 - (F + 3) = 3 + g
         /\ 3 * (i + 1) - 1 - 1 = ((3 + g) + (F + 3)) - 1
    BY <2>9
  <2>13. DivWidth(srt, f, i, g, 3, 1)
    BY Zenon, <1>1, <2>1, <2>2, <2>7, <2>8, <2>9, <2>10, <2>11, <2>12 DEF DivWidth
  <2> QED BY Zenon, <2>10, <2>13
<1> QED BY <1>2, <1>4, <1>5, <1>6

\* The sign of the last remainder tells whether the quotient is too large by one.
BoundedBy(a, b, e, quo, c, z) ==
  z = (IF c < 0 THEN quo - 1 ELSE quo) /\ z * b <= e * a /\ e * a <= (z + 1) * b

\* With that correction it is the quotient, rounded down, or one less if the division is exact.
LEMMA QuotientBound ==
  ASSUME NEW p \in Nat \ {0}, NEW a \in Nat \ {0}, NEW b \in Nat \ {0}, NEW e \in Nat \ {0}, NEW quo \in Int,
         NEW c \in Int, c = 4 * (p * (e * a - quo * b)), -(4 * (p * b)) <= c, c <= 4 * (p * b)
  PROVE  \E z \in Nat : BoundedBy(a, b, e, quo, c, z)
<1>1. PICK n \in Nat \ {0}, o \in Int, y \in Int : n = e * a /\ o = quo * b /\ y = n - o
  <2>1. e * a \in Nat \ {0} /\ quo * b \in Int
    OBVIOUS
  <2>2. e * a - quo * b \in Int
    BY <2>1
  <2> QED BY Zenon, <2>1, <2>2
<1>2. PICK u \in Int, v \in Int : u = p * y /\ v = p * b
  OBVIOUS
<1>3. c = 4 * u /\ -v <= u /\ u <= v
  <2>1. c = 4 * u /\ -(4 * v) <= c /\ c <= 4 * v
    BY Zenon, <1>1, <1>2
  <2> QED BY <2>1
<1>4. -b <= y /\ y <= b
  <2>1. (p * b < p * y <=> b < y) /\ (p * y < p * (-b) <=> y < -b)
    <3>1. b \in Int /\ -b \in Int
      OBVIOUS
    <3> QED BY <3>1, SameOrder
  <2>2. p * (-b) = -(p * b)
    OBVIOUS
  <2>3. (v < u <=> b < y) /\ (u < -v <=> y < -b)
    BY Zenon, <1>2, <2>1, <2>2
  <2> QED BY <1>3, <2>3
<1>5. c < 0 <=> y < 0
  <2>1. p * y < p * 0 <=> y < 0
    <3>1. 0 \in Int
      OBVIOUS
    <3> QED BY <3>1, SameOrder
  <2>2. p * 0 = 0
    OBVIOUS
  <2>3. u < 0 <=> y < 0
    BY Zenon, <1>2, <2>1, <2>2
  <2> QED BY <1>3, <2>3
<1>6. PICK z \in Int : z = IF c < 0 THEN quo - 1 ELSE quo
  <2>1. quo - 1 \in Int
    OBVIOUS
  <2> QED BY Zenon, <2>1
<1>7. z * b <= n /\ n <= (z + 1) * b
  <2>1. CASE c < 0
    <3>1. z = quo - 1 /\ z + 1 = quo
      BY <1>6, <2>1
    <3>2. (quo - 1) * b = quo * b - b
      OBVIOUS
    <3>3. o - b <= n /\ n <= o
      BY <1>1, <1>4, <1>5, <2>1
    <3> QED BY Zenon, <1>1, <3>1, <3>2, <3>3
  <2>2. CASE ~(c < 0)
    <3>1. z = quo
      BY Zenon, <1>6, <2>2
    <3>2. (quo + 1) * b = quo * b + b
      OBVIOUS
    <3>3. o <= n /\ n <= o + b
      BY <1>1, <1>4, <1>5, <2>2
    <3> QED BY Zenon, <1>1, <3>1, <3>2, <3>3
  <2> QED BY <2>1, <2>2
<1>8. z \in Nat
  <2>1. CASE z + 1 <= 0
    <3>1. b * (z + 1) <= b * 0 /\ b * (z + 1) = (z + 1) * b /\ b * 0 = 0
      BY <2>1, ProductOrder
    <3>2. PICK i \in Int : i = (z + 1) * b
      OBVIOUS
    <3>3. i <= 0 /\ n <= i
      BY Zenon, <1>7, <3>1, <3>2
    <3> QED BY <3>3
  <2> QED BY <2>1
<1>9. BoundedBy(a, b, e, quo, c, z)
  BY Zenon, <1>1, <1>6, <1>7 DEF BoundedBy
<1> QED BY Zenon, <1>8, <1>9

\* The quotient without its last bits, and where they are cut off.
CutTo(w, o, a, b, q, z, l) ==
  q = o * z + l /\ z * b <= (4 * w) * a /\ (4 * w) * a <= (z + 1) * b

\* A quotient stays one when its last bits are cut off.
LEMMA QuotientCut ==
  ASSUME NEW w \in Nat \ {0}, NEW o \in Nat \ {0}, NEW a \in Nat \ {0}, NEW b \in Nat \ {0}, NEW q \in Nat,
         q * b <= ((4 * w) * o) * a, ((4 * w) * o) * a <= (q + 1) * b
  PROVE  \E z \in Nat, l \in 0..(o - 1) : CutTo(w, o, a, b, q, z, l)
<1>1. PICK z \in Nat, l \in 0..(o - 1) : q = o * z + l
  <2>1. \E i \in Nat, r \in 0..(o - 1) : q = o * i + r /\ i = q \div o /\ r = q % o /\ r <= q /\ o * i <= q
    BY ZenonT(60), NaturalDivision
  <2> QED BY Zenon, <2>1
<1>2. PICK n \in Nat, y \in Nat, c \in Nat : n = (4 * w) * a /\ y = z * b /\ c = q * b
  <2>1. (4 * w) * a \in Nat /\ z * b \in Nat /\ q * b \in Nat
    OBVIOUS
  <2> QED BY Zenon, <2>1
<1>3. c <= o * n /\ o * n <= c + b
  <2>1. ((4 * w) * o) * a = o * ((4 * w) * a) /\ (q + 1) * b = q * b + b
    OBVIOUS
  <2> QED BY Zenon, <1>2, <2>1
<1>4. o * y <= c /\ c + b <= o * (y + b)
  <2>1. (o * z + l) * b = o * (z * b) + l * b
    OBVIOUS
  <2>2. PICK i \in Int, j \in Int : i = o * y /\ j = l * b
    OBVIOUS
  <2>3. c = i + j
    BY Zenon, <1>1, <1>2, <2>1, <2>2
  <2>4. o * (y + b) = o * y + o * b
    OBVIOUS
  <2>5. 0 <= l * b /\ (l + 1) * b <= o * b /\ (l + 1) * b = l * b + b
    <3>1. b * (l + 1) <= b * o /\ b * (l + 1) = (l + 1) * b /\ b * o = o * b
      BY ProductOrder
    <3>2. 0 <= l * b /\ (l + 1) * b = l * b + b
      OBVIOUS
    <3> QED BY Zenon, <3>1, <3>2
  <2>6. PICK k \in Int : k = o * b
    OBVIOUS
  <2>7. 0 <= j /\ j + b <= k
    BY Zenon, <2>2, <2>5, <2>6
  <2>8. i <= c /\ c + b <= i + k
    BY <2>3, <2>7
  <2> QED BY Zenon, <2>2, <2>4, <2>6, <2>8
<1>5. y <= n
  <2>1. o * n < o * y <=> n < y
    BY SameOrder
  <2>2. PICK i \in Int, j \in Int : i = o * n /\ j = o * y
    OBVIOUS
  <2>3. ~(i < j)
    <3>1. j <= c /\ c <= i
      BY Zenon, <1>3, <1>4, <2>2
    <3> QED BY <2>2, <3>1
  <2>4. ~(n < y)
    BY Zenon, <2>1, <2>2, <2>3
  <2> QED BY <2>4
<1>6. n <= y + b
  <2>1. o * (y + b) < o * n <=> y + b < n
    <3>1. y + b \in Int
      OBVIOUS
    <3> QED BY <3>1, SameOrder
  <2>2. PICK i \in Int, j \in Int : i = o * n /\ j = o * (y + b)
    OBVIOUS
  <2>3. ~(j < i)
    <3>1. i <= c + b /\ c + b <= j
      BY Zenon, <1>3, <1>4, <2>2
    <3> QED BY <2>2, <3>1
  <2>4. ~(y + b < n)
    BY Zenon, <2>1, <2>2, <2>3
  <2> QED BY <2>4
<1>7. (z + 1) * b = z * b + b
  OBVIOUS
<1>8. CutTo(w, o, a, b, q, z, l)
  BY Zenon, <1>1, <1>2, <1>5, <1>6, <1>7 DEF CutTo
<1> QED BY Zenon, <1>8

\* The bits of the quotient between the corrected ones and the last ones.
CutAt(v, size, k, g, n, z) == Bits(v % Pow2[size], ((k + g) + n) - 1, k + g) = z

\* The slice that leaves them out.
LEMMA CutBits ==
  ASSUME NEW k \in Nat, NEW g \in Nat, NEW n \in Nat, NEW size \in Nat, (k + g) + n <= size,
         NEW z \in Nat, z < Pow2[n], NEW l \in 0..(Pow2[g] - 1), NEW j \in 0..(Pow2[k] - 1),
         NEW v, v = Pow2[k] * (Pow2[g] * z + l) + j
  PROVE  CutAt(v, size, k, g, n, z)
<1>1. PICK p \in Nat \ {0}, o \in Nat \ {0}, m \in Nat \ {0} : p = Pow2[k] /\ o = Pow2[g] /\ m = Pow2[n]
  BY Pow2Def
<1>2. PICK e \in Nat \ {0} : e = p * o /\ e = o * p
  OBVIOUS
<1>3. PICK i \in 0..(e - 1) : i = l * p + j
  <2>1. l \in 0..(o - 1) /\ j \in 0..(p - 1)
    BY Zenon, <1>1
  <2>2. l * p + j \in 0..(o * p - 1)
    BY ZenonT(40), <2>1, TwoDigits
  <2> QED BY Zenon, <1>2, <2>2
<1>4. v = e * z + i
  <2>1. p * (o * z + l) + j = (p * o) * z + (l * p + j)
    <3>1. p * (o * z + l) = (p * o) * z + l * p
      BY <1>1
    <3>2. PICK y \in Int, t \in Int : y = (p * o) * z /\ t = l * p
      BY <1>1
    <3>3. j \in Int
      BY <1>1
    <3>4. (y + t) + j = y + (t + j)
      BY <3>3
    <3> QED BY Zenon, <3>1, <3>2, <3>4
  <2> QED BY Zenon, <1>1, <1>2, <1>3, <2>1
<1>5. v \div e = z
  <2>1. z \in Int
    OBVIOUS
  <2>2. (e * z + i) \div e = z
    BY ZenonT(40), <2>1, DivisionUnique
  <2> QED BY Zenon, <1>4, <2>2
<1>6. k + g \in Nat /\ (k + g) + n \in Nat /\ Pow2[k + g] = e /\ Pow2[(k + g) + n] = e * m
  <2>1. k + g \in Nat /\ (k + g) + n \in Nat
    OBVIOUS
  <2>2. Pow2[k + g] = Pow2[k] * Pow2[g]
    BY Pow2Sum
  <2>3. Pow2[(k + g) + n] = Pow2[k + g] * Pow2[n]
    BY ZenonT(40), <2>1, Pow2Sum
  <2> QED BY Zenon, <1>1, <1>2, <2>1, <2>2, <2>3
<1>7. PICK N \in Nat \ {0} : N = Pow2[size] /\ e * m <= N
  <2>1. Pow2[(k + g) + n] <= Pow2[size]
    BY ZenonT(40), <1>6, Pow2Monotone
  <2>2. Pow2[size] \in Nat \ {0}
    BY Pow2Def
  <2> QED BY Zenon, <1>6, <2>1, <2>2
<1>8. v \in 0..(N - 1)
  <2>1. e * (z + 1) <= e * m
    <3>1. z + 1 <= m /\ z + 1 \in Int /\ m \in Int
      BY <1>1
    <3> QED BY ZenonT(40), <3>1, ProductOrder
  <2>2. e * (z + 1) = e * z + e /\ e * z \in Nat
    OBVIOUS
  <2>3. PICK y \in Nat, t \in Int : y = e * z /\ t = e * m
    <3>1. e * m \in Int
      BY <1>1
    <3> QED BY Zenon, <2>2, <3>1
  <2>4. v = y + i /\ y + e <= t /\ t <= N
    BY Zenon, <1>4, <1>7, <2>1, <2>2, <2>3
  <2> QED BY <2>4
<1>9. v % N = v /\ v \in Int
  <2>1. v \in Int
    BY <1>8
  <2> QED BY ZenonT(40), <1>8, <2>1, SmallRemainder
<1>10. Bits(v, ((k + g) + n) - 1, k + g) = (v \div Pow2[k + g]) % Pow2[n]
  BY ZenonT(40), <1>6, <1>9, BitsDef
<1>11. z % m = z
  <2>1. z \in Int /\ z \in 0..(m - 1)
    BY <1>1
  <2> QED BY ZenonT(40), <2>1, SmallRemainder
<1> QED BY Zenon, <1>1, <1>5, <1>6, <1>7, <1>9, <1>10, <1>11 DEF CutAt

\* The significands of two numbers are in their binade.
LEMMA SignificandsAre ==
  ASSUME NEW f \in DivFormats, NEW x \in Numbers(f), NEW y \in Numbers(f)
  PROVE  \E w \in Nat \ {0}, a \in Nat \ {0}, b \in Nat \ {0} :
           /\ w = Pow2[f.wF] /\ a = Significand(f, x) /\ b = Significand(f, y)
           /\ a \in w..(2 * w - 1) /\ b \in w..(2 * w - 1)
<1>1. NumberFormat(f)
  BY FPDivAssumption DEF FPDivAssumption, NumberFormat
<1>2. PICK w \in Nat \ {0}, g \in Nat \ {0}, ex \in Nat, fx \in Nat : FieldsOf(f, x, w, g, ex, fx)
  BY ZenonT(40), <1>1, NumberFields
<1>3. PICK wy \in Nat \ {0}, gy \in Nat \ {0}, ey \in Nat, fy \in Nat : FieldsOf(f, y, wy, gy, ey, fy)
  BY ZenonT(40), <1>1, NumberFields
<1>4. Pow2[f.wF] = w /\ Significand(f, x) = w + fx /\ fx \in 0..(w - 1)
  BY Zenon, <1>2 DEF FieldsOf
<1>5. Pow2[f.wF] = wy /\ Significand(f, y) = wy + fy /\ fy \in 0..(wy - 1)
  BY Zenon, <1>3 DEF FieldsOf
<1>6. Significand(f, y) = w + fy /\ fy \in 0..(w - 1)
  BY Zenon, <1>4, <1>5
<1>7. /\ w + fx \in Nat \ {0} /\ w + fy \in Nat \ {0}
      /\ w + fx \in w..(2 * w - 1) /\ w + fy \in w..(2 * w - 1)
  BY <1>4, <1>6
<1> QED BY Zenon, <1>4, <1>6, <1>7

\* What is read of the digits is the quotient of the significands, rounded down.
QuotientIs(f, x, y, z) ==
  /\ z \in Nat
  /\ z * Significand(f, y) <= (4 * Pow2[f.wF]) * Significand(f, x)
  /\ (4 * Pow2[f.wF]) * Significand(f, x) <= (z + 1) * Significand(f, y)

\* What is read after the last row is the quotient.
LEMMA QuotientRead ==
  ASSUME NEW srt \in DivRadix, NEW f \in DivFormats, NEW x \in Numbers(f), NEW y \in Numbers(f),
         NEW quo \in Int, NEW rem, DivRemains(srt, f, x, y, nDigitOf(srt, f) - 1, rem, quo)
  PROVE  QuotientIs(f, x, y, SignificandOf(srt, f, rem, quo))
<1>1. PICK i \in Nat, g \in Nat, k \in Nat, s \in 1..2 : DivWidth(srt, f, i, g, k, s)
  BY ZenonT(60), DivWidthIs
<1>2. DivRemains(srt, f, x, y, i, rem, quo)
  BY Zenon, <1>1 DEF DivWidth
<1>3. PICK c \in Int : RemainderReads(srt, f, x, y, i, rem, quo, c)
  BY ZenonT(60), <1>2, RemainderRead
<1>4. PICK r \in Nat, al \in Nat, n \in Nat, nbW \in Nat, nbD \in Nat, msb \in Nat, lo \in Nat, j \in Nat,
           p \in Nat \ {0}, v \in Nat \ {0}, h \in Nat \ {0} :
             DivSetting(srt, f, x, y, r, al, n, nbW, nbD, msb, lo, j, p, v, h)
  BY ZenonT(60), SettingExists
<1>5. PICK w \in Nat \ {0}, a \in Nat \ {0}, b \in Nat \ {0} :
        /\ w = Pow2[f.wF] /\ a = Significand(f, x) /\ b = Significand(f, y)
        /\ a \in w..(2 * w - 1) /\ b \in w..(2 * w - 1)
  BY ZenonT(60), SignificandsAre
<1>6. PrescalingOf(srt, f, y) = p /\ DivParameters(srt, r, al, n, nbW, nbD, msb, lo)
  BY Zenon, <1>4 DEF DivSetting
<1>7. SRT[srt].radix = r /\ SRT[srt].alpha = al
  BY ZenonT(40), <1>6, DigitBitsAre
<1>8. PICK o \in Nat \ {0}, e \in Nat \ {0} : o = Pow2[g] /\ e = (4 * w) * o
  <2>1. PICK u \in Nat \ {0} : u = Pow2[g]
    BY Pow2Def
  <2>2. PICK t \in Nat \ {0} : t = (4 * w) * u
    OBVIOUS
  <2> QED BY Zenon, <2>1, <2>2
<1>9. DivisorOf(srt, f, y) = p * b /\ DividendOf(srt, f, x, y) = (p * a) * s
  <2>1. (IF SRT[srt].alpha = 3 THEN 2 ELSE 1) = s
    BY Zenon, <1>1 DEF DivWidth
  <2> QED BY Zenon, <1>5, <1>6, <2>1 DEF DivisorOf, DividendOf
<1>10. c = 4 * (p * (e * a - quo * b))
  <2>1. PICK t \in Nat : t = Pow2[DigitBitsOf(srt) * i]
    <3>1. DigitBitsOf(srt) \in Nat
      BY ZenonT(40), <1>6, DigitBitsAre
    <3>2. DigitBitsOf(srt) * i \in Nat
      BY <3>1
    <3> QED BY <3>2, Pow2Def
  <2>2. t * s = 16 * (w * o)
    BY Zenon, <1>1, <1>5, <1>8, <2>1 DEF DivWidth
  <2>3. c = t * ((p * a) * s) - 4 * (quo * (p * b))
    BY Zenon, <1>3, <1>9, <2>1 DEF RemainderReads, DivRemainder
  <2>4. t * ((p * a) * s) = (t * s) * (p * a)
    OBVIOUS
  <2>5. (16 * (w * o)) * (p * a) = 4 * (p * (((4 * w) * o) * a)) /\ 4 * (quo * (p * b)) = 4 * (p * (quo * b))
    OBVIOUS
  <2>6. PICK y1 \in Int, y2 \in Int : y1 = e * a /\ y2 = quo * b
    OBVIOUS
  <2>7. 4 * (p * y1) - 4 * (p * y2) = 4 * (p * (y1 - y2))
    OBVIOUS
  <2>8. c = 4 * (p * y1) - 4 * (p * y2)
    BY Zenon, <1>8, <2>2, <2>3, <2>4, <2>5, <2>6
  <2> QED BY Zenon, <2>6, <2>7, <2>8
<1>11. -(4 * (p * b)) <= c /\ c <= 4 * (p * b)
  <2>1. PICK u \in Int : u = p * b
    OBVIOUS
  <2>2. Within(r - 1, al, u, c)
    BY Zenon, <1>3, <1>7, <1>9, <2>1 DEF RemainderReads
  <2>3. -(4 * (al * u)) <= (r - 1) * c /\ (r - 1) * c <= 4 * (al * u)
    BY Zenon, <2>2 DEF Within
  <2>4. 0 <= u
    <3>1. 0 <= p * b
      OBVIOUS
    <3> QED BY Zenon, <2>1, <3>1
  <2>5. -(4 * u) <= c /\ c <= 4 * u
    <3>1. CASE r = 4 /\ al = 2
      <4>1. -(4 * (2 * u)) <= (4 - 1) * c /\ (4 - 1) * c <= 4 * (2 * u)
        BY Zenon, <2>3, <3>1
      <4> QED BY <2>4, <4>1
    <3>2. CASE r = 4 /\ al = 3
      <4>1. -(4 * (3 * u)) <= (4 - 1) * c /\ (4 - 1) * c <= 4 * (3 * u)
        BY Zenon, <2>3, <3>2
      <4> QED BY <2>4, <4>1
    <3>3. CASE r = 8 /\ al = 7
      <4>1. -(4 * (7 * u)) <= (8 - 1) * c /\ (8 - 1) * c <= 4 * (7 * u)
        BY Zenon, <2>3, <3>3
      <4> QED BY <2>4, <4>1
    <3> QED BY <1>6, <3>1, <3>2, <3>3 DEF DivParameters
  <2> QED BY Zenon, <2>1, <2>5
<1>12. PICK q \in Nat : q = (IF c < 0 THEN quo - 1 ELSE quo) /\ q * b <= e * a /\ e * a <= (q + 1) * b
  <2>1. \E t \in Nat : BoundedBy(a, b, e, quo, c, t)
    BY ZenonT(60), <1>10, <1>11, QuotientBound
  <2> QED BY Zenon, <2>1 DEF BoundedBy
<1>13. PICK z \in Nat, l \in 0..(o - 1) :
         q = o * z + l /\ z * b <= (4 * w) * a /\ (4 * w) * a <= (z + 1) * b
  <2>1. q * b <= ((4 * w) * o) * a /\ ((4 * w) * o) * a <= (q + 1) * b
    BY Zenon, <1>8, <1>12
  <2>2. \E t \in Nat, m \in 0..(o - 1) : CutTo(w, o, a, b, q, t, m)
    BY ZenonT(60), <2>1, QuotientCut
  <2> QED BY Zenon, <2>2 DEF CutTo
\* The corrected digits are those of the quotient, followed by the last one.
<1>14. PICK d0 \in 0..(Pow2[k] - 1) : CorrectedOf(srt, f, rem, quo) = Pow2[k] * q + d0
  <2>1. BitOf(rem, DSizeOf(srt, f) + 2) = (IF c >= 0 THEN 0 ELSE 1) /\ (rem = 0 <=> c = 0)
    BY Zenon, <1>3 DEF RemainderReads
  <2>2. CASE r = 4
    <3>1. k = 0 /\ Pow2[0] = 1
      BY Zenon, <1>1, <1>7, <2>2, Pow2Def DEF DivWidth
    <3>2. CorrectedOf(srt, f, rem, quo) = quo - (IF c >= 0 THEN 0 ELSE 1)
      BY Zenon, <1>7, <2>1, <2>2 DEF CorrectedOf
    <3>3. quo - (IF c >= 0 THEN 0 ELSE 1) = 1 * q + 0
      BY <1>12
    <3>4. 0 \in 0..(1 - 1)
      OBVIOUS
    <3> QED BY Zenon, <3>1, <3>2, <3>3, <3>4
  <2>3. CASE r = 8
    <3>1. k = 3 /\ Pow2[3] = 8 /\ r # 4
      <4>1. r # 4
        BY <2>3
      <4> QED BY Zenon, <1>1, <1>7, <4>1, SmallPowers DEF DivWidth
    <3>2. CorrectedOf(srt, f, rem, quo)
            = IF c = 0 THEN 8 * quo ELSE 8 * quo + 2 - 4 * (IF c >= 0 THEN 0 ELSE 1)
      BY Zenon, <1>7, <2>1, <3>1 DEF CorrectedOf
    <3>3. CASE c = 0
      <4>1. 8 * quo = 8 * q + 0 /\ 0 \in 0..(8 - 1)
        BY <1>12, <3>3
      <4> QED BY Zenon, <3>1, <3>2, <3>3, <4>1
    <3>4. CASE c > 0
      <4>1. 8 * quo + 2 - 4 * (IF c >= 0 THEN 0 ELSE 1) = 8 * q + 2 /\ 2 \in 0..(8 - 1) /\ c # 0
        BY <1>12, <3>4
      <4> QED BY Zenon, <3>1, <3>2, <4>1
    <3>5. CASE c < 0
      <4>1. 8 * quo + 2 - 4 * (IF c >= 0 THEN 0 ELSE 1) = 8 * q + 6 /\ 6 \in 0..(8 - 1) /\ c # 0
        BY <1>12, <3>5
      <4> QED BY Zenon, <3>1, <3>2, <4>1
    <3> QED BY <3>3, <3>4, <3>5
  <2> QED BY <1>6, <2>2, <2>3 DEF DivParameters
<1>15. PICK N \in Nat : N = f.wF + 3 /\ z < Pow2[N]
  <2>1. PICK m \in 0..1, hh \in w..(2 * w - 1), u \in 0..1, t \in 0..1 : QuotientDigits(w, a, b, z, m, hh, u, t)
    BY ZenonT(60), <1>5, <1>13, QuotientDigitsAre
  <2>2. z < 8 * w
    BY Zenon, <2>1 DEF QuotientDigits
  <2>3. f.wF \in Nat
    BY FPDivAssumption DEF FPDivAssumption
  <2>4. Pow2[f.wF + 3] = w * 8
    <3>1. 3 \in Nat
      OBVIOUS
    <3>2. Pow2[f.wF + 3] = Pow2[f.wF] * Pow2[3]
      BY ZenonT(40), <2>3, <3>1, Pow2Sum
    <3> QED BY Zenon, <1>5, <3>2, SmallPowers
  <2>5. w * 8 = 8 * w /\ f.wF + 3 \in Nat
    BY <2>3
  <2> QED BY Zenon, <2>2, <2>4, <2>5
<1>16. PICK size \in Nat : /\ size = QSizeOf(srt, f) /\ (k + g) + N <= size
                           /\ size - 1 - SRT[srt].qMsbToDiscard = ((k + g) + N) - 1
                           /\ size - SRT[srt].qMsbToDiscard - N = k + g
  BY Zenon, <1>1, <1>15 DEF DivWidth
<1>17. Bits(CorrectedOf(srt, f, rem, quo) % Pow2[size], ((k + g) + N) - 1, k + g) = z
  <2>1. PICK t : t = CorrectedOf(srt, f, rem, quo)
    OBVIOUS
  <2>2. l \in 0..(Pow2[g] - 1)
    BY Zenon, <1>8
  <2>3. t = Pow2[k] * (Pow2[g] * z + l) + d0
    BY Zenon, <1>8, <1>13, <1>14, <2>1
  <2>4. z < Pow2[N] /\ (k + g) + N <= size
    BY Zenon, <1>15, <1>16
  <2>5. CutAt(t, size, k, g, N, z)
    BY ZenonT(60), <2>2, <2>3, <2>4, CutBits
  <2> QED BY Zenon, <2>1, <2>5 DEF CutAt
<1>18. SignificandOf(srt, f, rem, quo) = z
  BY Zenon, <1>15, <1>16, <1>17 DEF SignificandOf
<1> QED BY Zenon, <1>5, <1>13, <1>18 DEF QuotientIs

\* What the divider sees of the quotient: its leading bit, the fraction behind it, and
\* the bit that rounds it.
DivSees(f, z, m, frac, u) ==
  /\ BitOf(z, f.wF + 2) = m
  /\ Bits(Bits(z, f.wF + m, m), f.wF, 1) = frac
  /\ BitOf(Bits(z, f.wF + m, m), 0) = u

\* These bits are the digits of the quotient.
LEMMA QuotientBits ==
  ASSUME NEW f, NumberFormat(f), NEW w, w = Pow2[f.wF], NEW a, NEW b, NEW z \in Nat, NEW m \in 0..1,
         NEW h \in w..(2 * w - 1), NEW u \in 0..1, NEW t \in 0..1, QuotientDigits(w, a, b, z, m, h, u, t)
  PROVE  DivSees(f, z, m, h - w, u)
<1>1. PICK F \in Nat : F = f.wF
  BY DEF NumberFormat
<1>2. w \in Nat \ {0} /\ Pow2[F] = w /\ Pow2[F + 1] = 2 * w /\ Pow2[F + 2] = 4 * w
  <2>1. F + 1 \in Nat /\ (F + 1) + 1 = F + 2
    OBVIOUS
  <2>2. PICK p \in Nat \ {0} : p = Pow2[F] /\ Pow2[F + 1] = 2 * p
    BY Pow2Def
  <2>3. Pow2[(F + 1) + 1] = 2 * Pow2[F + 1]
    BY <2>1, Pow2Def
  <2>4. Pow2[F + 2] = 2 * (2 * p)
    BY Zenon, <2>1, <2>2, <2>3
  <2>5. w = p
    BY Zenon, <1>1, <2>2
  <2> QED BY <2>2, <2>4, <2>5
<1>3. Pow2[0] = 1 /\ Pow2[1] = 2
  BY Pow2Def
<1>4. PICK y \in Nat : y = 2 * (h - w) + u /\ y < 2 * w
  BY <1>2
<1>5. /\ 2 * w <= z /\ z < 8 * w
      /\ m = 0 => z = y + 2 * w /\ z < 4 * w
      /\ m = 1 => z = 2 * (y + 2 * w) + t /\ 4 * w <= z
  <2>1. /\ 2 * w <= z /\ z < 8 * w
        /\ m = 0 => z = 2 * h + u /\ z < 4 * w
        /\ m = 1 => z = 2 * (2 * h + u) + t /\ 4 * w <= z
    BY Zenon DEF QuotientDigits
  <2>2. 2 * h + u = y + 2 * w
    BY <1>2, <1>4
  <2> QED BY Zenon, <2>1, <2>2
<1>6. BitOf(z, F + 2) = m
  <2>1. BitOf(z, F + 2) = (z \div (4 * w)) % 2
    BY Zenon, <1>2 DEF BitOf
  <2>2. PICK p \in Nat \ {0} : p = 4 * w
    BY <1>2
  <2>3. z < p => z \div p = 0
    BY Z3
  <2>4. p <= z /\ z < 2 * p => z \div p = 1
    BY Z3
  <2>5. 0 % 2 = 0 /\ 1 % 2 = 1
    OBVIOUS
  <2>6. m = 0 => z < p
    BY <1>2, <1>5, <2>2
  <2>7. m = 1 => p <= z /\ z < 2 * p
    BY <1>2, <1>5, <2>2
  <2>8. m = 0 \/ m = 1
    OBVIOUS
  <2> QED BY Zenon, <2>1, <2>2, <2>3, <2>4, <2>5, <2>6, <2>7, <2>8
<1>7. Bits(z, F + m, m) = y
  <2>1. PICK p \in Nat \ {0} : p = 2 * w
    BY <1>2
  <2>2. (y + p) % p = y
    <3>1. p * 1 + y = y + p /\ y \in 0..(p - 1) /\ y + p \in Int /\ 1 \in Int
      BY <1>4, <2>1
    <3> QED BY <3>1, DivisionUnique
  <2>3. CASE m = 0
    <3>1. Bits(z, (0 + (F + 1)) - 1, 0) = (z \div Pow2[0]) % Pow2[F + 1]
      <4>1. z \in Int /\ 0 \in Nat /\ F + 1 \in Nat
        OBVIOUS
      <4> QED BY ZenonT(40), <4>1, BitsDef
    <3>2. (0 + (F + 1)) - 1 = F + 0 /\ z \div 1 = z
      OBVIOUS
    <3>3. Bits(z, F + 0, 0) = z % p
      BY Zenon, <1>2, <1>3, <2>1, <3>1, <3>2
    <3>4. z = y + p
      BY Zenon, <1>5, <2>1, <2>3
    <3> QED BY Zenon, <2>2, <2>3, <3>3, <3>4
  <2>4. CASE m = 1
    <3>1. Bits(z, (1 + (F + 1)) - 1, 1) = (z \div Pow2[1]) % Pow2[F + 1]
      <4>1. z \in Int /\ 1 \in Nat /\ F + 1 \in Nat
        OBVIOUS
      <4> QED BY ZenonT(40), <4>1, BitsDef
    <3>2. (1 + (F + 1)) - 1 = F + 1
      OBVIOUS
    <3>3. Bits(z, F + 1, 1) = (z \div 2) % p
      BY Zenon, <1>2, <1>3, <2>1, <3>1, <3>2
    <3>4. z = 2 * (y + p) + t
      BY Zenon, <1>5, <2>1, <2>4
    <3>5. z \div 2 = y + p
      BY <3>4
    <3> QED BY Zenon, <2>2, <2>4, <3>3, <3>5
  <2>5. m = 0 \/ m = 1
    OBVIOUS
  <2> QED BY Zenon, <2>3, <2>4, <2>5
<1>8. Bits(y, F, 1) = h - w
  <2>1. Bits(y, (1 + F) - 1, 1) = (y \div Pow2[1]) % Pow2[F]
    <3>1. y \in Int /\ 1 \in Nat
      OBVIOUS
    <3> QED BY ZenonT(40), <3>1, BitsDef
  <2>2. (1 + F) - 1 = F
    OBVIOUS
  <2>3. PICK g \in 0..(w - 1) : g = h - w
    BY <1>2
  <2>4. y \div 2 = g
    BY <1>4, <2>3
  <2>5. g % w = g
    BY <1>2, <2>3, Z3
  <2>6. Bits(y, F, 1) = g % w
    BY Zenon, <1>2, <1>3, <2>1, <2>2, <2>4
  <2> QED BY Zenon, <2>3, <2>5, <2>6
<1>9. BitOf(y, 0) = u
  <2>1. y \div 1 = y
    OBVIOUS
  <2>2. PICK g \in Int : g = h - w
    BY <1>2
  <2>3. y = 2 * g + u
    BY Zenon, <1>4, <2>2
  <2>4. y % 2 = u
    BY <2>3
  <2> QED BY Zenon, <1>3, <2>1, <2>4 DEF BitOf
<1> QED BY Zenon, <1>1, <1>6, <1>7, <1>8, <1>9 DEF DivSees

\* The exponent of a quotient, before its carry: m tells whether it is at least one.
LEMMA QuotientExponent ==
  ASSUME NEW f, NumberFormat(f), f.wE >= 2, NEW m
  PROVE  \E l \in Nat \ {0} : /\ Pow2[f.wE] = 2 * l /\ Bias(f) = l - 1
                              /\ Cat(Ones(f.wE - 2), 1, m) = (l - 2) + m
<1>1. PICK D \in Nat : f.wE - 2 = D /\ f.wE = (D + 1) + 1 /\ f.wE - 1 = D + 1
  <2>1. PICK e \in Nat : e = f.wE /\ e >= 2
    BY DEF NumberFormat
  <2>2. e - 2 \in Nat /\ e = ((e - 2) + 1) + 1 /\ e - 1 = (e - 2) + 1
    BY <2>1
  <2> QED BY Zenon, <2>1, <2>2
<1>2. PICK p \in Nat \ {0} : p = Pow2[D] /\ Pow2[D + 1] = 2 * p
  BY Pow2Def
<1>3. Pow2[(D + 1) + 1] = 2 * Pow2[D + 1]
  <2>1. D + 1 \in Nat
    OBVIOUS
  <2> QED BY <2>1, Pow2Def
<1>4. PICK l \in Nat \ {0} : l = 2 * p
  OBVIOUS
<1>5. Pow2[f.wE] = 2 * l /\ Pow2[f.wE - 1] = l /\ Pow2[f.wE - 2] = p
  BY Zenon, <1>1, <1>2, <1>3, <1>4
<1>6. Bias(f) = l - 1
  BY Zenon, <1>5 DEF Bias
<1>7. Cat(Ones(f.wE - 2), 1, m) = (l - 2) + m
  <2>1. Pow2[1] = 2
    BY Pow2Def
  <2>2. (p - 1) * 2 = l - 2
    BY <1>4
  <2> QED BY Zenon, <1>5, <2>1, <2>2 DEF Cat, Ones
<1> QED BY Zenon, <1>5, <1>6, <1>7

\* The result, from the significand that is read.
DivPacked(f, z, x, y) ==
  LET norm == BitOf(z, f.wF + 2)
      fRnorm == Bits(z, f.wF + norm, norm)
      expR1 == (Exponent(f, x) - Exponent(f, y) + Cat(Ones(f.wE - 2), 1, norm)) % Pow2[f.wE + 2]
  IN (Cat(expR1, f.wF, Bits(fRnorm, f.wF, 1)) + BitOf(fRnorm, 0)) % Pow2[f.wE + f.wF + 2]
DivExn(f, v) ==
  IF BitOf(v, f.wE + f.wF + 1) = 1 THEN ZeroExn
  ELSE IF BitOf(v, f.wE + f.wF) = 1 THEN InfExn
  ELSE NormalExn
DivOutput(f, z, x, y) ==
  Encode(f, IF ExnR0(Exn(f, x), Exn(f, y)) = NormalExn THEN DivExn(f, DivPacked(f, z, x, y))
            ELSE ExnR0(Exn(f, x), Exn(f, y)),
         XorBit(Sign(f, x), Sign(f, y)), 0, 0)
    + Bits(DivPacked(f, z, x, y), f.wE + f.wF - 1, 0)

\* The fields of an encoding are in places of their own.
LEMMA EncodedParts ==
  ASSUME NEW f, NumberFormat(f), NEW exn \in 0..3, NEW sign \in 0..1,
         NEW h \in 0..(Pow2[f.wE] - 1), NEW g \in 0..(Pow2[f.wF] - 1)
  PROVE  Encode(f, exn, sign, 0, 0) + (h * Pow2[f.wF] + g) = Encode(f, exn, sign, h, g)
<1>1. PICK G \in Nat \ {0}, w \in Nat \ {0} : G = Pow2[f.wE] /\ w = Pow2[f.wF]
  <2>1. f.wE \in Nat /\ f.wF \in Nat
    BY DEF NumberFormat
  <2> QED BY <2>1, Pow2Def
<1>2. PICK s \in Int : s = exn * Pow2[1] + sign
  <2>1. Pow2[1] = 2
    BY Pow2Def
  <2>2. exn * 2 + sign \in Int
    OBVIOUS
  <2> QED BY Zenon, <2>1, <2>2
<1>3. h \in Int /\ g \in Int
  OBVIOUS
<1>4. ((s * G + 0) * w + 0) + (h * w + g) = (s * G + h) * w + g
  <2>1. PICK t \in Int : t = s * G
    OBVIOUS
  <2>2. ((t + 0) * w + 0) + (h * w + g) = (t + h) * w + g
    BY <1>3
  <2> QED BY Zenon, <2>1, <2>2
<1> QED BY Zenon, <1>1, <1>2, <1>4 DEF Encode, Cat

\* Two normal numbers are divided as the reference does.
LEMMA NormalQuotient ==
  ASSUME NEW f, NumberFormat(f), f.wE >= 2, NEW x \in Numbers(f), NEW y \in Numbers(f),
         Exn(f, x) = NormalExn, Exn(f, y) = NormalExn, NEW z, QuotientIs(f, x, y, z)
  PROVE  FPEqual(f, DivOutput(f, z, x, y), Quotient(f, x, y))
<1>1. PICK w \in Nat \ {0}, G \in Nat \ {0}, ex \in Nat, fx \in Nat : FieldsOf(f, x, w, G, ex, fx)
  BY ZenonT(40), NumberFields
<1>2. PICK wy \in Nat \ {0}, gy \in Nat \ {0}, ey \in Nat, fy \in Nat : FieldsOf(f, y, wy, gy, ey, fy)
  BY ZenonT(40), NumberFields
<1>3. /\ Pow2[f.wF] = w /\ Pow2[f.wE] = G
      /\ Exponent(f, x) = ex /\ ex \in 0..(G - 1) /\ Significand(f, x) = w + fx /\ fx \in 0..(w - 1)
      /\ Sign(f, x) \in 0..1
  BY Zenon, <1>1 DEF FieldsOf
<1>4. /\ Pow2[f.wF] = wy /\ Pow2[f.wE] = gy
      /\ Exponent(f, y) = ey /\ ey \in 0..(gy - 1) /\ Significand(f, y) = wy + fy /\ fy \in 0..(wy - 1)
      /\ Sign(f, y) \in 0..1
  BY Zenon, <1>2 DEF FieldsOf
<1>5. Exponent(f, y) = ey /\ ey \in 0..(G - 1) /\ Significand(f, y) = w + fy /\ fy \in 0..(w - 1)
  BY Zenon, <1>3, <1>4
<1>6. PICK a \in w..(2 * w - 1), b \in w..(2 * w - 1) : a = Significand(f, x) /\ b = Significand(f, y)
  BY <1>3, <1>5
<1>7. z \in Nat /\ z * b <= (4 * w) * a /\ (4 * w) * a <= (z + 1) * b
  BY Zenon, <1>3, <1>6 DEF QuotientIs
<1>8. PICK m \in 0..1, q \in w..(2 * w - 1), u \in 0..1, t \in 0..1 : QuotientDigits(w, a, b, z, m, q, u, t)
  BY ZenonT(60), <1>7, QuotientDigitsAre
<1>9. PICK fr \in 0..(w - 1) : fr = q - w
  OBVIOUS
<1>10. DivSees(f, z, m, fr, u)
  <2>1. DivSees(f, z, m, q - w, u)
    BY ZenonT(60), <1>3, <1>7, <1>8, QuotientBits
  <2> QED BY Zenon, <1>9, <2>1
<1>11. PICK l \in Nat \ {0} : /\ Pow2[f.wE] = 2 * l /\ Bias(f) = l - 1
                              /\ Cat(Ones(f.wE - 2), 1, m) = (l - 2) + m
  BY ZenonT(40), QuotientExponent
<1>12. PICK E \in Int : E = ex - ey + ((l - 2) + m)
  OBVIOUS
<1>13. PICK v : v = ((E % Pow2[f.wE + 2]) * Pow2[f.wF] + fr + u) % Pow2[f.wE + f.wF + 2]
  OBVIOUS
<1>14. PICK sign \in 0..1 : sign = XorBit(Sign(f, x), Sign(f, y))
  <2>1. (Sign(f, x) + Sign(f, y)) % 2 \in 0..1
    BY <1>3, <1>4
  <2> QED BY Zenon, <2>1 DEF XorBit
<1>15. G = 2 * l
  BY Zenon, <1>3, <1>11
<1>16. PICK c \in Int, g \in 0..(Pow2[f.wF] - 1), top \in 0..3, h \in 0..(Pow2[f.wE] - 1) :
         RoundedBits(f, E, fr, u, v, c, g, top, h)
  <2>1. -(2 * G) <= E /\ E < 2 * G /\ (fr + u = w => E + 1 < 2 * G)
    <3>1. ex <= 2 * l - 1 /\ ey <= 2 * l - 1
      BY <1>3, <1>5, <1>15
    <3> QED BY <1>12, <1>15, <3>1
  <2>2. -(2 * Pow2[f.wE]) <= E /\ E < 2 * Pow2[f.wE] /\ (fr + u = Pow2[f.wF] => E + 1 < 2 * Pow2[f.wE])
        /\ fr \in 0..(Pow2[f.wF] - 1)
    BY Zenon, <1>3, <2>1
  <2> QED BY ZenonT(60), <1>13, <2>2, RoundedBitsAre
<1>17. /\ (fr + u = w => c = E + 1 /\ g = 0) /\ (fr + u # w => c = E /\ g = fr + u)
       /\ ResultBits(f, v, c, g, top, h)
  BY Zenon, <1>3, <1>16 DEF RoundedBits
\* The hardware.
<1> DEFINE exn == IF top = 0 THEN NormalExn ELSE IF top = 1 THEN InfExn ELSE ZeroExn
<1>18. DivPacked(f, z, x, y) = v
  <2>1. E = Exponent(f, x) - Exponent(f, y) + Cat(Ones(f.wE - 2), 1, m)
    BY Zenon, <1>3, <1>5, <1>11, <1>12
  <2>2. /\ BitOf(z, f.wF + 2) = m
        /\ Bits(Bits(z, f.wF + m, m), f.wF, 1) = fr
        /\ BitOf(Bits(z, f.wF + m, m), 0) = u
    BY Zenon, <1>10 DEF DivSees
  <2>3. DivPacked(f, z, x, y) = (Cat(E % Pow2[f.wE + 2], f.wF, fr) + u) % Pow2[f.wE + f.wF + 2]
    BY ZenonT(40), <2>1, <2>2 DEF DivPacked
  <2> QED BY Zenon, <1>13, <2>3 DEF Cat
<1>19. /\ BitOf(v, f.wE + f.wF + 1) = top \div 2 /\ BitOf(v, f.wE + f.wF) = top % 2
       /\ Bits(v, f.wE + f.wF - 1, 0) = h * Pow2[f.wF] + g
  BY Zenon, <1>17 DEF ResultBits
<1>20. DivExn(f, v) = exn
  <2>1. (top = 0 \/ top = 1 \/ top = 2 \/ top = 3) /\ 0 \div 2 = 0 /\ 1 \div 2 = 0 /\ 2 \div 2 = 1 /\ 3 \div 2 = 1
        /\ 0 % 2 = 0 /\ 1 % 2 = 1 /\ 0 # 1 /\ 2 # 0 /\ 2 # 1 /\ 3 # 0 /\ 3 # 1
    OBVIOUS
  <2> QED BY Zenon, <1>19, <2>1 DEF DivExn
<1>21. ExnR0(Exn(f, x), Exn(f, y)) = NormalExn
  <2>1. ExnR0(NormalExn, NormalExn) = NormalExn
    BY SMT DEF ExnR0, NormalExn, ZeroExn, InfExn, NaNExn
  <2> QED BY Zenon, <2>1
<1>22. exn \in 0..3
  BY DEF NormalExn, InfExn, ZeroExn
<1> HIDE DEF exn
<1>23. DivOutput(f, z, x, y) = Encode(f, exn, sign, h, g)
  <2>1. DivOutput(f, z, x, y) = Encode(f, exn, sign, 0, 0) + (h * Pow2[f.wF] + g)
    BY Zenon, <1>14, <1>18, <1>19, <1>20, <1>21 DEF DivOutput
  <2>2. Encode(f, exn, sign, 0, 0) + (h * Pow2[f.wF] + g) = Encode(f, exn, sign, h, g)
    BY ZenonT(40), <1>22, EncodedParts
  <2> QED BY Zenon, <2>1, <2>2
\* The reference.
<1>24. Quotient(f, x, y) = Packed(f, sign, c - Bias(f), g)
  <2>1. PICK e \in Int : e = Exponent(f, x) - Exponent(f, y) /\ e = ex - ey
    BY <1>3, <1>5
  <2>2. Quotient(f, x, y) = Rounded(f, sign, a, b, e)
    <3>1. NaNExn # NormalExn /\ InfExn # NormalExn /\ ZeroExn # NormalExn
      BY DEF NaNExn, NormalExn, InfExn, ZeroExn
    <3>2. NaNExn \notin {Exn(f, x), Exn(f, y)}
      BY <3>1
    <3> QED BY Zenon, <1>6, <1>14, <2>1, <3>1, <3>2 DEF Quotient
  <2>3. Expected(f, sign, a, b, e, m, q, u)
    BY ZenonT(100), <1>3, <1>7, <1>8, ReferenceQuotient
  <2>4. Pow2[f.wF + 1] = 2 * w
    <3>1. f.wF \in Nat
      BY DEF NumberFormat
    <3> QED BY Zenon, <1>3, <3>1, Pow2Def
  <2>5. (q + u = 2 * w <=> fr + u = w) /\ (q + u) - w = fr + u
    BY <1>9
  <2>6. ((e - 1) + m) + 1 = (E + 1) - Bias(f) /\ (e - 1) + m = E - Bias(f)
    <3>1. PICK B \in Int : B = Bias(f) /\ B = l - 1
      BY <1>11
    <3>2. ((e - 1) + m) + 1 = (E + 1) - B /\ (e - 1) + m = E - B
      BY <1>12, <2>1, <3>1
    <3> QED BY Zenon, <3>1, <3>2
  <2> QED BY Zenon, <1>3, <1>17, <2>2, <2>3, <2>4, <2>5, <2>6 DEF Expected
<1>25. FPEqual(f, Encode(f, exn, sign, h, g), Packed(f, sign, c - Bias(f), g))
  BY ZenonT(60), <1>17, PackedResult DEF exn
<1> QED BY Zenon, <1>23, <1>24, <1>25

\* The exception that two operands make, unless both are normal.
LEMMA ExceptionIs ==
  ASSUME NEW i \in 0..3, NEW j \in 0..3, ~(i = 1 /\ j = 1)
  PROVE  \E k \in {0, 2, 3} : /\ k = ExnR0(i, j)
                              /\ k = 3 <=> 3 \in {i, j} \/ (i = j /\ i # 1)
                              /\ k # 3 => (k = 2 <=> i = 2 \/ j = 0) /\ (k = 0 <=> i = 0 \/ j = 2)
<1>1. (i = 0 \/ i = 1 \/ i = 2 \/ i = 3) /\ (j = 0 \/ j = 1 \/ j = 2 \/ j = 3)
  OBVIOUS
<1>2. ZeroExn = 0 /\ NormalExn = 1 /\ InfExn = 2 /\ NaNExn = 3
  BY DEF ZeroExn, NormalExn, InfExn, NaNExn
<1>3. ASSUME NEW p, NEW q
      PROVE  /\ <<i, j>> = <<p, q>> <=> i = p /\ j = q
  OBVIOUS
<1>4. CASE 3 \in {i, j} \/ (i = j /\ i # 1)
  <2>1. ~(<<i, j>> = <<1, 1>>) /\ ~(<<i, j>> \in {<<0, 1>>, <<0, 2>>, <<1, 2>>})
        /\ ~(<<i, j>> \in {<<1, 0>>, <<2, 0>>, <<2, 1>>})
    BY <1>1, <1>4
  <2>2. ExnR0(i, j) = 3
    BY <1>2, <2>1 DEF ExnR0
  <2> QED BY <1>4, <2>2
<1>5. CASE <<i, j>> \in {<<0, 1>>, <<0, 2>>, <<1, 2>>}
  <2>1. ~(<<i, j>> = <<1, 1>>) /\ ~(<<i, j>> \in {<<1, 0>>, <<2, 0>>, <<2, 1>>})
    BY <1>1, <1>5
  <2>2. ExnR0(i, j) = 0
    BY <1>2, <1>5, <2>1 DEF ExnR0
  <2> QED BY <1>1, <1>5, <2>2
<1>6. CASE <<i, j>> \in {<<1, 0>>, <<2, 0>>, <<2, 1>>}
  <2>1. ~(<<i, j>> = <<1, 1>>) /\ ~(<<i, j>> \in {<<0, 1>>, <<0, 2>>, <<1, 2>>})
    BY <1>1, <1>6
  <2>2. ExnR0(i, j) = 2
    BY <1>2, <1>6, <2>1 DEF ExnR0
  <2> QED BY <1>1, <1>6, <2>2
<1> QED BY <1>1, <1>4, <1>5, <1>6

\* Whatever the operands, the vector that holds the result's exponent and fraction is an integer.
LEMMA DivPackedType ==
  ASSUME NEW f, NumberFormat(f), f.wE >= 2, NEW x \in Numbers(f), NEW y \in Numbers(f), NEW z \in Nat
  PROVE  DivPacked(f, z, x, y) \in Int
<1>1. PICK m \in 0..1 : m = BitOf(z, f.wF + 2)
  <2>1. z \in Int /\ f.wF + 2 \in Nat
    BY DEF NumberFormat
  <2> QED BY ZenonT(40), <2>1, BitOfType
<1>2. PICK r \in Nat : r = Bits(z, f.wF + m, m)
  <2>1. z \in Int /\ f.wF + m \in Int /\ m \in Nat
    BY DEF NumberFormat
  <2> QED BY ZenonT(40), <2>1, BitsType
<1>3. PICK fr \in Nat : fr = Bits(r, f.wF, 1)
  <2>1. r \in Int /\ f.wF \in Int /\ 1 \in Nat
    BY DEF NumberFormat
  <2> QED BY ZenonT(40), <2>1, BitsType
<1>4. PICK u \in 0..1 : u = BitOf(r, 0)
  <2>1. r \in Int /\ 0 \in Nat
    OBVIOUS
  <2> QED BY ZenonT(40), <2>1, BitOfType
<1>5. PICK ex \in Nat, ey \in Nat : ex = Exponent(f, x) /\ ey = Exponent(f, y)
  <2>1. PICK w \in Nat \ {0}, G \in Nat \ {0}, e \in Nat, frac \in Nat : FieldsOf(f, x, w, G, e, frac)
    BY ZenonT(40), NumberFields
  <2>2. PICK w2 \in Nat \ {0}, G2 \in Nat \ {0}, e2 \in Nat, frac2 \in Nat : FieldsOf(f, y, w2, G2, e2, frac2)
    BY ZenonT(40), NumberFields
  <2> QED BY Zenon, <2>1, <2>2 DEF FieldsOf
<1>6. PICK l \in Nat \ {0} : Cat(Ones(f.wE - 2), 1, m) = (l - 2) + m
  BY ZenonT(40), QuotientExponent
<1>7. PICK p \in Nat \ {0}, o \in Nat \ {0}, w \in Nat \ {0} :
        p = Pow2[f.wE + 2] /\ o = Pow2[f.wE + f.wF + 2] /\ w = Pow2[f.wF]
  <2>1. f.wF \in Nat /\ f.wE + 2 \in Nat /\ f.wE + f.wF + 2 \in Nat
    BY DEF NumberFormat
  <2> QED BY <2>1, Pow2Def
<1>8. PICK e \in Int : e = (ex - ey + ((l - 2) + m)) % p
  <2>1. ex - ey + ((l - 2) + m) \in Int
    OBVIOUS
  <2> QED BY <2>1
<1>9. ((e * w + fr) + u) % o \in Int
  <2>1. (e * w + fr) + u \in Int
    OBVIOUS
  <2> QED BY <2>1
<1>10. DivPacked(f, z, x, y) = ((e * w + fr) + u) % o
  BY ZenonT(40), <1>1, <1>2, <1>3, <1>4, <1>5, <1>6, <1>7, <1>8 DEF DivPacked, Cat
<1> QED BY Zenon, <1>9, <1>10

\* All the bits of a number below its sign, as an exponent and a fraction.
LEMMA FreeVector ==
  ASSUME NEW f, NumberFormat(f), NEW v \in Int
  PROVE  \E h \in 0..(Pow2[f.wE] - 1), g \in 0..(Pow2[f.wF] - 1) :
           Bits(v, f.wE + f.wF - 1, 0) = h * Pow2[f.wF] + g
<1>1. PICK D \in Nat, F \in Nat : D = f.wE /\ F = f.wF
  BY DEF NumberFormat
<1>2. PICK G \in Nat \ {0}, w \in Nat \ {0} : G = Pow2[D] /\ w = Pow2[F] /\ Pow2[D + F] = G * w
  <2>1. PICK p \in Nat \ {0}, o \in Nat \ {0} : p = Pow2[D] /\ o = Pow2[F]
    BY Pow2Def
  <2>2. Pow2[D + F] = Pow2[D] * Pow2[F]
    BY ZenonT(40), Pow2Sum
  <2> QED BY Zenon, <2>1, <2>2
<1>3. PICK n \in 0..(G * w - 1) : n = Bits(v, D + F - 1, 0)
  <2>1. D + F \in Nat /\ 0 \in Nat /\ (0 + (D + F)) - 1 = D + F - 1
    OBVIOUS
  <2>2. Bits(v, (0 + (D + F)) - 1, 0) \in 0..(Pow2[D + F] - 1)
    BY ZenonT(40), <2>1, BitsDef
  <2> QED BY Zenon, <1>2, <2>1, <2>2
<1>4. PICK h \in Nat, g \in 0..(w - 1) : n = w * h + g
  <2>1. n \in Nat
    <3>1. G * w \in Nat
      OBVIOUS
    <3> QED BY <3>1
  <2>2. \E q \in Nat, r \in 0..(w - 1) : n = w * q + r /\ q = n \div w /\ r = n % w /\ r <= n /\ w * q <= n
    BY ZenonT(60), <2>1, NaturalDivision
  <2> QED BY Zenon, <2>2
<1>5. h < G
  <2>1. w * h <= n /\ n < G * w
    <3>1. PICK c \in Int, e \in Int : c = w * h /\ e = G * w
      OBVIOUS
    <3>2. c <= n /\ n < e
      BY <1>3, <1>4, <3>1
    <3> QED BY Zenon, <3>1, <3>2
  <2>2. G <= h => w * G <= w * h
    BY ProductOrder
  <2>3. w * G = G * w
    OBVIOUS
  <2>4. PICK c \in Int, e \in Int : c = w * h /\ e = G * w
    OBVIOUS
  <2>5. c < e /\ (G <= h => e <= c)
    <3>1. c <= n /\ n < e
      BY Zenon, <2>1, <2>4
    <3>2. G <= h => e <= c
      BY Zenon, <2>2, <2>3, <2>4
    <3> QED BY <3>1, <3>2
  <2> QED BY <2>5
<1>6. h \in 0..(Pow2[f.wE] - 1) /\ g \in 0..(Pow2[f.wF] - 1)
  <2>1. h \in 0..(G - 1)
    BY <1>5
  <2> QED BY Zenon, <1>1, <1>2, <2>1
<1>7. Bits(v, f.wE + f.wF - 1, 0) = h * Pow2[f.wF] + g
  <2>1. w * h = h * w
    OBVIOUS
  <2> QED BY Zenon, <1>1, <1>2, <1>3, <1>4, <2>1
<1> QED BY Zenon, <1>6, <1>7

\* Exceptional operands: the other bits of the result are free.
LEMMA ExceptionalQuotient ==
  ASSUME NEW f, NumberFormat(f), f.wE >= 2, NEW x \in Numbers(f), NEW y \in Numbers(f), NEW z \in Nat,
         ~(Exn(f, x) = NormalExn /\ Exn(f, y) = NormalExn)
  PROVE  FPEqual(f, DivOutput(f, z, x, y), Quotient(f, x, y))
<1>1. PICK i \in 0..3, j \in 0..3, a \in 0..1, b \in 0..1 :
        i = Exn(f, x) /\ j = Exn(f, y) /\ a = Sign(f, x) /\ b = Sign(f, y)
  <2>1. PICK w \in Nat \ {0}, G \in Nat \ {0}, e \in Nat, frac \in Nat : FieldsOf(f, x, w, G, e, frac)
    BY ZenonT(40), NumberFields
  <2>2. PICK w2 \in Nat \ {0}, G2 \in Nat \ {0}, e2 \in Nat, frac2 \in Nat : FieldsOf(f, y, w2, G2, e2, frac2)
    BY ZenonT(40), NumberFields
  <2> QED BY Zenon, <2>1, <2>2 DEF FieldsOf
<1>2. ZeroExn = 0 /\ NormalExn = 1 /\ InfExn = 2 /\ NaNExn = 3
  BY DEF ZeroExn, NormalExn, InfExn, NaNExn
<1>3. ~(i = 1 /\ j = 1)
  BY Zenon, <1>1, <1>2
<1>4. PICK sign \in 0..1 : sign = XorBit(Sign(f, x), Sign(f, y))
  <2>1. (a + b) % 2 \in 0..1
    OBVIOUS
  <2> QED BY Zenon, <1>1, <2>1 DEF XorBit
<1>5. PICK k \in {0, 2, 3} : /\ k = ExnR0(i, j)
                             /\ k = 3 <=> 3 \in {i, j} \/ (i = j /\ i # 1)
                             /\ k # 3 => (k = 2 <=> i = 2 \/ j = 0) /\ (k = 0 <=> i = 0 \/ j = 2)
  BY ZenonT(60), <1>3, ExceptionIs
\* The hardware gives an encoding of that exception.
<1>6. PICK h \in 0..(Pow2[f.wE] - 1), g \in 0..(Pow2[f.wF] - 1) : DivOutput(f, z, x, y) = Encode(f, k, sign, h, g)
  <2>1. PICK v \in Int : v = DivPacked(f, z, x, y)
    BY ZenonT(40), DivPackedType
  <2>2. PICK h \in 0..(Pow2[f.wE] - 1), g \in 0..(Pow2[f.wF] - 1) :
          Bits(v, f.wE + f.wF - 1, 0) = h * Pow2[f.wF] + g
    BY ZenonT(40), FreeVector
  <2>3. k \in 0..3 /\ k # 1
    OBVIOUS
  <2>4. DivOutput(f, z, x, y) = Encode(f, k, sign, 0, 0) + (h * Pow2[f.wF] + g)
    BY Zenon, <1>1, <1>2, <1>4, <1>5, <2>1, <2>2, <2>3 DEF DivOutput
  <2>5. Encode(f, k, sign, 0, 0) + (h * Pow2[f.wF] + g) = Encode(f, k, sign, h, g)
    BY ZenonT(40), <2>3, EncodedParts
  <2> QED BY Zenon, <2>4, <2>5
\* And so does the reference.
<1>7. 0 \in 0..(Pow2[f.wE] - 1) /\ 0 \in 0..(Pow2[f.wF] - 1) /\ 3 \in 0..3 /\ 0 \in 0..1
  <2>1. f.wE \in Nat /\ f.wF \in Nat
    BY DEF NumberFormat
  <2>2. Pow2[f.wE] \in Nat \ {0} /\ Pow2[f.wF] \in Nat \ {0}
    BY <2>1, Pow2Def
  <2> QED BY <2>2
<1>8. Quotient(f, x, y) = IF 3 \in {i, j} \/ (i = j /\ i # 1) THEN NaN(f)
                          ELSE IF i = 2 \/ j = 0 THEN Infinity(f, sign)
                          ELSE IF i = 0 \/ j = 2 THEN Zero(f, sign)
                          ELSE Quotient(f, x, y)
  BY ZenonT(40), <1>1, <1>2, <1>4 DEF Quotient
<1>9. CASE k = 3
  <2>1. Quotient(f, x, y) = Encode(f, 3, 0, 0, 0)
    BY Zenon, <1>2, <1>5, <1>8, <1>9 DEF NaN
  <2>2. Exn(f, Encode(f, 3, 0, 0, 0)) = 3
    BY <1>7, EncodedFields
  <2>3. Exn(f, Encode(f, 3, sign, h, g)) = 3
    BY <1>7, EncodedFields
  <2>4. 3 # 1
    OBVIOUS
  <2> DEFINE v == Encode(f, 3, sign, h, g)
             o == Encode(f, 3, 0, 0, 0)
  <2> HIDE DEF v, o
  <2>5. Exn(f, v) = 3 /\ Exn(f, o) = 3
    BY Zenon, <2>2, <2>3 DEF v, o
  <2>6. FPEqual(f, v, o)
    BY Zenon, <1>2, <2>4, <2>5 DEF FPEqual
  <2> QED BY Zenon, <1>6, <1>9, <2>1, <2>6 DEF v, o
<1>10. CASE k = 2
  <2>1. 2 # 3 /\ 2 \in {0, 2, 3}
    OBVIOUS
  <2>2. Quotient(f, x, y) = Encode(f, 2, sign, 0, 0)
    BY Zenon, <1>2, <1>5, <1>8, <1>10, <2>1 DEF Infinity
  <2>3. OtherAgree(f, sign, 2, h, g, 0, 0)
    BY ZenonT(40), <1>7, <2>1, EncodingsAgree
  <2> QED BY Zenon, <1>6, <1>10, <2>2, <2>3 DEF OtherAgree
<1>11. CASE k = 0
  <2>1. 0 # 3 /\ 0 # 2 /\ 0 \in {0, 2, 3}
    OBVIOUS
  <2>2. Quotient(f, x, y) = Encode(f, 0, sign, 0, 0)
    BY Zenon, <1>2, <1>5, <1>8, <1>11, <2>1 DEF Zero
  <2>3. OtherAgree(f, sign, 0, h, g, 0, 0)
    BY ZenonT(40), <1>7, <2>1, EncodingsAgree
  <2> QED BY Zenon, <1>6, <1>11, <2>2, <2>3 DEF OtherAgree
<1> QED BY <1>9, <1>10, <1>11

\* A division of two numbers, with the rows that are done.
DivState(srt, f, x, y) ==
  /\ divider = [srt |-> srt, f |-> f] /\ operands = <<x, y>>
  /\ row \in 0..(nDigitOf(srt, f) - 1) /\ quotient \in Int
  /\ DivRemains(srt, f, x, y, nDigitOf(srt, f) - 1 - row, remainder, quotient)
  /\ divOut # -1 => FPEqual(f, divOut, Quotient(f, x, y))
DivInv ==
  /\ DivIdle => quotient = 0 /\ divOut = -1
  /\ ~DivIdle => \E srt \in DivRadix, f \in DivFormats : \E x \in Numbers(f), y \in Numbers(f) : DivState(srt, f, x, y)

\* What the divider computes is what its parameters and operands make of the state.
DivNames(srt, f, x, y) ==
  /\ param = SRT[srt] /\ divFormat = f /\ DivX = x /\ DivY = y
  /\ DigitBits = DigitBitsOf(srt) /\ nDigit = nDigitOf(srt, f)
  /\ Divisor = DivisorOf(srt, f, y) /\ Dividend = DividendOf(srt, f, x, y)
  /\ DSize = DSizeOf(srt, f) /\ SubSize = DSizeOf(srt, f) + 3 /\ SubSize - 1 = DSizeOf(srt, f) + 2
  /\ SelFunction[divider.srt][Selector] = RowDigit(srt, f, y, remainder)
  /\ DivResult = DivOutput(f, SignificandOf(srt, f, remainder, quotient), x, y)

\* The definitions agree when the divider and its operands are given.
LEMMA DivNamesAre ==
  ASSUME NEW srt \in DivRadix, NEW f \in DivFormats, NEW x \in Numbers(f), NEW y \in Numbers(f),
         divider = [srt |-> srt, f |-> f], operands = <<x, y>>
  PROVE  DivNames(srt, f, x, y)
<1>1. divider.srt = srt /\ param = SRT[srt] /\ divFormat = f /\ DivX = x /\ DivY = y
  BY DEF param, divFormat, DivX, DivY
<1>2. DigitBits = DigitBitsOf(srt)
  BY Zenon, <1>1 DEF DigitBits, DigitBitsOf
<1>3. nDigit = nDigitOf(srt, f)
  BY Zenon, <1>1, <1>2 DEF nDigit, nDigitOf
<1>4. Prescaling = PrescalingOf(srt, f, y)
  BY Zenon, <1>1 DEF Prescaling, PrescalingOf
<1>5. Divisor = DivisorOf(srt, f, y) /\ Dividend = DividendOf(srt, f, x, y)
  BY Zenon, <1>1, <1>4 DEF Divisor, DivisorOf, Dividend, DividendOf
<1>6. DSize = DSizeOf(srt, f)
  BY Zenon, <1>1 DEF DSize, DSizeOf
<1>7. SubSize = DSizeOf(srt, f) + 3
  BY Zenon, <1>6 DEF SubSize
<1>8. SubSize - 1 = DSizeOf(srt, f) + 2
  <2>1. PICK D \in Int : D = DSizeOf(srt, f)
    <3>1. f.wF \in Nat
      BY FPDivAssumption DEF FPDivAssumption
    <3>2. f.wF + 1 + 2 \in Int /\ f.wF + 1 + 0 \in Int
      BY <3>1
    <3> QED BY Zenon, <3>2 DEF DSizeOf
  <2>2. (D + 3) - 1 = D + 2
    OBVIOUS
  <2> QED BY Zenon, <1>7, <2>1, <2>2
<1>9. SelFunction[divider.srt][Selector] = RowDigit(srt, f, y, remainder)
  <2>1. Selector = Cat(Bits(remainder, DSizeOf(srt, f) + 3 - 1, DSizeOf(srt, f) + 3 - SRT[srt].nbBitsW), SRT[srt].nbBitsD,
                       Bits(DivisorOf(srt, f, y), DSizeOf(srt, f) - SRT[srt].dMsb - 1,
                            DSizeOf(srt, f) - SRT[srt].dMsb - SRT[srt].nbBitsD))
    <3>1. Selector = Cat(Bits(remainder, SubSize - 1, SubSize - SRT[srt].nbBitsW), SRT[srt].nbBitsD,
                         Bits(Divisor, DSize - SRT[srt].dMsb - 1, DSize - SRT[srt].dMsb - SRT[srt].nbBitsD))
      BY Zenon, <1>1 DEF Selector
    <3>2. SubSize - 1 = DSizeOf(srt, f) + 3 - 1 /\ SubSize - SRT[srt].nbBitsW = DSizeOf(srt, f) + 3 - SRT[srt].nbBitsW
      <4>1. PICK D \in Int, k \in Int : D = DSizeOf(srt, f) /\ k = SRT[srt].nbBitsW
        <5>1. f.wF + 1 + 2 \in Int /\ f.wF + 1 + 0 \in Int
          BY FPDivAssumption DEF FPDivAssumption
        <5>2. DSizeOf(srt, f) \in Int
          BY Zenon, <5>1 DEF DSizeOf
        <5>3. SRT[srt].nbBitsW \in Int
          BY FPDivAssumption, SRTIs DEF FPDivAssumption
        <5> QED BY Zenon, <5>2, <5>3
      <4>2. (D + 3) - 1 = D + 3 - 1 /\ (D + 3) - k = D + 3 - k
        OBVIOUS
      <4> QED BY Zenon, <1>7, <4>1, <4>2
    <3> QED BY Zenon, <1>5, <1>6, <3>1, <3>2
  <2> QED BY ZenonT(60), <1>1, <2>1 DEF RowDigit
<1>10. QSize = QSizeOf(srt, f)
  BY Zenon, <1>1, <1>2, <1>3 DEF QSize, QSizeOf
<1>11. Corrected = CorrectedOf(srt, f, remainder, quotient)
  BY Zenon, <1>1, <1>8 DEF Corrected, CorrectedOf
<1>12. PICK z : z = SignificandOf(srt, f, remainder, quotient)
  OBVIOUS
<1>13. Bits(Corrected % Pow2[QSize], QSize - 1 - param.qMsbToDiscard, QSize - param.qMsbToDiscard - (f.wF + 3)) = z
  BY Zenon, <1>1, <1>10, <1>11, <1>12 DEF SignificandOf
<1>14. DivResult = DivOutput(f, z, x, y)
  BY ZenonT(100), <1>1, <1>13 DEF DivResult, DivOutput, DivExn, DivPacked
<1> QED BY Zenon, <1>1, <1>2, <1>3, <1>5, <1>6, <1>7, <1>8, <1>9, <1>12, <1>14 DEF DivNames

\* The last row gives the rounded quotient.
LEMMA LastRowIs ==
  ASSUME NEW srt \in DivRadix, NEW f \in DivFormats, NEW x \in Numbers(f), NEW y \in Numbers(f),
         NEW quo \in Int, NEW rem, DivRemains(srt, f, x, y, nDigitOf(srt, f) - 1, rem, quo)
  PROVE  FPEqual(f, DivOutput(f, SignificandOf(srt, f, rem, quo), x, y), Quotient(f, x, y))
<1>1. PICK z : z = SignificandOf(srt, f, rem, quo)
  OBVIOUS
<1>2. QuotientIs(f, x, y, z)
  BY ZenonT(60), <1>1, QuotientRead
<1>3. NumberFormat(f) /\ f.wE >= 2
  BY FPDivAssumption DEF FPDivAssumption, NumberFormat
<1>4. CASE Exn(f, x) = NormalExn /\ Exn(f, y) = NormalExn
  <2>1. FPEqual(f, DivOutput(f, z, x, y), Quotient(f, x, y))
    BY ZenonT(60), <1>2, <1>3, <1>4, NormalQuotient
  <2> QED BY Zenon, <1>1, <2>1
<1>5. CASE ~(Exn(f, x) = NormalExn /\ Exn(f, y) = NormalExn)
  <2>1. z \in Nat
    BY Zenon, <1>2 DEF QuotientIs
  <2>2. FPEqual(f, DivOutput(f, z, x, y), Quotient(f, x, y))
    BY ZenonT(60), <1>3, <1>5, <2>1, ExceptionalQuotient
  <2> QED BY Zenon, <1>1, <2>2
<1> QED BY Zenon, <1>4, <1>5

\* Two numbers enter.
LEMMA DivEnters ==
  ASSUME DivInv, NEW srt \in DivRadix, NEW f \in DivFormats, NEW x \in DivSample(f), NEW y \in DivSample(f),
         Divide(srt, f, x, y)
  PROVE  DivInv'
<1>1. x \in Numbers(f) /\ y \in Numbers(f)
  <2>1. DivSample(f) \subseteq CanonicalNumbers(f)
    BY FPDivAssumption DEF FPDivAssumption
  <2> QED BY <2>1 DEF CanonicalNumbers
<1>2. DivIdle /\ quotient' = 0 /\ divOut' = -1
  BY DEF Divide, DivInv
<1>3. divider' = [srt |-> srt, f |-> f] /\ operands' = <<x, y>> /\ row' = nDigit' - 1 /\ remainder' = Dividend'
  BY DEF Divide
<1>4. param' = SRT[srt] /\ divFormat' = f /\ DivX' = x /\ DivY' = y
  BY <1>3 DEF param, divFormat, DivX, DivY
<1>5. nDigit' = nDigitOf(srt, f)
  <2>1. DigitBits' = DigitBitsOf(srt)
    BY Zenon, <1>4 DEF DigitBits, DigitBitsOf
  <2> QED BY Zenon, <1>4, <2>1 DEF nDigit, nDigitOf
<1>6. Dividend' = DividendOf(srt, f, x, y)
  <2>1. Prescaling' = PrescalingOf(srt, f, y)
    BY Zenon, <1>4 DEF Prescaling, PrescalingOf
  <2> QED BY Zenon, <1>4, <2>1 DEF Dividend, DividendOf
<1>7. DivRemains(srt, f, x, y, 0, DividendOf(srt, f, x, y), 0)
  BY ZenonT(40), <1>1, FirstRemainder
<1>8. PICK i \in Nat : nDigitOf(srt, f) - 1 = i
  BY ZenonT(40), DivWidthIs DEF DivWidth
<1>9. i - i = 0 /\ i \in 0..i /\ 0 \in Int
  OBVIOUS
<1>10. row' = i /\ nDigitOf(srt, f) - 1 - row' = 0
  BY Zenon, <1>3, <1>5, <1>8, <1>9
<1>11. DivState(srt, f, x, y)'
  BY Zenon, <1>2, <1>3, <1>6, <1>7, <1>8, <1>9, <1>10 DEF DivState
<1>12. ~DivIdle'
  <2>1. divider'.srt = srt
    BY <1>3
  <2>2. [srt |-> srt, f |-> f] # <<>>
    OBVIOUS
  <2> QED BY Zenon, <1>3, <2>2 DEF DivIdle
<1> QED BY Zenon, <1>1, <1>11, <1>12 DEF DivInv

\* A row leaves what it should, and the last one gives the result.
LEMMA DivStepInv ==
  ASSUME DivInv, SRTRow \/ LastRow
  PROVE  DivInv'
<1>1. ~DivIdle
  BY DEF SRTRow, LastRow
<1>2. PICK srt \in DivRadix, f \in DivFormats : \E x \in Numbers(f), y \in Numbers(f) : DivState(srt, f, x, y)
  BY Zenon, <1>1 DEF DivInv
<1>3. PICK x \in Numbers(f), y \in Numbers(f) : DivState(srt, f, x, y)
  BY Zenon, <1>2
<1>4. /\ divider = [srt |-> srt, f |-> f] /\ operands = <<x, y>>
      /\ row \in 0..(nDigitOf(srt, f) - 1) /\ quotient \in Int
      /\ DivRemains(srt, f, x, y, nDigitOf(srt, f) - 1 - row, remainder, quotient)
      /\ divOut # -1 => FPEqual(f, divOut, Quotient(f, x, y))
  BY Zenon, <1>3 DEF DivState
<1>5. DivNames(srt, f, x, y)
  BY ZenonT(40), <1>4, DivNamesAre
<1>6. PICK n \in Nat : nDigitOf(srt, f) - 1 = n
  BY ZenonT(40), DivWidthIs DEF DivWidth
<1>7. row \in 0..n /\ DivRemains(srt, f, x, y, n - row, remainder, quotient)
  BY Zenon, <1>4, <1>6
<1>8. CASE SRTRow
  <2>1. row > 0 /\ row' = row - 1 /\ divider' = divider /\ operands' = operands /\ divOut' = divOut
    BY <1>8 DEF SRTRow
  <2>2. PICK i \in Nat : i = n - row /\ n - row' = i + 1 /\ row' \in 0..n
    BY <1>7, <2>1
  <2>3. PICK q : q = RowDigit(srt, f, y, remainder)
    OBVIOUS
  <2>4. RowLeaves(srt, f, x, y, i, remainder, quotient, q)
    <3>1. DivRemains(srt, f, x, y, i, remainder, quotient)
      BY Zenon, <1>7, <2>2
    <3> QED BY ZenonT(60), <1>4, <2>3, <3>1, NextRemainder
  <2>5. remainder' = RowRemainder(srt, f, y, remainder, q) /\ quotient' = quotient * SRT[srt].radix + q
    BY Zenon, <1>5, <1>8, <2>3 DEF SRTRow, DivNames, RowRemainder
  <2>6. q \in Int /\ DivRemains(srt, f, x, y, i + 1, remainder', quotient')
    BY Zenon, <2>4, <2>5 DEF RowLeaves
  <2>7. quotient' \in Int
    <3>1. SRT[srt].radix \in Int
      BY FPDivAssumption, SRTIs DEF FPDivAssumption
    <3> QED BY <1>4, <2>5, <2>6, <3>1
  <2>8. DivState(srt, f, x, y)'
    BY Zenon, <1>4, <1>6, <2>1, <2>2, <2>6, <2>7 DEF DivState
  <2>9. ~DivIdle'
    BY Zenon, <1>1, <2>1 DEF DivIdle
  <2> QED BY Zenon, <2>8, <2>9 DEF DivInv
<1>9. CASE LastRow
  <2>1. row = 0 /\ divOut' = DivResult /\ UNCHANGED <<divider, operands, row, remainder, quotient>>
    BY <1>9 DEF LastRow
  <2>2. /\ divider' = divider /\ operands' = operands /\ row' = row
        /\ remainder' = remainder /\ quotient' = quotient
    BY <2>1
  <2>3. n - 0 = n
    OBVIOUS
  <2>4. DivRemains(srt, f, x, y, nDigitOf(srt, f) - 1, remainder, quotient)
    BY Zenon, <1>6, <1>7, <2>1, <2>3
  <2>5. FPEqual(f, DivOutput(f, SignificandOf(srt, f, remainder, quotient), x, y), Quotient(f, x, y))
    BY ZenonT(60), <1>4, <2>4, LastRowIs
  <2>6. FPEqual(f, divOut', Quotient(f, x, y))
    BY Zenon, <1>5, <2>1, <2>5 DEF DivNames
  <2>7. DivState(srt, f, x, y)'
    BY Zenon, <1>4, <2>2, <2>6 DEF DivState
  <2>8. ~DivIdle'
    BY Zenon, <1>1, <2>2 DEF DivIdle
  <2> QED BY Zenon, <2>7, <2>8 DEF DivInv
<1> QED BY Zenon, <1>8, <1>9

\* What the invariant says of the remainder and of the result.
LEMMA DivisionIs ==
  ASSUME DivInv
  PROVE  FPDivIsCorrect
<1>1. CASE DivIdle
  BY Zenon, <1>1 DEF DivInv, FPDivIsCorrect, RemainderIsExact, RemainderIsBounded, DivisionIsCorrect
<1>2. CASE ~DivIdle
  <2>1. PICK srt \in DivRadix, f \in DivFormats : \E x \in Numbers(f), y \in Numbers(f) : DivState(srt, f, x, y)
    BY Zenon, <1>2 DEF DivInv
  <2>2. PICK x \in Numbers(f), y \in Numbers(f) : DivState(srt, f, x, y)
    BY Zenon, <2>1
  <2>3. /\ divider = [srt |-> srt, f |-> f] /\ operands = <<x, y>>
        /\ row \in 0..(nDigitOf(srt, f) - 1) /\ quotient \in Int
        /\ DivRemains(srt, f, x, y, nDigitOf(srt, f) - 1 - row, remainder, quotient)
        /\ divOut # -1 => FPEqual(f, divOut, Quotient(f, x, y))
    BY Zenon, <2>2 DEF DivState
  <2>4. DivNames(srt, f, x, y)
    BY ZenonT(40), <2>3, DivNamesAre
  <2>5. PICK i \in Nat : i = nDigitOf(srt, f) - 1 - row
    <3>1. PICK n \in Nat : nDigitOf(srt, f) - 1 = n
      BY ZenonT(40), DivWidthIs DEF DivWidth
    <3>2. row \in 0..n
      BY Zenon, <2>3, <3>1
    <3>3. n - row \in Nat
      BY <3>2
    <3> QED BY Zenon, <3>1, <3>3
  <2>6. PICK c \in Int : RemainderReads(srt, f, x, y, i, remainder, quotient, c)
    <3>1. DivRemains(srt, f, x, y, i, remainder, quotient)
      BY Zenon, <2>3, <2>5
    <3> QED BY ZenonT(60), <2>3, <3>1, RemainderRead
  <2>7. PICK v \in Nat, t \in Nat : v = DivisorOf(srt, f, y) /\ t = DividendOf(srt, f, x, y)
    BY ZenonT(40), OperandTypes DEF OperandsAre
  <2>8. /\ Signed(SubSize, remainder) = c
        /\ c = Pow2[DigitBitsOf(srt) * i] * t - 4 * (quotient * v)
        /\ Within(SRT[srt].radix - 1, SRT[srt].alpha, v, c)
    BY Zenon, <2>4, <2>6, <2>7 DEF RemainderReads, DivRemainder, DivNames
  <2>9. RemainderIsExact
    <3>1. Pow2[DigitBits * RowsDone] * Dividend = Pow2[DigitBitsOf(srt) * i] * t /\ Divisor = v
      BY Zenon, <2>4, <2>5, <2>7 DEF DivNames, RowsDone
    <3>2. (4 * quotient) * v = 4 * (quotient * v)
      BY <2>3
    <3> QED BY Zenon, <2>8, <3>1, <3>2 DEF RemainderIsExact
  <2>10. RemainderIsBounded
    <3>1. PICK r \in Int, al \in Int : r = SRT[srt].radix /\ al = SRT[srt].alpha
      BY FPDivAssumption, SRTIs DEF FPDivAssumption
    <3>2. -(4 * (al * v)) <= (r - 1) * c /\ (r - 1) * c <= 4 * (al * v)
      BY Zenon, <2>8, <3>1 DEF Within
    <3>3. (4 * al) * v = 4 * (al * v) /\ (r - 1) * (-c) = -((r - 1) * c)
      OBVIOUS
    <3>4. PICK p \in Int, k \in Int : p = (r - 1) * c /\ k = 4 * (al * v)
      OBVIOUS
    <3>5. p <= k /\ -p <= k
      BY <3>2, <3>4
    <3>6. (r - 1) * AbsOf(c) <= (4 * al) * v
      BY Zenon, <3>3, <3>4, <3>5 DEF AbsOf
    <3>7. param.radix = r /\ param.alpha = al /\ Divisor = v
      BY Zenon, <2>4, <2>7, <3>1 DEF DivNames
    <3> QED BY Zenon, <2>8, <3>6, <3>7 DEF RemainderIsBounded
  <2>11. DivisionIsCorrect
    BY Zenon, <2>3, <2>4 DEF DivNames, DivisionIsCorrect
  <2> QED BY Zenon, <2>9, <2>10, <2>11 DEF FPDivIsCorrect
<1> QED BY Zenon, <1>1, <1>2

\* The division is right, with each of the three tables, for every format and all operands:
\* the digit that a few leading bits select keeps the remainder within the bounds on which
\* the next selection rests, so that no row loses a bit that matters; the sign of the last
\* remainder corrects the quotient, and that quotient, cut off and without a sticky bit,
\* rounds to the nearest number, since no quotient of two significands is half way between
\* two others; infinities, zeros, overflows and underflows included (FPDiv of FPDiv.cpp).
THEOREM DivisionIsRight == Spec => []FPDivIsCorrect
<1>1. Init => DivInv
  BY DEF Init, DivInit, DivIdle, DivInv
<1>2. ASSUME DivInv, [Next]_vars PROVE DivInv'
  <2>1. ASSUME UNCHANGED divVars PROVE DivInv'
    <3>1. /\ divider' = divider /\ operands' = operands /\ row' = row
          /\ remainder' = remainder /\ quotient' = quotient /\ divOut' = divOut
      BY <2>1 DEF divVars
    <3>2. ASSUME NEW srt, NEW f, NEW x, NEW y, DivState(srt, f, x, y) PROVE DivState(srt, f, x, y)'
      BY ZenonT(40), <3>1, <3>2 DEF DivState
    <3> QED BY Zenon, <1>2, <3>1, <3>2 DEF DivInv, DivIdle
  <2>2. CASE StartDivision
    BY ZenonT(40), <1>2, <2>2, DivEnters DEF StartDivision
  <2>3. CASE DivisionStep
    BY Zenon, <1>2, <2>3, DivStepInv DEF DivisionStep
  <2>4. CASE Combinational
    BY <2>1, <2>4 DEF Combinational
  <2>5. CASE StartRoot \/ RootStep
    BY <2>1, <2>5 DEF StartRoot, RootStep
  <2>6. CASE StartConstantDivision \/ ConstantDivisionStep
    BY <2>1, <2>6 DEF StartConstantDivision, ConstantDivisionStep
  <2>7. CASE StartMultiplier \/ MultiplierStep
    BY <2>1, <2>7 DEF StartMultiplier, MultiplierStep
  <2>8. CASE UNCHANGED vars
    BY <2>1, <2>8 DEF vars
  <2> QED BY <1>2, <2>2, <2>3, <2>4, <2>5, <2>6, <2>7, <2>8 DEF Next
<1>3. Spec => []DivInv
  BY <1>1, <1>2, PTL DEF Spec
<1>4. DivInv => FPDivIsCorrect
  BY DivisionIs
<1> QED BY <1>3, <1>4, PTL
=============================================================================
