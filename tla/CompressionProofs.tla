--------------------------- MODULE CompressionProofs ---------------------------
(***************************************************************************)
(* A bit heap is worth what was added to it.  And its compression, for     *)
(* every width and every heap: the types of the plan and of its            *)
(* application; the application finds the bits that the plan foresaw; what *)
(* the heap is worth is preserved by every compressor, and the sum that    *)
(* the final adder returns is right.                                       *)
(***************************************************************************)
EXTENDS Compression, SumProofs

-----------------------------------------------------------------------------
(***************************************************************************)
(* A bit heap is worth what was added to it, for every width, every signal *)
(* and every value: HeapIsExact, for the signals of SignsAreKept.          *)
(***************************************************************************)
\* addSignal() leaves the sign of a signal that ends at the msb of the heap as it
\* is, and so such a signal must not be shifted down.
SignsAreKept ==
  \A f \in Formats, shift \in Shifts :
    f.signed /\ f.msb = Msb /\ f.lsb + shift >= 0 => shift >= 0

HeapTypes ==
  /\ bits \in [Columns -> [{0, 1} -> Nat]]
  /\ constantBits \in Int
  /\ sum \in 0..(Modulus - 1)

-----------------------------------------------------------------------------
LEMMA ModulusType == Modulus \in Nat \ {0}
  BY BitHeapAssumption, Pow2Def DEF Modulus

LEMMA HeapInitTypes == HeapInit => HeapTypes /\ HeapIsExact
<1> SUFFICES ASSUME HeapInit PROVE HeapTypes /\ HeapIsExact
  OBVIOUS
<1>1. HeapTypes
  BY ModulusType DEF HeapInit, HeapTypes, NoBits
<1>2. ValueOf(bits) = 0
  <2> DEFINE d == [c \in Columns |-> bits[c][1]]
  <2>1. \A k \in 0..(Msb + 1 - 1) : d[k] = 0
    BY BitHeapAssumption DEF HeapInit, NoBits, Columns
  <2>2. Weighted(d, Msb + 1) = 0
    <3> HIDE DEF d
    <3> QED BY <2>1, BitHeapAssumption, WeightedZero
  <2> QED BY <2>2 DEF ValueOf
<1>3. 0 % Modulus = 0
  <2>1. (Modulus * 0 + 0) % Modulus = 0
    BY ModulusType, DivisionUnique
  <2> QED BY <2>1, ModulusType
<1>4. (ValueOf(bits) + constantBits) % Modulus = sum
  BY <1>2, <1>3 DEF HeapInit
<1> QED BY <1>1, <1>4 DEF HeapIsExact, HeapInit

\* What the bits of a signal add to the value of the heap.
Entering(newBits) == [c \in Columns |-> IF c \in DOMAIN newBits THEN newBits[c] ELSE 0]

LEMMA ValueType ==
  ASSUME NEW heap \in [Columns -> [{0, 1} -> Int]]
  PROVE  ValueOf(heap) \in Int
<1> DEFINE d == [c \in Columns |-> heap[c][1]]
<1>1. \A k \in 0..(Msb + 1 - 1) : d[k] \in Int
  BY BitHeapAssumption DEF Columns
<1>2. Weighted(d, Msb + 1) \in Int
  <2> HIDE DEF d
  <2> QED BY <1>1, BitHeapAssumption, WeightedType
<1> QED BY <1>2 DEF ValueOf

LEMMA EnterTypes ==
  ASSUME HeapTypes, NEW newBits, NEW k \in Int, NEW value \in Int, Enter(newBits, k, value)
  PROVE  HeapTypes'
<1>1. bits' \in [Columns -> [{0, 1} -> Nat]] /\ constantBits' \in Int
  BY DEF HeapTypes, Enter
<1>2. sum' \in 0..(Modulus - 1)
  <2>1. sum + value \in Int /\ sum' = (sum + value) % Modulus
    BY ModulusType DEF HeapTypes, Enter
  <2> QED BY <2>1, ModulusType, Division
<1>3. Modulus' = Modulus /\ Columns' = Columns
  BY DEF Modulus, Columns
<1> QED BY <1>1, <1>2, <1>3 DEF HeapTypes

LEMMA EnterValue ==
  ASSUME HeapTypes, NEW newBits, NEW K \in Int, NEW value \in Int,
         \A c \in DOMAIN newBits : newBits[c] \in {0, 1},
         Enter(newBits, K, value)
  PROVE  /\ HeapTypes'
         /\ Weighted(Entering(newBits), Msb + 1) \in Int
         /\ ValueOf(bits') = ValueOf(bits) + Weighted(Entering(newBits), Msb + 1)
<1> DEFINE new == [c \in Columns |-> [b \in {0, 1} |->
                     bits[c][b] + IF c \in DOMAIN newBits /\ newBits[c] = b THEN 1 ELSE 0]]
           d == [c \in Columns |-> bits[c][1]]
           f == [c \in Columns |-> new[c][1]]
           e == Entering(newBits)
<1>1. bits' = new /\ constantBits' = constantBits + K /\ sum' = (sum + value) % Modulus
  BY DEF Enter
<1>2. new \in [Columns -> [{0, 1} -> Nat]]
  BY DEF HeapTypes
<1>3. HeapTypes'
  BY EnterTypes
<1>4. \A i \in 0..(Msb + 1 - 1) : d[i] \in Int /\ e[i] \in Int /\ f[i] = d[i] + e[i]
  BY BitHeapAssumption DEF HeapTypes, Entering, Columns
<1> HIDE DEF d, e, f, new
<1>5. PICK N \in Nat : N = Msb + 1
  BY BitHeapAssumption
<1>6. \A i \in 0..(N - 1) : d[i] \in Int /\ e[i] \in Int /\ f[i] = d[i] + e[i]
  BY <1>4, <1>5, BitHeapAssumption
<1>7. Weighted(f, N) = Weighted(d, N) + Weighted(e, N) /\ Weighted(e, N) \in Int
  BY <1>6, WeightedAdds, WeightedType, Zenon
<1> QED BY SMTT(60), <1>1, <1>3, <1>5, <1>7 DEF ValueOf, d, e, f, new

\* Entering bits and constants worth a value, modulo the range of the heap.
LEMMA EnterExact ==
  ASSUME HeapTypes, HeapIsExact, NEW newBits, NEW k \in Int, NEW value \in Int,
         \A c \in DOMAIN newBits : newBits[c] \in {0, 1},
         Enter(newBits, k, value),
         NEW q \in Int, value = Weighted(Entering(newBits), Msb + 1) + k + Modulus * q
  PROVE  HeapTypes' /\ HeapIsExact'
<1> DEFINE w == Weighted(Entering(newBits), Msb + 1)
           old == ValueOf(bits)
<1>1. HeapTypes' /\ w \in Int /\ ValueOf(bits') = old + w
  BY EnterValue
<1>2. old \in Int
  BY ValueType DEF HeapTypes
<1>3. /\ phase = "fill" /\ phase' = "fill"
      /\ constantBits' = constantBits + k /\ sum' = (sum + value) % Modulus
  BY DEF Enter
<1>4. (old + constantBits) % Modulus = sum
  BY <1>3 DEF HeapIsExact
<1>5. PICK a \in Int : old + constantBits = Modulus * a + sum
  <2>1. old + constantBits \in Int
    BY <1>2 DEF HeapTypes
  <2> QED BY <1>4, <2>1, ModulusType, Division
<1>6. value = w + k + Modulus * q
  OBVIOUS
<1> HIDE DEF w, old
<1>7. (old + w) + (constantBits + k) = (sum + value) + Modulus * (a - q)
  <2>1. Modulus * (a - q) = Modulus * a - Modulus * q
    BY ModulusType
  <2>2. Modulus * a \in Int /\ Modulus * q \in Int /\ sum \in Int /\ constantBits \in Int
    BY ModulusType DEF HeapTypes
  <2> QED BY <1>1, <1>2, <1>5, <1>6, <2>1, <2>2
<1>8. ((old + w) + (constantBits + k)) % Modulus = (sum + value) % Modulus
  <2>1. (old + w) + (constantBits + k) \in Int /\ sum + value \in Int /\ a - q \in Int
    BY <1>1, <1>2, ModulusType DEF HeapTypes
  <2> HIDE DEF Modulus
  <2> QED BY <1>7, <2>1, ModulusType, SameRemainder
<1>9. Modulus' = Modulus
  BY DEF Modulus
<1> QED BY <1>1, <1>3, <1>8, <1>9 DEF HeapIsExact

-----------------------------------------------------------------------------
(***************************************************************************)
(* What the bits of a signal, and the strings of ones, are worth.          *)
(***************************************************************************)

\* The digits e enter at the weights lo to lo + n - 1.
DigitsEnter(nb, lo, n, e) ==
  /\ DOMAIN nb = lo..(lo + n - 1)
  /\ \A i \in 0..(n - 1) : e[i] \in Int /\ nb[lo + i] = e[i]

\* The bits that enter at the weights lo to lo + n - 1 are worth the digits
\* shifted by lo, up to a multiple of the modulus: those above the msb are lost.
LEMMA SignalBits ==
  ASSUME NEW lo \in Nat, NEW n \in Nat, NEW nb, NEW e, DigitsEnter(nb, lo, n, e)
  PROVE  \E q \in Int : Pow2[lo] * Weighted(e, n) = Weighted(Entering(nb), Msb + 1) + Modulus * q
<1> DEFINE at(c) == IF c \in lo..(lo + n - 1) THEN nb[c] ELSE 0
<1>1. \A i \in 0..(n - 1) : lo + i \in lo..(lo + n - 1) /\ at(lo + i) = e[i]
  BY DEF DigitsEnter
<1>2. \A c \in Nat : at(c) \in Int
  <2> SUFFICES ASSUME NEW c \in lo..(lo + n - 1) PROVE nb[c] \in Int
    OBVIOUS
  <2>1. c - lo \in 0..(n - 1) /\ lo + (c - lo) = c
    OBVIOUS
  <2> QED BY <2>1 DEF DigitsEnter
<1>3. PICK t : \A c \in Nat : t[c] = at(c)
  <2> WITNESS [c \in Nat |-> at(c)]
  <2> QED OBVIOUS
<1>4. Msb + 1 \in Nat
  BY BitHeapAssumption
<1>5. \E q \in Int : Pow2[lo] * Weighted(e, n) = Weighted(t, Msb + 1) + Pow2[Msb + 1] * q
  <2>1. \A k \in Nat : t[k] \in Int
    BY <1>2, <1>3
  <2>2. \A k \in 0..(lo - 1) : t[k] = 0
    BY <1>3
  <2>3. \A k \in 0..(n - 1) : t[lo + k] = e[k]
    BY <1>1, <1>3
  <2>4. \A k \in Nat : t[lo + n + k] = 0
    BY <1>3
  <2>5. Window(t, lo, n, e)
    BY <2>1, <2>2, <2>3, <2>4 DEF Window
  <2> QED BY <1>4, <2>5, WeightedWindow
<1>6. Weighted(t, Msb + 1) = Weighted(Entering(nb), Msb + 1)
  <2>1. \A k \in 0..(Msb + 1 - 1) : t[k] = Entering(nb)[k]
    BY <1>3, BitHeapAssumption DEF Entering, Columns, DigitsEnter
  <2> QED BY <1>4, <2>1, BitHeapAssumption, WeightedEqual
<1> QED BY <1>5, <1>6 DEF Modulus

\* A string of ones is minus its lowest bit, up to a multiple of the modulus.
LEMMA OnesValue ==
  ASSUME NEW w \in Nat
  PROVE  \E q \in Int : OnesFrom(w) = Modulus * q - Pow2[w]
<1>1. CASE w <= Msb
  <2>1. OnesFrom(w) = Modulus * 1 - Pow2[w]
    BY <1>1, ModulusType DEF OnesFrom
  <2> QED BY <2>1
<1>2. CASE w > Msb
  <2>1. w - (Msb + 1) \in Nat /\ Msb + 1 \in Nat /\ (Msb + 1) + (w - (Msb + 1)) = w
    BY <1>2, BitHeapAssumption
  <2>2. Pow2[w] = Modulus * Pow2[w - (Msb + 1)]
    BY <2>1, Pow2Sum DEF Modulus
  <2>3. Pow2[w - (Msb + 1)] \in Int /\ Pow2[w] \in Int
    BY <2>1, Pow2Def
  <2>4. OnesFrom(w) = 0
    BY <1>2, BitHeapAssumption DEF OnesFrom
  <2>5. 0 = Modulus * Pow2[w - (Msb + 1)] - Pow2[w]
    BY <2>2, <2>3
  <2> QED BY <2>3, <2>4, <2>5
<1> QED BY <1>1, <1>2, BitHeapAssumption

-----------------------------------------------------------------------------
(***************************************************************************)
(* Every operation that fills the heap keeps it exact.                     *)
(***************************************************************************)

\* The bits of a signal enter, worth value together with the constant k.
SignalEnters(nb, lo, n, e, k, value) ==
  /\ DOMAIN nb = lo..(lo + n - 1)
  /\ \A i \in 0..(n - 1) : e[i] \in {0, 1} /\ nb[lo + i] = e[i]
  /\ Enter(nb, k, value)
  /\ \E r \in Int : value = Pow2[lo] * Weighted(e, n) + k + Modulus * r

LEMMA SignalExact ==
  ASSUME HeapTypes, HeapIsExact, NEW nb, NEW lo \in Nat, NEW n \in Nat, NEW e,
         NEW k \in Int, NEW value \in Int, SignalEnters(nb, lo, n, e, k, value)
  PROVE  HeapTypes' /\ HeapIsExact'
<1>1. DOMAIN nb = lo..(lo + n - 1) /\ \A i \in 0..(n - 1) : e[i] \in {0, 1} /\ nb[lo + i] = e[i]
  BY DEF SignalEnters
<1>2. \A c \in DOMAIN nb : nb[c] \in {0, 1}
  <2> SUFFICES ASSUME NEW c \in lo..(lo + n - 1) PROVE nb[c] \in {0, 1}
    BY <1>1
  <2>1. c - lo \in 0..(n - 1) /\ lo + (c - lo) = c
    OBVIOUS
  <2> QED BY <1>1, <2>1
<1>3. PICK r \in Int : value = Pow2[lo] * Weighted(e, n) + k + Modulus * r
  BY DEF SignalEnters
<1>4. PICK q \in Int : Pow2[lo] * Weighted(e, n) = Weighted(Entering(nb), Msb + 1) + Modulus * q
  <2>1. DigitsEnter(nb, lo, n, e)
    BY <1>1 DEF DigitsEnter
  <2> QED BY <2>1, SignalBits
<1>5. Enter(nb, k, value)
  BY DEF SignalEnters
<1>6. Weighted(Entering(nb), Msb + 1) \in Int
  BY <1>2, <1>5, EnterValue
<1>7. PICK M \in Nat \ {0} : M = Modulus
  BY ModulusType
<1>8. value = Weighted(Entering(nb), Msb + 1) + k + M * (q + r)
  <2>1. M * (q + r) = M * q + M * r /\ M * q \in Int /\ M * r \in Int
    OBVIOUS
  <2> QED BY <1>3, <1>4, <1>6, <1>7, <2>1
<1> QED BY <1>2, <1>5, <1>7, <1>8, EnterExact

\* No bit, only a constant.
LEMMA ConstantExact ==
  ASSUME HeapTypes, HeapIsExact, NEW k \in Int, Enter(<<>>, k, k)
  PROVE  HeapTypes' /\ HeapIsExact'
<1>1. Weighted(Entering(<<>>), Msb + 1) = 0
  <2>1. \A c \in 0..(Msb + 1 - 1) : Entering(<<>>)[c] = 0
    BY BitHeapAssumption DEF Entering, Columns
  <2> QED BY <2>1, BitHeapAssumption, WeightedZero
<1>2. k = Weighted(Entering(<<>>), Msb + 1) + k + Modulus * 0
  BY <1>1, ModulusType
<1>3. \A c \in DOMAIN <<>> : <<>>[c] \in {0, 1}
  OBVIOUS
<1> QED BY <1>2, <1>3, EnterExact

LEMMA AddBitExact ==
  ASSUME HeapTypes, HeapIsExact, NEW w \in Weights, NEW b \in {0, 1}, AddBit(w, b)
  PROVE  HeapTypes' /\ HeapIsExact'
<1>1. w \in Nat /\ Pow2[w] \in Nat
  BY BitHeapAssumption, Pow2Def
<1> DEFINE nb == [x \in {w} |-> b]
           e == [x \in {0} |-> b]
<1>2. Weighted(e, 1) = b
  <2>1. e[0] = b /\ \A i \in 0..0 : e[i] \in Int
    OBVIOUS
  <2> HIDE DEF e
  <2>2. Weighted(e, 0 + 1) = Weighted(e, 0) + e[0] * Pow2[0] /\ Weighted(e, 0) = 0
    BY <2>1, WeightedStep
  <2> QED BY <2>1, <2>2, Pow2Def
<1>3. b * Pow2[w] \in Int /\ b * Pow2[w] = Pow2[w] * Weighted(e, 1) + 0 + Modulus * 0
  BY <1>1, <1>2, ModulusType
<1>4. SignalEnters(nb, w, 1, e, 0, b * Pow2[w])
  <2>1. DOMAIN nb = w..(w + 1 - 1)
    BY <1>1
  <2>2. \A i \in 0..(1 - 1) : e[i] \in {0, 1} /\ nb[w + i] = e[i]
    BY <1>1
  <2>3. Enter(nb, 0, b * Pow2[w])
    BY DEF AddBit
  <2> QED BY <1>3, <2>1, <2>2, <2>3 DEF SignalEnters
<1> QED BY <1>1, <1>3, <1>4, SignalExact

\* The n bits d of v, and e where the ones of the set C of weights of the signal
\* are complemented, enter as the bits nb.
Digits(f, C, v, n, lo, nb, d, e) ==
  /\ LowBits(d, v, n)
  /\ \A i \in 0..(n - 1) : d[i] \in {0, 1}
  /\ \A i \in 0..(n - 1) : e[i] = IF f.lsb + i \in C THEN 1 - d[i] ELSE d[i]
  /\ \A i \in 0..(n - 1) : nb[lo + i] = e[i]
  /\ DOMAIN nb = lo..(lo + n - 1)

LEMMA SignalDigits ==
  ASSUME NEW f \in Formats, NEW shift \in Shifts, NEW v \in Int, NEW C, NEW lo \in Nat,
         lo = f.lsb + shift
  PROVE  \E d, e : Digits(f, C, v, WidthOf(f), lo, BitsOf(f, shift, v, C), d, e)
<1>1. /\ f.lsb \in Int /\ f.msb \in Int /\ f.lsb <= f.msb /\ shift \in Int
      /\ WidthOf(f) \in Nat
      /\ lo + WidthOf(f) - 1 = f.msb + shift
  BY BitHeapAssumption DEF WidthOf
<1>2. PICK d : \A i \in Nat : d[i] = BitOf(v, i)
  <2> WITNESS [i \in Nat |-> BitOf(v, i)]
  <2> QED OBVIOUS
<1>3. PICK e : \A i \in Nat : e[i] = IF f.lsb + i \in C THEN 1 - d[i] ELSE d[i]
  <2> WITNESS [i \in Nat |-> IF f.lsb + i \in C THEN 1 - d[i] ELSE d[i]]
  <2> QED OBVIOUS
<1>4. LowBits(d, v, WidthOf(f))
  BY <1>2 DEF LowBits, BitOf
<1>5. \A i \in 0..(WidthOf(f) - 1) : d[i] \in {0, 1}
  <2>1. \A i \in 0..(WidthOf(f) - 1) : d[i] = (v \div Pow2[i]) % 2
    BY <1>4 DEF LowBits
  <2> QED BY <1>1, <2>1, BitsOfInteger
<1>6. DOMAIN BitsOf(f, shift, v, C) = lo..(lo + WidthOf(f) - 1)
  BY <1>1 DEF BitsOf
<1>7. ASSUME NEW i \in 0..(WidthOf(f) - 1)
      PROVE  BitsOf(f, shift, v, C)[lo + i] = e[i]
  <2>1. lo + i \in (f.lsb + shift)..(f.msb + shift)
    BY <1>1 DEF WidthOf
  <2>2. (lo + i) - shift - f.lsb = i /\ (lo + i) - shift = f.lsb + i /\ i \in Nat
    BY <1>1
  <2>3. BitsOf(f, shift, v, C)[lo + i] =
          LET b == BitOf(v, (lo + i) - shift - f.lsb)
          IN IF (lo + i) - shift \in C THEN 1 - b ELSE b
    BY <2>1 DEF BitsOf
  <2> QED BY <1>2, <1>3, <2>2, <2>3
<1>8. \A i \in 0..(WidthOf(f) - 1) : e[i] = IF f.lsb + i \in C THEN 1 - d[i] ELSE d[i]
  BY <1>3
<1>9. Digits(f, C, v, WidthOf(f), lo, BitsOf(f, shift, v, C), d, e)
  BY <1>4, <1>5, <1>6, <1>7, <1>8 DEF Digits
<1> QED BY <1>9

LEMMA ValuesType ==
  ASSUME NEW f \in Formats, NEW v \in Values(f)
  PROVE  /\ v \in Int /\ WidthOf(f) - 1 \in Nat
         /\ f.signed => -Pow2[WidthOf(f) - 1] <= v /\ v < Pow2[WidthOf(f) - 1]
         /\ ~f.signed => 0 <= v /\ v < Pow2[WidthOf(f)]
<1>1. WidthOf(f) \in Nat /\ WidthOf(f) - 1 \in Nat
  BY BitHeapAssumption DEF WidthOf
<1>2. Pow2[WidthOf(f)] \in Nat /\ Pow2[WidthOf(f) - 1] \in Nat
  BY <1>1, Pow2Def
<1>3. f.signed \in BOOLEAN
  BY BitHeapAssumption
<1> QED BY <1>1, <1>2, <1>3 DEF Values

\* addSignal(), in its three cases: no sign, a sign that stays as it is at the
\* msb of the heap, and a sign that is complemented.
LEMMA AddSignalExact ==
  ASSUME HeapTypes, HeapIsExact, SignsAreKept,
         NEW f \in Formats, NEW shift \in Shifts, NEW v \in Values(f), AddSignal(f, shift, v)
  PROVE  HeapTypes' /\ HeapIsExact'
<1>1. PICK lo \in Nat : lo = f.lsb + shift
  BY BitHeapAssumption DEF AddSignal
<1>2. PICK n \in Nat, m \in Nat : n = WidthOf(f) /\ n = m + 1 /\ m = n - 1
  BY BitHeapAssumption DEF WidthOf
<1>3. v \in Int /\ f.signed \in BOOLEAN
  BY ValuesType, BitHeapAssumption
<1> DEFINE C == IF ComplementsSign(f) THEN {f.msb} ELSE {}
           k == IF ComplementsSign(f) THEN OnesFrom(f.msb + shift) ELSE 0
           nb == BitsOf(f, shift, v, C)
<1>4. PICK d, e : Digits(f, C, v, n, lo, nb, d, e)
  <2>1. \A X : \E d, e : Digits(f, X, v, WidthOf(f), lo, BitsOf(f, shift, v, X), d, e)
    BY <1>1, <1>3, SignalDigits
  <2> QED BY <1>2, <2>1
<1>5. PICK L \in Nat : L = Pow2[lo]
  BY Pow2Def
<1>13. f.lsb \in Int /\ f.msb \in Int /\ shift \in Int /\ f.lsb + m = f.msb
  BY <1>2, BitHeapAssumption DEF WidthOf
<1>6. Enter(nb, k, v * L)
  BY <1>1, <1>5 DEF AddSignal
<1>7. \A i \in 0..(n - 1) : e[i] \in {0, 1}
  BY <1>4 DEF Digits
<1>8. SUFFICES k \in Int /\ \E r \in Int : v * L = L * Weighted(e, n) + k + Modulus * r
  <2>1. v * L \in Int
    BY <1>3
  <2>2. SignalEnters(nb, lo, n, e, k, v * L)
    BY <1>4, <1>5, <1>6, <1>7, <1>8 DEF SignalEnters, Digits
  <2> QED BY <1>8, <2>1, <2>2, SignalExact
<1>9. CASE ~f.signed
  <2>1. C = {} /\ k = 0
    BY <1>9 DEF ComplementsSign
  <2>2. Weighted(d, n) = v
    <3>1. LowBits(d, v, n)
      BY <1>4 DEF Digits
    <3>2. 0 <= v /\ v < Pow2[n]
      BY <1>2, <1>9, ValuesType
    <3> QED BY <1>3, <3>1, <3>2, UnsignedDigits
  <2>3. Weighted(e, n) = Weighted(d, n)
    <3>1. \A i \in 0..(n - 1) : e[i] = d[i]
      BY <1>4, <2>1 DEF Digits
    <3> QED BY <3>1, WeightedEqual
  <2>4. v * L = L * Weighted(e, n) + k + Modulus * 0
    BY <1>3, <2>1, <2>2, <2>3, ModulusType
  <2> QED BY <2>1, <2>4
<1>10. ASSUME f.signed
       PROVE  /\ v = Weighted(d, m) - d[m] * Pow2[m]
              /\ Weighted(d, m) \in Int /\ d[m] \in {0, 1}
              /\ Weighted(e, n) = Weighted(d, m) + e[m] * Pow2[m]
  <2>1. -Pow2[m] <= v /\ v < Pow2[m]
    BY <1>2, <1>10, ValuesType
  <2>2. /\ v = Weighted(d, m) - d[m] * Pow2[m]
        /\ Weighted(d, m) \in Int /\ d[m] \in {0, 1}
    <3>1. LowBits(d, v, m + 1)
      BY <1>2, <1>4 DEF Digits
    <3> QED BY <1>3, <2>1, <3>1, SignedDigits
  <2>3. Weighted(e, m + 1) = Weighted(e, m) + e[m] * Pow2[m]
    <3>1. \A i \in 0..m : e[i] \in Int
      BY <1>2, <1>7
    <3> QED BY <3>1, WeightedStep
  <2>4. \A i \in 0..(m - 1) : e[i] = d[i]
    <3>1. \A i \in 0..(m - 1) : i \in 0..(n - 1) /\ f.lsb + i # f.msb
      BY <1>2, <1>13
    <3> QED BY <1>4, <3>1 DEF Digits
  <2>5. Weighted(e, m) = Weighted(d, m)
    BY <2>4, WeightedEqual
  <2> QED BY <1>2, <2>2, <2>3, <2>5
<1>11. CASE f.signed /\ f.msb = Msb
  <2>1. C = {} /\ k = 0 /\ shift \in Nat
    BY <1>1, <1>11, BitHeapAssumption DEF ComplementsSign, SignsAreKept
  <2>2. e[m] = d[m]
    BY SMTT(40), <1>2, <1>4, <2>1 DEF Digits
  <2>3. PICK P \in Nat, S \in Nat : P = Pow2[m] /\ 2 * P = Pow2[n] /\ S = Pow2[shift]
    BY <1>2, <2>1, Pow2Def
  <2>4. L * (2 * P) = Modulus * S
    <3>1. lo + n = (Msb + 1) + shift /\ Msb + 1 \in Nat
      BY <1>1, <1>2, <1>11, BitHeapAssumption DEF WidthOf
    <3>2. Pow2[lo + n] = L * (2 * P)
      BY <1>5, <2>3, Pow2Sum
    <3>3. Pow2[(Msb + 1) + shift] = Modulus * S
      BY <2>1, <2>3, <3>1, Pow2Sum DEF Modulus
    <3> QED BY <3>1, <3>2, <3>3
  <2>5. PICK b \in {0, 1}, w \in Int : b = d[m] /\ w = Weighted(d, m)
    BY <1>10, <1>11
  <2>6. v = w - b * P /\ Weighted(e, n) = w + b * P
    BY <1>10, <1>11, <2>2, <2>3, <2>5
  <2>7. Weighted(e, n) = v + b * (2 * P)
    BY <1>3, <2>6
  <2>8. L * Weighted(e, n) = v * L + b * (Modulus * S)
    <3>1. L * (v + b * (2 * P)) = v * L + b * (L * (2 * P))
      BY <1>3
    <3> QED BY <2>4, <2>7, <3>1
  <2>9. v * L = L * Weighted(e, n) + k + Modulus * (-(b * S)) /\ -(b * S) \in Int
    BY <1>3, <2>1, <2>8, ModulusType
  <2> QED BY <2>1, <2>9
<1>12. CASE f.signed /\ f.msb # Msb
  <2>1. C = {f.msb} /\ k = OnesFrom(f.msb + shift)
    BY <1>12 DEF ComplementsSign
  <2>2. e[m] = 1 - d[m]
    <3>1. m \in 0..(n - 1)
      BY <1>2
    <3>2. f.lsb + m \in C
      BY <1>13, <2>1
    <3> HIDE DEF C
    <3> QED BY <1>4, <3>1, <3>2 DEF Digits
  <2>3. PICK P \in Nat : P = Pow2[m]
    BY Pow2Def
  <2>4. PICK b \in {0, 1}, w \in Int : b = d[m] /\ w = Weighted(d, m)
    BY <1>10, <1>12
  <2>5. v = w - b * P /\ Weighted(e, n) = w + (1 - b) * P
    BY <1>10, <1>12, <2>2, <2>3, <2>4
  <2>6. Weighted(e, n) = v + P
    BY <1>3, <2>5
  <2>7. lo + m = f.msb + shift /\ Pow2[lo + m] = L * P
    <3>1. Pow2[lo + m] = L * P
      BY <1>5, <2>3, Pow2Sum
    <3>2. lo + m = f.msb + shift
      BY <1>1, <1>13
    <3> QED BY <3>1, <3>2
  <2>8. PICK q \in Int : k = Modulus * q - L * P
    <3>1. lo + m \in Nat /\ OnesFrom(lo + m) = k
      BY <2>1, <2>7
    <3>2. \E q \in Int : OnesFrom(lo + m) = Modulus * q - Pow2[lo + m]
      BY <3>1, OnesValue
    <3> QED BY <2>7, <3>1, <3>2
  <2>9. L * (v + P) = v * L + L * P
    BY <1>3
  <2>10. v * L = L * Weighted(e, n) + k + Modulus * (-q)
    BY <1>3, <2>6, <2>8, <2>9, ModulusType
  <2>11. k \in Int
    BY <2>8, ModulusType
  <2> QED BY <2>10, <2>11
<1> QED BY <1>3, <1>9, <1>11, <1>12

\* subtractSignal(): the complement of the bits below the ones, plus one.
LEMMA SubtractSignalExact ==
  ASSUME HeapTypes, HeapIsExact,
         NEW f \in Formats, NEW shift \in Shifts, NEW v \in Values(f), SubtractSignal(f, shift, v)
  PROVE  HeapTypes' /\ HeapIsExact'
<1>1. PICK lo \in Nat : lo = f.lsb + shift
  BY DEF SubtractSignal, Columns
<1>2. PICK n \in Nat, m \in Nat : n = WidthOf(f) /\ n = m + 1 /\ m = n - 1
  BY BitHeapAssumption DEF WidthOf
<1>3. v \in Int /\ f.signed \in BOOLEAN
  BY ValuesType, BitHeapAssumption
<1> DEFINE C == (f.lsb..f.msb) \ (IF f.signed THEN {f.msb} ELSE {})
           top == IF f.signed THEN f.msb + shift ELSE f.msb + shift + 1
           nb == BitsOf(f, shift, v, C)
<1>4. PICK d, e : Digits(f, C, v, n, lo, nb, d, e)
  <2>1. \A X : \E d, e : Digits(f, X, v, WidthOf(f), lo, BitsOf(f, shift, v, X), d, e)
    BY <1>1, <1>3, SignalDigits
  <2> QED BY <1>2, <2>1
<1>5. PICK L \in Nat : L = Pow2[lo]
  BY Pow2Def
<1>6. f.lsb \in Int /\ f.msb \in Int /\ shift \in Int /\ f.lsb + m = f.msb
  BY <1>2, BitHeapAssumption DEF WidthOf
<1>7. Enter(nb, L + OnesFrom(top), -(v * L))
  BY <1>1, <1>5 DEF SubtractSignal
<1>8. \A i \in 0..(n - 1) : e[i] \in {0, 1}
  BY <1>4 DEF Digits
\* The digits are 2^j - 1 - v, where the string of ones starts at lo + j.
<1>9. ASSUME NEW j \in Nat, lo + j = top, Weighted(e, n) = Pow2[j] - 1 - v
      PROVE  HeapTypes' /\ HeapIsExact'
  <2>1. PICK P \in Nat : P = Pow2[j]
    BY Pow2Def
  <2>2. Pow2[lo + j] = L * P
    BY <1>5, <2>1, Pow2Sum
  <2>3. PICK q \in Int : OnesFrom(top) = Modulus * q - L * P
    <3>1. lo + j \in Nat /\ OnesFrom(lo + j) = OnesFrom(top)
      BY <1>9
    <3>2. \E q \in Int : OnesFrom(lo + j) = Modulus * q - Pow2[lo + j]
      BY <3>1, OnesValue
    <3> QED BY <2>2, <3>1, <3>2
  <2>4. Weighted(e, n) = P - 1 - v
    BY <1>9, <2>1
  <2>5. L * (P - 1 - v) = L * P - L - v * L
    BY <1>3
  <2>6. PICK k \in Int : k = L + OnesFrom(top)
    BY <2>3, ModulusType
  <2>7. -(v * L) \in Int /\ -(v * L) = L * Weighted(e, n) + k + Modulus * (-q)
    BY <1>3, <2>3, <2>4, <2>5, <2>6, ModulusType
  <2>8. SignalEnters(nb, lo, n, e, k, -(v * L))
    <3>1. DOMAIN nb = lo..(lo + n - 1) /\ \A i \in 0..(n - 1) : nb[lo + i] = e[i]
      BY <1>4 DEF Digits
    <3>2. Enter(nb, k, -(v * L))
      BY <1>7, <2>6
    <3>3. \E r \in Int : -(v * L) = Pow2[lo] * Weighted(e, n) + k + Modulus * r
      BY <1>5, <2>7
    <3> HIDE DEF nb
    <3> QED BY <1>8, <3>1, <3>2, <3>3 DEF SignalEnters
  <2> QED BY <2>7, <2>8, SignalExact
<1>10. CASE ~f.signed
  <2>1. \A i \in 0..(n - 1) : d[i] \in {0, 1} /\ e[i] = 1 - d[i]
    <3>1. \A i \in 0..(n - 1) : f.lsb + i \in C
      BY <1>2, <1>6, <1>10
    <3> HIDE DEF C
    <3> QED BY <1>4, <3>1 DEF Digits
  <2>2. Weighted(e, n) = Pow2[n] - 1 - Weighted(d, n)
    BY <2>1, WeightedBits
  <2>3. Weighted(d, n) = v
    <3>1. LowBits(d, v, n)
      BY <1>4 DEF Digits
    <3>2. 0 <= v /\ v < Pow2[n]
      BY <1>2, <1>10, ValuesType
    <3> QED BY <1>3, <3>1, <3>2, UnsignedDigits
  <2>4. lo + n = top
    <3>1. lo + n = f.msb + shift + 1
      BY <1>1, <1>2, <1>6
    <3> QED BY <1>10, <3>1
  <2> QED BY <1>9, <2>2, <2>3, <2>4
<1>11. CASE f.signed
  <2>1. \A i \in 0..(m - 1) : d[i] \in {0, 1} /\ e[i] = 1 - d[i]
    <3>1. \A i \in 0..(m - 1) : i \in 0..(n - 1) /\ f.lsb + i \in C
      BY <1>2, <1>6, <1>11
    <3> HIDE DEF C
    <3> QED BY <1>4, <3>1 DEF Digits
  <2>2. Weighted(e, m) = Pow2[m] - 1 - Weighted(d, m)
    BY <2>1, WeightedBits
  <2>3. /\ v = Weighted(d, m) - d[m] * Pow2[m]
        /\ Weighted(d, m) \in Int /\ d[m] \in {0, 1}
    <3>1. LowBits(d, v, m + 1)
      BY <1>2, <1>4 DEF Digits
    <3>2. -Pow2[m] <= v /\ v < Pow2[m]
      BY <1>2, <1>11, ValuesType
    <3> QED BY <1>3, <3>1, <3>2, SignedDigits
  <2>4. e[m] = d[m]
    <3>1. m \in 0..(n - 1) /\ f.lsb + m \notin C
      BY <1>2, <1>6, <1>11
    <3> HIDE DEF C
    <3> QED BY <1>4, <3>1 DEF Digits
  <2>5. Weighted(e, m + 1) = Weighted(e, m) + e[m] * Pow2[m]
    <3>1. \A i \in 0..m : e[i] \in Int
      BY <1>2, <1>8
    <3> QED BY <3>1, WeightedStep
  <2>6. Weighted(e, n) = Pow2[m] - 1 - v
    <3>1. PICK P \in Nat : P = Pow2[m]
      BY Pow2Def
    <3>2. PICK b \in {0, 1}, w \in Int : b = d[m] /\ w = Weighted(d, m)
      BY <2>3
    <3>3. v = w - b * P /\ Weighted(e, n) = P - 1 - w + b * P
      BY <1>2, <2>2, <2>3, <2>4, <2>5, <3>1, <3>2
    <3> QED BY <3>1, <3>3
  <2>7. lo + m = top
    <3>1. lo + m = f.msb + shift
      BY <1>1, <1>6
    <3> QED BY <1>11, <3>1
  <2> QED BY <1>9, <2>6, <2>7
<1> QED BY <1>3, <1>10, <1>11

\* startCompression() turns the constant into bits.
LEMMA StartCompressionExact ==
  ASSUME HeapTypes, HeapIsExact, StartCompression
  PROVE  HeapTypes' /\ HeapIsExact'
<1>1. PICK N \in Nat : N = Msb + 1 /\ Columns = 0..(N - 1) /\ Modulus = Pow2[N]
  BY BitHeapAssumption DEF Columns, Modulus
<1>2. PICK d : \A i \in Nat : d[i] = BitOf(constantBits, i)
  <2> WITNESS [i \in Nat |-> BitOf(constantBits, i)]
  <2> QED OBVIOUS
<1>3. (\A i \in 0..(N - 1) : d[i] \in {0, 1}) /\ Weighted(d, N) = constantBits % Pow2[N]
  <2>1. \A i \in 0..(N - 1) : d[i] = (constantBits \div Pow2[i]) % 2
    BY <1>2 DEF BitOf
  <2>2. constantBits \in Int
    BY DEF HeapTypes
  <2> QED BY <2>1, <2>2, BitsOfInteger
<1>4. PICK a : \A c \in Columns : a[c] = bits[c][1]
  <2> WITNESS [c \in Columns |-> bits[c][1]]
  <2> QED OBVIOUS
<1>5. PICK b : \A c \in Columns : b[c] = bits'[c][1]
  <2> WITNESS [c \in Columns |-> bits'[c][1]]
  <2> QED OBVIOUS
<1>6. bits' \in [Columns -> [{0, 1} -> Nat]] /\ \A c \in Columns : bits'[c][1] = bits[c][1] + d[c]
  <2>1. bits' = [c \in Columns |-> WithConstant(c)]
    BY DEF StartCompression
  <2>2. \A c \in Columns : BitOf(constantBits, c) = d[c] /\ d[c] \in {0, 1}
    BY <1>1, <1>2, <1>3
  <2> QED BY <2>1, <2>2 DEF WithConstant, HeapTypes
<1>7. /\ ValueOf(bits) = Weighted(a, N) /\ ValueOf(bits') = Weighted(b, N)
      /\ Weighted(a, N) \in Int
  <2>1. \A i \in 0..(N - 1) : /\ a[i] = [c \in Columns |-> bits[c][1]][i]
                             /\ b[i] = [c \in Columns |-> bits'[c][1]][i]
    BY <1>1, <1>4, <1>5
  <2>2. Weighted([c \in Columns |-> bits[c][1]], N) = Weighted(a, N)
    BY ZenonT(40), <2>1, WeightedEqual
  <2>3. Weighted([c \in Columns |-> bits'[c][1]], N) = Weighted(b, N)
    BY ZenonT(40), <2>1, WeightedEqual
  <2>4. \A i \in 0..(N - 1) : a[i] \in Int
    BY <1>1, <1>4 DEF HeapTypes
  <2>5. Weighted(a, N) \in Int
    BY <2>4, WeightedType
  <2> QED BY <1>1, <2>2, <2>3, <2>5 DEF ValueOf
<1>8. Weighted(b, N) = Weighted(a, N) + Weighted(d, N)
  <2>1. \A i \in 0..(N - 1) : a[i] \in Int /\ d[i] \in Int /\ b[i] = a[i] + d[i]
    BY <1>1, <1>3, <1>4, <1>5, <1>6 DEF HeapTypes
  <2> QED BY <2>1, WeightedAdds
<1>9. PICK M \in Nat \ {0} : M = Modulus
  BY ModulusType
<1>10. PICK q \in Int, r \in Int, t \in Int :
         constantBits = t + r /\ t = M * q /\ r = constantBits % M
  <2>1. PICK k \in Int : k = constantBits
    BY DEF HeapTypes
  <2>2. k \div M \in Int /\ k % M \in Int /\ k = M * (k \div M) + (k % M)
    BY Division
  <2>3. M * (k \div M) \in Int
    BY <2>2
  <2> QED BY <2>1, <2>2, <2>3
<1>11. PICK old \in Int : old = ValueOf(bits)
  BY <1>7
<1>12. ValueOf(bits') = old + r
  BY <1>1, <1>3, <1>7, <1>8, <1>9, <1>10, <1>11
<1>13. (old + constantBits) % M = (old + r) % M
  <2>1. PICK u \in Int, v \in Int : u = old + constantBits /\ v = old + r /\ u = v + t
    BY <1>10
  <2>2. Congruent(u, v, M)
    BY <1>10, <2>1 DEF Congruent
  <2>4. u % M = v % M
    BY <2>2, CongruentRemainder
  <2> QED BY <2>1, <2>4
<1>14. phase = "fill" /\ phase' = "plan" /\ sum' = sum /\ constantBits' = constantBits
  BY DEF StartCompression
<1>15. (old + constantBits) % M = sum
  BY <1>9, <1>11, <1>14 DEF HeapIsExact
<1>16. Modulus' = Modulus /\ Columns' = Columns
  BY DEF Modulus, Columns
<1>17. HeapTypes'
  BY <1>6, <1>14, <1>16 DEF HeapTypes
<1>18. HeapIsExact'
  BY <1>9, <1>12, <1>13, <1>14, <1>15, <1>16 DEF HeapIsExact
<1> QED BY <1>17, <1>18

LEMMA ConstantsExact ==
  ASSUME HeapTypes, HeapIsExact
  PROVE  /\ \A c \in Columns : AddConstantOneBit(c) => HeapTypes' /\ HeapIsExact'
         /\ \A c \in Columns : SubtractConstantOneBit(c) => HeapTypes' /\ HeapIsExact'
         /\ \A k \in Constants, shift \in Shifts :
              AddConstant(k, shift) => HeapTypes' /\ HeapIsExact'
         /\ \A k \in Constants, shift \in Shifts :
              SubtractConstant(k, shift) => HeapTypes' /\ HeapIsExact'
<1>1. ASSUME NEW c \in Columns
      PROVE  AddConstantOneBit(c) \/ SubtractConstantOneBit(c) => HeapTypes' /\ HeapIsExact'
  <2>1. Pow2[c] \in Int /\ -Pow2[c] \in Int
    BY Pow2Def DEF Columns
  <2> QED BY <2>1, ConstantExact DEF AddConstantOneBit, SubtractConstantOneBit
<1>2. ASSUME NEW k \in Constants, NEW shift \in Shifts
      PROVE  AddConstant(k, shift) \/ SubtractConstant(k, shift) => HeapTypes' /\ HeapIsExact'
  <2>1. SUFFICES ASSUME AddConstant(k, shift) \/ SubtractConstant(k, shift)
                 PROVE  HeapTypes' /\ HeapIsExact'
    OBVIOUS
  <2>2. k \in Int /\ shift \in Nat
    BY <2>1, BitHeapAssumption DEF AddConstant, SubtractConstant, InRange
  <2>3. k * Pow2[shift] \in Int /\ -(k * Pow2[shift]) \in Int
    BY <2>2, Pow2Def
  <2> QED BY <2>1, <2>3, ConstantExact DEF AddConstant, SubtractConstant
<1> QED BY <1>1, <1>2

LEMMA FillExact ==
  ASSUME HeapTypes, HeapIsExact, SignsAreKept, Fill
  PROVE  HeapTypes' /\ HeapIsExact'
  BY AddBitExact, ConstantsExact, AddSignalExact, SubtractSignalExact DEF Fill

LEMMA OnesType == \A w \in Int : w >= 0 => OnesFrom(w) \in Int
<1> SUFFICES ASSUME NEW w \in Nat PROVE OnesFrom(w) \in Int
  OBVIOUS
<1>1. Pow2[w] \in Int
  BY Pow2Def
<1> QED BY <1>1, ModulusType DEF OnesFrom

\* Whether a heap has the right types does not depend on what it is worth.
LEMMA FillTypes ==
  ASSUME HeapTypes, Fill
  PROVE  HeapTypes'
<1>1. ASSUME NEW w \in Weights, NEW b \in {0, 1}, AddBit(w, b) PROVE HeapTypes'
  <2>1. b * Pow2[w] \in Int
    BY BitHeapAssumption, Pow2Def
  <2> QED BY <1>1, <2>1, EnterTypes DEF AddBit
<1>2. ASSUME NEW c \in Columns, AddConstantOneBit(c) \/ SubtractConstantOneBit(c) PROVE HeapTypes'
  <2>1. Pow2[c] \in Int /\ -Pow2[c] \in Int
    BY Pow2Def DEF Columns
  <2> QED BY <1>2, <2>1, EnterTypes DEF AddConstantOneBit, SubtractConstantOneBit
<1>3. ASSUME NEW k \in Constants, NEW shift \in Shifts,
             AddConstant(k, shift) \/ SubtractConstant(k, shift)
      PROVE  HeapTypes'
  <2>1. k \in Int /\ shift \in Nat
    BY <1>3, BitHeapAssumption DEF AddConstant, SubtractConstant, InRange
  <2>2. k * Pow2[shift] \in Int /\ -(k * Pow2[shift]) \in Int
    BY <2>1, Pow2Def
  <2> QED BY <1>3, <2>2, EnterTypes DEF AddConstant, SubtractConstant
<1>4. ASSUME NEW f \in Formats, NEW shift \in Shifts, NEW v \in Values(f),
             AddSignal(f, shift, v) \/ SubtractSignal(f, shift, v)
      PROVE  HeapTypes'
  <2>1. f.lsb + shift \in Nat /\ f.msb + shift \in Nat /\ f.msb + shift + 1 \in Nat
    BY <1>4, BitHeapAssumption DEF AddSignal, SubtractSignal, Columns
  <2>2. /\ v * Pow2[f.lsb + shift] \in Int /\ -(v * Pow2[f.lsb + shift]) \in Int
        /\ Pow2[f.lsb + shift] \in Int
    BY <2>1, ValuesType, Pow2Def
  <2>3. /\ (IF ComplementsSign(f) THEN OnesFrom(f.msb + shift) ELSE 0) \in Int
        /\ Pow2[f.lsb + shift]
             + OnesFrom(IF f.signed THEN f.msb + shift ELSE f.msb + shift + 1) \in Int
    BY <2>1, <2>2, OnesType
  <2>4. CASE AddSignal(f, shift, v)
    BY <2>2, <2>3, <2>4, EnterTypes DEF AddSignal
  <2>5. CASE SubtractSignal(f, shift, v)
    BY <2>2, <2>3, <2>5, EnterTypes DEF SubtractSignal
  <2> QED BY <1>4, <2>4, <2>5
<1> QED BY <1>1, <1>2, <1>3, <1>4 DEF Fill

LEMMA StartTypes ==
  ASSUME HeapTypes, StartCompression
  PROVE  HeapTypes'
<1>1. \A c \in Columns : BitOf(constantBits, c) \in Nat
  <2>1. \A c \in Columns : Pow2[c] \in Nat \ {0}
    BY Pow2Def DEF Columns
  <2>2. constantBits \in Int
    BY DEF HeapTypes
  <2> SUFFICES ASSUME NEW c \in Columns PROVE BitOf(constantBits, c) \in Nat
    OBVIOUS
  <2>3. constantBits \div Pow2[c] \in Int
    BY <2>1, <2>2, Division
  <2> QED BY <2>3 DEF BitOf
<1>2. bits' \in [Columns -> [{0, 1} -> Nat]]
  BY <1>1 DEF HeapTypes, StartCompression, WithConstant
<1>3. Modulus' = Modulus /\ Columns' = Columns
  BY DEF Modulus, Columns
<1> QED BY <1>2, <1>3 DEF HeapTypes, StartCompression

LEMMA HeapStutters ==
  ASSUME HeapTypes, HeapIsExact, UNCHANGED heapVars
  PROVE  HeapTypes' /\ HeapIsExact'
  BY DEF HeapTypes, HeapIsExact, heapVars, Columns, Modulus, ValueOf

LEMMA HeapInvariant ==
  ASSUME SignsAreKept
  PROVE  HeapSpec => [](HeapTypes /\ HeapIsExact)
<1>1. HeapInit => HeapTypes /\ HeapIsExact
  BY HeapInitTypes
<1>2. ASSUME HeapTypes, HeapIsExact, [HeapNext]_heapVars
      PROVE  HeapTypes' /\ HeapIsExact'
  BY <1>2, FillExact, StartCompressionExact, HeapStutters DEF HeapNext
<1> QED BY <1>1, <1>2, PTL DEF HeapSpec

\* A bit heap that an operator fills holds what was added and subtracted, modulo
\* its range, whatever the signals, the constants and their order, and when
\* compression starts it is still worth it: for every width of heap, of signal
\* and every value.
THEOREM HeapExactness ==
  ASSUME SignsAreKept
  PROVE  HeapSpec => []HeapIsExact
  BY HeapInvariant, PTL

-----------------------------------------------------------------------------
(***************************************************************************)
(* Compressors.                                                            *)
(***************************************************************************)
LEMMA CompressorTypes ==
  \A e \in Kinds : /\ Compressors[e].low \in 1..6 /\ Compressors[e].high \in 0..2
                   /\ Compressors[e].area \in 1..3
  BY DEF Kinds, Compressors, Kind

\* intlog2() is the number of bits of a number.
LEMMA IntLog2Bound ==
  ASSUME NEW n \in Nat \ {0}
  PROVE  /\ IntLog2(n) \in 1..n
         /\ Pow2[IntLog2(n) - 1] <= n /\ n < Pow2[IntLog2(n)]
<1> DEFINE S == {k \in Nat : k < Pow2[k]}
           T == {k \in Nat : n < Pow2[k]}
<1>1. \A k \in Nat : k \in S
  <2>1. 0 \in S
    BY Pow2Def
  <2>2. ASSUME NEW k \in Nat, k \in S PROVE k + 1 \in S
    <3>1. Pow2[k + 1] = 2 * Pow2[k] /\ Pow2[k] \in Nat \ {0}
      BY Pow2Def
    <3> QED BY <2>2, <3>1
  <2> HIDE DEF S
  <2> QED BY <2>1, <2>2, Induction
<1>2. n \in T
  BY <1>1
<1>3. PICK k \in T : \A j \in T : k <= j
  BY <1>2, LeastNatural
<1>4. k \in 1..n /\ k - 1 \in Nat
  BY <1>2, <1>3, Pow2Def
<1>5. Pow2[k - 1] <= n /\ n < Pow2[k]
  <2>1. Pow2[k - 1] \in Nat
    BY <1>4, Pow2Def
  <2> QED BY <1>3, <1>4, <2>1
<1>6. IntLog2(n) = CHOOSE j \in 1..n : Pow2[j - 1] <= n /\ n < Pow2[j]
  BY DEF IntLog2
<1> QED BY <1>4, <1>5, <1>6

LEMMA WOutBound ==
  ASSUME NEW e \in Kinds
  PROVE  /\ WOut[e] \in Nat \ {0}
         /\ Compressors[e].low + 2 * Compressors[e].high < Pow2[WOut[e]]
<1>1. PICK n \in Nat \ {0} : n = Compressors[e].low + 2 * Compressors[e].high
  BY CompressorTypes
<1>2. IntLog2(n) \in 1..n /\ n < Pow2[IntLog2(n)]
  BY IntLog2Bound
<1>3. WOut[e] = IntLog2(n)
  BY <1>1 DEF WOut
<1> QED BY <1>1, <1>2, <1>3

LEMMA InputsTypes ==
  \A e \in Kinds, at \in PlanColumns, c \in Int : /\ Inputs(e, at, c) \in 0..6
                                                 /\ Outputs(e, at, c) \in {0, 1}
  BY CompressorTypes, BitHeapAssumption DEF Inputs, Outputs, PlanColumns

-----------------------------------------------------------------------------
(***************************************************************************)
(* The final adder.                                                        *)
(***************************************************************************)
HeapType == [Columns -> [{0, 1} -> Nat]]

LEMMA FirstTallBelow ==
  ASSUME bits \in HeapType
  PROVE  /\ FirstTall \in 0..(Msb + 1)
         /\ \A c \in 0..(FirstTall - 1) : bits[c][1] \in {0, 1}
<1> DEFINE tall == {c \in Columns : Height(c) > 1}
<1>1. FirstTall \in 0..(Msb + 1) /\ \A c \in 0..(FirstTall - 1) : c \in Columns /\ c \notin tall
  <2>1. CASE tall = {}
    <3>1. FirstTall = Msb + 1
      BY <2>1 DEF FirstTall
    <3> QED BY <2>1, <3>1, BitHeapAssumption DEF Columns
  <2>2. CASE tall # {}
    <3>1. tall \in SUBSET Nat
      BY DEF Columns
    <3> FirstTall = Min(tall)
      BY <2>2 DEF FirstTall
    <3> HIDE DEF tall
    <3>2. PICK x \in tall : \A y \in tall : x <= y
      BY <2>2, <3>1, LeastNatural
    <3>3. FirstTall \in tall /\ \A y \in tall : FirstTall <= y
      BY <3>2 DEF Min
    <3>4. FirstTall \in Columns
      BY <3>3 DEF tall
    <3>5. \A c \in 0..(FirstTall - 1) : c \notin tall
      BY <3>3, <3>4 DEF Columns
    <3> QED BY <3>4, <3>5, BitHeapAssumption DEF Columns
  <2> QED BY <2>1, <2>2
<1>2. ASSUME NEW c \in 0..(FirstTall - 1)
      PROVE  bits[c][1] \in {0, 1}
  <2>1. c \in Columns /\ ~(Height(c) > 1)
    BY <1>1
  <2>2. bits[c][0] \in Nat /\ bits[c][1] \in Nat
    BY <2>1 DEF HeapType
  <2> QED BY <2>1, <2>2 DEF Height
<1> QED BY <1>1, <1>2

\* The low bits as they are and the sum of the others are the value of the heap,
\* modulo its range.
LEMMA AdderValue ==
  ASSUME bits \in HeapType
  PROVE  /\ Chunk + AdderOut * Pow2[FirstTall] \in 0..(Modulus - 1)
         /\ Chunk + AdderOut * Pow2[FirstTall] = ValueOf(bits) % Modulus
<1>1. PICK F \in Nat, N \in Nat, n \in Nat : F = FirstTall /\ N = Msb + 1 /\ n = N - F /\ N = F + n
  BY FirstTallBelow, BitHeapAssumption
<1>2. PICK a : \A c \in 0..(N - 1) : a[c] = bits[c][1]
  <2> WITNESS [c \in 0..(N - 1) |-> bits[c][1]]
  <2> QED OBVIOUS
<1>3. PICK u : \A k \in 0..(n - 1) : u[k] = bits[F + k][1]
  <2> WITNESS [k \in 0..(n - 1) |-> bits[F + k][1]]
  <2> QED OBVIOUS
<1>4. Columns = 0..(N - 1)
  BY <1>1, BitHeapAssumption DEF Columns
<1>5. \A c \in 0..(N - 1) : a[c] \in Int
  BY <1>2, <1>4 DEF HeapType
<1>6. \A k \in 0..(n - 1) : u[k] \in Int /\ a[F + k] = u[k]
  <2> SUFFICES ASSUME NEW k \in 0..(n - 1) PROVE u[k] \in Int /\ a[F + k] = u[k]
    OBVIOUS
  <2>1. F + k \in 0..(N - 1)
    BY <1>1
  <2> QED BY <1>2, <1>3, <1>5, <2>1
<1>7. ValueOf(bits) = Weighted(a, N)
  <2>1. \A i \in 0..(N - 1) : [c \in Columns |-> bits[c][1]][i] = a[i]
    BY <1>2, <1>4
  <2>2. Weighted([c \in Columns |-> bits[c][1]], N) = Weighted(a, N)
    BY <2>1, WeightedEqual
  <2> QED BY <1>1, <2>2, BitHeapAssumption DEF ValueOf
<1>8. PICK w \in Int : w = Weighted(u, n)
  <2>1. \A k \in 0..(n - 1) : u[k] \in Int
    BY <1>6
  <2> QED BY <2>1, WeightedType
<1>9. PICK A \in Nat \ {0}, P \in Nat \ {0} : A = Pow2[F] /\ P = Pow2[n] /\ Modulus = A * P
  <2>1. PICK A \in Nat \ {0}, P \in Nat \ {0} : A = Pow2[F] /\ P = Pow2[n]
    BY Pow2Def
  <2>2. Pow2[F + n] = A * P
    BY <2>1, Pow2Sum
  <2>3. Modulus = Pow2[F + n]
    BY <1>1, BitHeapAssumption DEF Modulus
  <2> QED BY <2>1, <2>2, <2>3
<1>10. PICK x \in 0..(A - 1) : x = Weighted(a, F)
  <2>1. PICK e : \A k \in 0..(F - 1) : e[k] = 1 - a[k]
    <3> WITNESS [k \in 0..(F - 1) |-> 1 - a[k]]
    <3> QED OBVIOUS
  <2>2. \A k \in 0..(F - 1) : a[k] \in {0, 1} /\ e[k] = 1 - a[k]
    <3>1. \A k \in 0..(F - 1) : bits[k][1] \in {0, 1}
      BY <1>1, FirstTallBelow
    <3>2. \A k \in 0..(F - 1) : k \in 0..(N - 1)
      BY <1>1
    <3> QED BY <1>2, <2>1, <3>1, <3>2
  <2> QED BY <1>9, <2>2, WeightedBits
<1>11. Weighted(a, N) = x + A * w
  <2>1. \A k \in 0..(F - 1) : a[k] \in Int
    BY <1>1, <1>5
  <2>2. Weighted(a, F + n) = Weighted(a, F) + Pow2[F] * Weighted(u, n)
    <3>1. SplitsAt(a, u, F, n)
      BY <1>6, <2>1 DEF SplitsAt
    <3> QED BY <3>1, WeightedSplitsAt
  <2> QED BY <1>1, <1>8, <1>9, <1>10, <2>2
<1>12. Chunk = x
  <2>1. \A i \in 0..(F - 1) : [c \in Columns |-> bits[c][1]][i] = a[i]
    BY <1>1, <1>2, <1>4
  <2>2. Weighted([c \in Columns |-> bits[c][1]], F) = Weighted(a, F)
    BY <2>1, WeightedEqual
  <2> QED BY <1>1, <1>10, <2>2 DEF Chunk
<1>13. AdderOut = w % P
  <2>1. \A i \in 0..(n - 1) : [k \in 0..(Msb - FirstTall) |-> bits[FirstTall + k][1]][i] = u[i]
    BY <1>1, <1>3, BitHeapAssumption
  <2>2. Weighted([k \in 0..(Msb - FirstTall) |-> bits[FirstTall + k][1]], n) = Weighted(u, n)
    BY <2>1, WeightedEqual
  <2>3. Msb + 1 - FirstTall = n
    BY <1>1, BitHeapAssumption
  <2> QED BY <1>8, <1>9, <2>2, <2>3 DEF AdderOut
<1>14. PICK q \in Int, r \in 0..(P - 1) : w = P * q + r /\ r = w % P
  BY Division
<1>15. PICK y \in 0..(Modulus - 1) : y = x + A * r
  <2>1. PICK s \in Nat : s = P - 1 - r
    OBVIOUS
  <2>2. A * P = A * r + A * s + A /\ A * s \in Nat /\ A * r \in Nat
    BY <2>1
  <2> QED BY <1>9, <2>2
<1>16. Weighted(a, N) = Modulus * q + y
  <2>1. A * (P * q + r) = (A * P) * q + A * r
    OBVIOUS
  <2> QED BY <1>9, <1>11, <1>14, <1>15, <2>1
<1>17. Weighted(a, N) % Modulus = y
  BY <1>15, <1>16, ModulusType, DivisionUnique
<1> QED BY <1>1, <1>7, <1>9, <1>12, <1>13, <1>14, <1>15, <1>17

-----------------------------------------------------------------------------
(***************************************************************************)
(* Types.                                                                  *)
(***************************************************************************)
StagePlaced == {p \in Seq(Kinds \X PlanColumns) : Len(p) <= MaxPlaced}
Stage == [placed : StagePlaced, empty : [PlanColumns -> Nat]]

PlanTypes ==
  /\ method \in Methods
  /\ bitAmount \in [PlanColumns -> Int]
  /\ nextAmount \in [PlanColumns -> Nat]
  /\ placed \in StagePlaced
  /\ solution \in Seq(Stage)
ApplyTypes ==
  /\ stage \in 1..(Len(solution) + 1)
  /\ emptyInputs \in [PlanColumns -> Nat]
  /\ applied \subseteq 1..MaxPlaced
  /\ justAdded \in HeapType
  /\ result \in -1..(Modulus - 1)
CompressionTypes ==
  /\ phase \in {"fill", "plan", "apply", "done"}
  /\ constantBits \in -MaxConstant..MaxConstant
  /\ HeapTypes
  /\ PlanTypes
  /\ ApplyTypes

LEMMA InitTypes == Init => CompressionTypes
<1> SUFFICES ASSUME Init PROVE CompressionTypes
  OBVIOUS
<1>1. HeapTypes /\ phase = "fill" /\ constantBits = 0
  BY HeapInitTypes DEF Init, HeapInit
<1>2. PlanTypes
  BY CompressionAssumption DEF PlanTypes, Init, NoAmount, StagePlaced
<1>3. ApplyTypes
  BY ModulusType DEF ApplyTypes, Init, NoAmount, NoBits, HeapType
<1> QED BY <1>1, <1>2, <1>3, BitHeapAssumption DEF CompressionTypes

LEMMA FillStepTypes ==
  ASSUME CompressionTypes, Fill, UNCHANGED <<planVars, applyVars>>
  PROVE  CompressionTypes'
<1>1. HeapTypes'
  BY FillTypes DEF CompressionTypes
<1>2. phase' = phase /\ constantBits' \in -MaxConstant..MaxConstant
  BY DEF Fill, Enter, AddBit, AddConstantOneBit, SubtractConstantOneBit, AddConstant,
         SubtractConstant, AddSignal, SubtractSignal
<1> QED BY <1>1, <1>2 DEF CompressionTypes, PlanTypes, ApplyTypes, planVars, applyVars

LEMMA StartStepTypes ==
  ASSUME CompressionTypes, Start
  PROVE  CompressionTypes'
<1>1. HeapTypes' /\ phase' = "plan" /\ constantBits' = constantBits
  BY StartTypes DEF CompressionTypes, Start, StartCompression
<1>2. bitAmount' \in [PlanColumns -> Int]
  BY <1>1 DEF Start, HeapTypes
<1> QED BY <1>1, <1>2 DEF CompressionTypes, PlanTypes, ApplyTypes, Start, applyVars

LEMMA PlaceTypes ==
  ASSUME CompressionTypes, NEW e \in Kinds, NEW at \in PlanColumns, Place(e, at)
  PROVE  CompressionTypes'
<1>1. bitAmount' \in [PlanColumns -> Int] /\ nextAmount' \in [PlanColumns -> Nat]
  <2>1. \A c \in PlanColumns : Inputs(e, at, c) \in Int /\ Outputs(e, at, c) \in Nat
    BY InputsTypes DEF PlanColumns
  <2>2. /\ bitAmount \in [PlanColumns -> Int] /\ nextAmount \in [PlanColumns -> Nat]
        /\ bitAmount' = [c \in PlanColumns |-> bitAmount[c] - Inputs(e, at, c)]
        /\ nextAmount' = [c \in PlanColumns |-> nextAmount[c] + Outputs(e, at, c)]
    BY DEF Place, CompressionTypes, PlanTypes
  <2> QED BY <2>1, <2>2
<1>2. placed' \in StagePlaced
  BY CompressionAssumption DEF Place, CompressionTypes, PlanTypes, StagePlaced
<1> QED BY <1>1, <1>2 DEF CompressionTypes, PlanTypes, ApplyTypes, HeapTypes, Place, heapVars, applyVars

LEMMA FinishStageTypes ==
  ASSUME CompressionTypes, FinishStage
  PROVE  CompressionTypes'
<1>1. \A c \in PlanColumns : EmptyInputs(c) \in Nat /\ Remaining(c) \in Nat
  BY DEF CompressionTypes, PlanTypes, EmptyInputs, Remaining, AtLeastZero
<1>2. bitAmount' \in [PlanColumns -> Int] /\ nextAmount' \in [PlanColumns -> Nat]
  BY <1>1 DEF FinishStage, CompressionTypes, PlanTypes, NoAmount
<1>3. placed' \in StagePlaced
  BY CompressionAssumption DEF FinishStage, StagePlaced
<1>4. solution' \in Seq(Stage) /\ Len(solution') = Len(solution) + 1
  <2>1. PICK x \in Stage : solution' = Append(solution, x)
    <3>1. [placed |-> placed, empty |-> [c \in PlanColumns |-> EmptyInputs(c)]] \in Stage
      BY <1>1 DEF Stage, CompressionTypes, PlanTypes
    <3> QED BY <3>1 DEF FinishStage
  <2>2. solution \in Seq(Stage)
    BY DEF CompressionTypes, PlanTypes
  <2>3. Append(solution, x) \in Seq(Stage) /\ Len(Append(solution, x)) = Len(solution) + 1
    BY <2>2
  <2> QED BY <2>1, <2>3
<1>5. UNCHANGED <<heapVars, method, applyVars>>
  BY DEF FinishStage
<1>6. stage' \in 1..(Len(solution') + 1)
  BY <1>4, <1>5 DEF CompressionTypes, PlanTypes, ApplyTypes, applyVars
<1> QED BY <1>2, <1>3, <1>4, <1>5, <1>6
        DEF CompressionTypes, PlanTypes, ApplyTypes, HeapTypes, heapVars, applyVars

LEMMA EmptyAtType ==
  ASSUME CompressionTypes, NEW s
  PROVE  EmptyAt(s) \in [PlanColumns -> Nat]
<1>1. CASE s \in DOMAIN solution
  <2>1. solution[s] \in Stage
    BY <1>1 DEF CompressionTypes, PlanTypes
  <2> QED BY <1>1, <2>1 DEF EmptyAt, Stage
<1>2. CASE s \notin DOMAIN solution
  BY <1>2 DEF EmptyAt, NoAmount
<1> QED BY <1>1, <1>2

LEMMA PlanCompleteTypes ==
  ASSUME CompressionTypes, PlanComplete
  PROVE  CompressionTypes'
<1>1. emptyInputs' \in [PlanColumns -> Nat]
  BY EmptyAtType DEF PlanComplete
<1> QED BY <1>1 DEF CompressionTypes, PlanTypes, ApplyTypes, HeapTypes, PlanComplete, planVars

LEMMA EndStageTypes ==
  ASSUME CompressionTypes, EndStage
  PROVE  CompressionTypes'
<1>1. emptyInputs' \in [PlanColumns -> Nat]
  BY EmptyAtType DEF EndStage
<1>2. bits' \in HeapType /\ justAdded' \in HeapType
  BY DEF EndStage, Merged, NoBits, CompressionTypes, HeapTypes, ApplyTypes, HeapType
<1>3. stage' \in 1..(Len(solution') + 1) /\ applied' \subseteq 1..MaxPlaced
  <2>1. stage \in 1..Len(solution) /\ Len(solution) \in Nat /\ solution' = solution
    BY DEF EndStage, Applying, CompressionTypes, PlanTypes, planVars
  <2> QED BY <2>1 DEF EndStage
<1>4. bits' \in [Columns -> [{0, 1} -> Nat]]
  BY <1>2 DEF HeapType
<1> QED BY <1>1, <1>2, <1>3, <1>4
        DEF CompressionTypes, PlanTypes, ApplyTypes, HeapTypes, EndStage, planVars

LEMMA FinalAddTypes ==
  ASSUME CompressionTypes, FinalAdd
  PROVE  CompressionTypes'
<1>1. result' \in 0..(Modulus - 1)
  <2>1. bits \in HeapType
    BY DEF CompressionTypes, HeapTypes, HeapType
  <2> QED BY <2>1, AdderValue DEF FinalAdd
<1>2. result' \in -1..(Modulus - 1)
  BY <1>1, ModulusType
<1> QED BY <1>2 DEF CompressionTypes, PlanTypes, ApplyTypes, HeapTypes, FinalAdd, planVars

\* One step of the application: the compressor i of the stage, of kind e at
\* column at, takes low and high ones.
Takes(e, at, c) == Taken(Inputs(e, at, c), c)
OnesTaken(at, low, high, c) == CASE c = at -> low [] c = at + 1 -> high [] OTHER -> 0
ApplyStep(i, e, at, low, high) ==
  /\ Applying
  /\ i \in Pending
  /\ solution[stage].placed[i] = <<e, at>>
  /\ applied' = applied \cup {i}
  /\ emptyInputs' = [c \in PlanColumns |-> AtLeastZero(emptyInputs[c] - Inputs(e, at, c))]
  /\ low \in OnesAmong(Takes(e, at, at), at)
  /\ high \in OnesAmong(Takes(e, at, at + 1), at + 1)
  /\ bits' = [c \in Columns |-> [b \in {0, 1} |-> bits[c][b] -
                IF b = 1 THEN OnesTaken(at, low, high, c)
                         ELSE Takes(e, at, c) - OnesTaken(at, low, high, c)]]
  /\ justAdded' = OutputBits(e, at, low + 2 * high)
  /\ UNCHANGED <<phase, constantBits, sum, planVars, stage, result>>

\* Compressors of the stage that is being applied.
LEMMA PlacedTypes ==
  ASSUME CompressionTypes, Applying, NEW i \in DOMAIN solution[stage].placed
  PROVE  /\ i \in 1..MaxPlaced
         /\ solution[stage].placed[i] \in Kinds \X PlanColumns
<1>1. solution[stage] \in Stage
  BY DEF CompressionTypes, PlanTypes, Applying
<1>2. solution[stage].placed \in Seq(Kinds \X PlanColumns) /\ Len(solution[stage].placed) <= MaxPlaced
  BY <1>1 DEF Stage, StagePlaced
<1> QED BY <1>2, CompressionAssumption

LEMMA ApplyWitness ==
  ASSUME CompressionTypes, ApplyCompressor
  PROVE  \E i \in 1..MaxPlaced, e \in Kinds, at \in Columns :
           \E low, high : ApplyStep(i, e, at, low, high)
<1>1. Applying
  BY DEF ApplyCompressor
<1>2. PICK i \in Pending :
        LET e == solution[stage].placed[i][1]
            at == solution[stage].placed[i][2]
        IN /\ applied' = applied \cup {i}
           /\ emptyInputs' = [c \in PlanColumns |-> AtLeastZero(emptyInputs[c] - Inputs(e, at, c))]
           /\ \E low \in OnesAmong(Takes(e, at, at), at), high \in OnesAmong(Takes(e, at, at + 1), at + 1) :
                /\ bits' = [c \in Columns |-> [b \in {0, 1} |-> bits[c][b] -
                              IF b = 1 THEN OnesTaken(at, low, high, c)
                                       ELSE Takes(e, at, c) - OnesTaken(at, low, high, c)]]
                /\ justAdded' = OutputBits(e, at, low + 2 * high)
  BY DEF ApplyCompressor, Takes, OnesTaken
<1>3. /\ i \in DOMAIN solution[stage].placed
      /\ solution[stage].placed[i][2] \in Columns
  BY <1>2 DEF Pending, InHeap
<1>4. i \in 1..MaxPlaced /\ solution[stage].placed[i] \in Kinds \X PlanColumns
  BY <1>1, <1>3, PlacedTypes
<1>5. PICK e \in Kinds, at \in Columns : /\ solution[stage].placed[i] = <<e, at>>
                                         /\ solution[stage].placed[i][1] = e
                                         /\ solution[stage].placed[i][2] = at
  BY <1>3, <1>4
<1>6. UNCHANGED <<phase, constantBits, sum, planVars, stage, result>>
  BY DEF ApplyCompressor
<1>7. PICK low, high : ApplyStep(i, e, at, low, high)
  BY <1>1, <1>2, <1>5, <1>6 DEF ApplyStep
<1> QED BY <1>4, <1>7

\* What a compressor takes of a column is there, and no more than its inputs.
LEMMA TakenBounds ==
  ASSUME CompressionTypes, NEW e \in Kinds, NEW at \in Columns, NEW low, NEW high,
         low \in OnesAmong(Takes(e, at, at), at),
         high \in OnesAmong(Takes(e, at, at + 1), at + 1)
  PROVE  /\ low \in 0..Compressors[e].low /\ high \in 0..Compressors[e].high
         /\ at + 1 \notin Columns => high = 0
         /\ \A c \in Columns :
              /\ Takes(e, at, c) \in 0..Height(c)
              /\ Takes(e, at, c) <= Inputs(e, at, c)
              /\ OnesTaken(at, low, high, c) \in 0..bits[c][1]
              /\ Takes(e, at, c) - OnesTaken(at, low, high, c) \in 0..bits[c][0]
<1>1. /\ at \in Nat /\ at \in PlanColumns /\ \A c \in Columns : c \in Int /\ c \in PlanColumns
  BY BitHeapAssumption DEF Columns, PlanColumns
<1>2. \A c \in Columns : /\ bits[c][0] \in Nat /\ bits[c][1] \in Nat /\ emptyInputs[c] \in Nat
                         /\ Height(c) = bits[c][0] + bits[c][1]
  BY <1>1 DEF CompressionTypes, HeapTypes, ApplyTypes, Height
<1>3. \A c \in Int : Inputs(e, at, c) \in Nat
  BY <1>1, InputsTypes
<1>4. ASSUME NEW c \in Columns
      PROVE  Takes(e, at, c) \in 0..Height(c) /\ Takes(e, at, c) <= Inputs(e, at, c)
  <2>1. PICK x \in Nat, y \in Nat, h \in Nat : x = Inputs(e, at, c) /\ y = emptyInputs[c] /\ h = Height(c)
    BY <1>1, <1>2, <1>3
  <2>2. Takes(e, at, c) = AtMost(AtLeastZero(x - y), h)
    BY <2>1 DEF Takes, Taken
  <2>3. AtLeastZero(x - y) \in Nat /\ AtLeastZero(x - y) <= x
    BY DEF AtLeastZero
  <2> QED BY <2>1, <2>2, <2>3 DEF AtMost
<1>5. ASSUME NEW c \in Columns, NEW k \in OnesAmong(Takes(e, at, c), c)
      PROVE  /\ k \in 0..bits[c][1] /\ Takes(e, at, c) - k \in 0..bits[c][0]
             /\ k \in 0..Inputs(e, at, c)
  <2>1. k \in 0..Takes(e, at, c) /\ k <= bits[c][1] /\ Takes(e, at, c) - k <= bits[c][0]
    BY <1>5 DEF OnesAmong
  <2>2. PICK t \in Nat, x \in Nat, y \in Nat, z \in Nat :
          t = Takes(e, at, c) /\ x = bits[c][1] /\ y = bits[c][0] /\ z = Inputs(e, at, c) /\ t <= z
    <3>1. bits[c][1] \in Nat /\ bits[c][0] \in Nat /\ Height(c) \in Nat
      BY <1>2
    <3>2. Inputs(e, at, c) \in Nat
      BY <1>1, <1>3
    <3>3. Takes(e, at, c) \in Nat /\ Takes(e, at, c) <= Inputs(e, at, c)
      BY <1>4, <3>1
    <3> QED BY <3>1, <3>2, <3>3
  <2> QED BY <2>1, <2>2
<1>6. Inputs(e, at, at) = Compressors[e].low /\ Inputs(e, at, at + 1) = Compressors[e].high
  BY <1>1 DEF Inputs
<1>7. low \in 0..Compressors[e].low
  BY <1>5, <1>6
<1>8. high \in 0..Compressors[e].high /\ (at + 1 \notin Columns => high = 0)
  <2>1. CASE at + 1 \in Columns
    BY <1>5, <1>6, <2>1
  <2>2. CASE at + 1 \notin Columns
    BY <2>2, CompressorTypes DEF OnesAmong
  <2> QED BY <2>1, <2>2
<1>9. ASSUME NEW c \in Columns
      PROVE  /\ OnesTaken(at, low, high, c) \in 0..bits[c][1]
             /\ Takes(e, at, c) - OnesTaken(at, low, high, c) \in 0..bits[c][0]
  <2>1. CASE c = at
    BY <1>5, <2>1 DEF OnesTaken
  <2>2. CASE c = at + 1
    <3>1. OnesTaken(at, low, high, c) = high
      BY <1>1, <2>2 DEF OnesTaken
    <3> QED BY <1>5, <2>2, <3>1
  <2>3. CASE c # at /\ c # at + 1
    <3>1. Inputs(e, at, c) = 0 /\ OnesTaken(at, low, high, c) = 0
      BY <2>3 DEF Inputs, OnesTaken
    <3> QED BY <1>2, <1>4, <3>1
  <2> QED BY <2>1, <2>2, <2>3
<1> QED BY <1>4, <1>7, <1>8, <1>9

\* The bits that leave and the bits that arrive keep the types.
LEMMA OutputBitsType ==
  ASSUME CompressionTypes, NEW e \in Kinds, NEW at \in Columns, NEW count \in Nat
  PROVE  OutputBits(e, at, count) \in HeapType
  BY DEF OutputBits, HeapType, CompressionTypes, ApplyTypes

LEMMA ApplyTypesStep ==
  ASSUME CompressionTypes, ApplyCompressor
  PROVE  CompressionTypes'
<1>0. PICK i \in 1..MaxPlaced, e \in Kinds, at \in Columns :
        \E low, high : ApplyStep(i, e, at, low, high)
  BY ApplyWitness
<1>1. PICK low, high : ApplyStep(i, e, at, low, high)
  BY <1>0
<1>2. /\ low \in OnesAmong(Takes(e, at, at), at) /\ high \in OnesAmong(Takes(e, at, at + 1), at + 1)
      /\ applied' = applied \cup {i}
      /\ emptyInputs' = [c \in PlanColumns |-> AtLeastZero(emptyInputs[c] - Inputs(e, at, c))]
      /\ bits' = [c \in Columns |-> [b \in {0, 1} |-> bits[c][b] -
                    IF b = 1 THEN OnesTaken(at, low, high, c)
                             ELSE Takes(e, at, c) - OnesTaken(at, low, high, c)]]
      /\ justAdded' = OutputBits(e, at, low + 2 * high)
      /\ UNCHANGED <<phase, constantBits, sum, planVars, stage, result>>
  BY <1>1 DEF ApplyStep
<1>3. low + 2 * high \in Nat
  <2>1. low \in 0..Compressors[e].low /\ high \in 0..Compressors[e].high
    BY <1>2, TakenBounds
  <2> QED BY <2>1, CompressorTypes
<1>4. justAdded' \in HeapType
  BY <1>2, <1>3, OutputBitsType
<1>5. bits' \in [Columns -> [{0, 1} -> Nat]]
  <2>1. \A c \in Columns : /\ OnesTaken(at, low, high, c) \in 0..bits[c][1]
                           /\ Takes(e, at, c) - OnesTaken(at, low, high, c) \in 0..bits[c][0]
    BY <1>2, TakenBounds
  <2>2. \A c \in Columns : bits[c][0] \in Nat /\ bits[c][1] \in Nat
    BY DEF CompressionTypes, HeapTypes
  <2>3. ASSUME NEW c \in Columns, NEW b \in {0, 1}
        PROVE  bits[c][b] - (IF b = 1 THEN OnesTaken(at, low, high, c)
                             ELSE Takes(e, at, c) - OnesTaken(at, low, high, c)) \in Nat
    BY <2>1, <2>2
  <2> QED BY <1>2, <2>3
<1>6. emptyInputs' \in [PlanColumns -> Nat]
  <2>1. \A c \in PlanColumns : Inputs(e, at, c) \in Nat /\ emptyInputs[c] \in Nat
    <3>1. at \in PlanColumns /\ \A c \in PlanColumns : c \in Int
      BY BitHeapAssumption DEF PlanColumns, Columns
    <3>2. \A c \in PlanColumns : Inputs(e, at, c) \in Nat
      BY <3>1, InputsTypes
    <3>3. emptyInputs \in [PlanColumns -> Nat]
      BY DEF CompressionTypes, ApplyTypes
    <3> QED BY <3>2, <3>3
  <2>2. \A c \in PlanColumns : AtLeastZero(emptyInputs[c] - Inputs(e, at, c)) \in Nat
    BY <2>1 DEF AtLeastZero
  <2> QED BY <1>2, <2>2
<1> QED BY <1>2, <1>4, <1>5, <1>6 DEF CompressionTypes, PlanTypes, ApplyTypes, HeapTypes, planVars

LEMMA PlaceWitness ==
  ASSUME PlaceMostEfficient \/ PlaceInTallest
  PROVE  \E e \in Kinds, at \in PlanColumns : Place(e, at)
<1>1. CASE PlaceMostEfficient
  <2>1. PICK p \in Kinds \X PlanColumns : Place(p[1], p[2])
    BY <1>1 DEF PlaceMostEfficient, Best, Worthwhile
  <2> QED BY <2>1
<1>2. CASE PlaceInTallest
  <2>1. PICK at \in PlanColumns, e \in Kinds : Place(e, SearchedAt(Efficiencies, e, at))
    BY <1>2 DEF PlaceInTallest, Tallest, Reducible, BestAt
  <2>2. SearchedAt(Efficiencies, e, at) \in PlanColumns
    <3>1. \/ SearchedAt(Efficiencies, e, at) = at
          \/ at > 0 /\ SearchedAt(Efficiencies, e, at) = at - 1
      BY Zenon DEF SearchedAt
    <3> QED BY <3>1, BitHeapAssumption DEF PlanColumns
  <2> QED BY <2>1, <2>2
<1> QED BY <1>1, <1>2

LEMMA CompressionTypesStep ==
  ASSUME CompressionTypes, [Next]_vars
  PROVE  CompressionTypes'
<1>1. CASE Fill /\ UNCHANGED <<planVars, applyVars>>
  BY <1>1, FillStepTypes
<1>2. CASE Start
  BY <1>2, StartStepTypes
<1>3. CASE PlaceMostEfficient \/ PlaceInTallest
  BY <1>3, PlaceWitness, PlaceTypes
<1>4. CASE FinishStage
  BY <1>4, FinishStageTypes
<1>5. CASE PlanComplete
  BY <1>5, PlanCompleteTypes
<1>6. CASE ApplyCompressor
  BY <1>6, ApplyTypesStep
<1>7. CASE EndStage
  BY <1>7, EndStageTypes
<1>8. CASE FinalAdd
  BY <1>8, FinalAddTypes
<1>9. CASE UNCHANGED vars
  BY <1>9 DEF CompressionTypes, HeapTypes, PlanTypes, ApplyTypes, vars, heapVars, planVars, applyVars
<1> QED BY <1>1, <1>2, <1>3, <1>4, <1>5, <1>6, <1>7, <1>8, <1>9 DEF Next, Compress

LEMMA CompressionAlwaysTyped == Spec => []CompressionTypes
  BY InitTypes, CompressionTypesStep, PTL DEF Spec

\* The bits of a heap under compression, its plan and its result are what they
\* should be: no column ever has fewer bits than none, and the result fits the
\* heap.
THEOREM CompressionTypeCorrect == Spec => []TypeOK
<1>1. ASSUME CompressionTypes PROVE TypeOK
  <2>1. placed \in Seq(Kinds \X PlanColumns)
    BY <1>1 DEF CompressionTypes, PlanTypes, StagePlaced
  <2>2. ASSUME NEW s \in DOMAIN solution
        PROVE  solution[s] \in [placed : Seq(Kinds \X PlanColumns), empty : [PlanColumns -> Nat]]
    <3>1. solution[s] \in Stage
      BY <1>1 DEF CompressionTypes, PlanTypes
    <3>2. solution[s].placed \in Seq(Kinds \X PlanColumns)
      BY <3>1 DEF Stage, StagePlaced
    <3> QED BY <3>1, <3>2 DEF Stage
  <2> QED BY <1>1, <2>1, <2>2 DEF CompressionTypes, HeapTypes, PlanTypes, ApplyTypes, TypeOK, HeapType
<1> QED BY <1>1, CompressionAlwaysTyped, PTL

-----------------------------------------------------------------------------
(***************************************************************************)
(* What the heap is worth.                                                 *)
(***************************************************************************)

\* The heap g holds x[c] ones more than h in each column c.
OnesMore(g, h, x) == \A c \in Columns : x[c] \in Int /\ g[c][1] = h[c][1] + x[c]

LEMMA ValueAdds ==
  ASSUME NEW h \in HeapType, NEW g \in HeapType, NEW x, OnesMore(g, h, x)
  PROVE  /\ ValueOf(g) = ValueOf(h) + Weighted(x, Msb + 1)
         /\ ValueOf(g) \in Int /\ ValueOf(h) \in Int /\ Weighted(x, Msb + 1) \in Int
<1>1. PICK N \in Nat : N = Msb + 1 /\ Columns = 0..(N - 1)
  BY BitHeapAssumption DEF Columns
<1>2. PICK a : \A c \in Columns : a[c] = h[c][1]
  <2> WITNESS [c \in Columns |-> h[c][1]]
  <2> QED OBVIOUS
<1>3. PICK b : \A c \in Columns : b[c] = g[c][1]
  <2> WITNESS [c \in Columns |-> g[c][1]]
  <2> QED OBVIOUS
<1>4. ValueOf(h) = Weighted(a, N) /\ ValueOf(g) = Weighted(b, N)
  <2>1. \A i \in 0..(N - 1) : /\ [c \in Columns |-> h[c][1]][i] = a[i]
                             /\ [c \in Columns |-> g[c][1]][i] = b[i]
    BY <1>1, <1>2, <1>3
  <2>2. Weighted([c \in Columns |-> h[c][1]], N) = Weighted(a, N)
    BY <2>1, WeightedEqual
  <2>3. Weighted([c \in Columns |-> g[c][1]], N) = Weighted(b, N)
    BY <2>1, WeightedEqual
  <2> QED BY <1>1, <2>2, <2>3, BitHeapAssumption DEF ValueOf
<1>5. \A i \in 0..(N - 1) : a[i] \in Int /\ x[i] \in Int /\ b[i] = a[i] + x[i]
  BY <1>1, <1>2, <1>3 DEF OnesMore, HeapType
<1>6. Weighted(b, N) = Weighted(a, N) + Weighted(x, N)
  BY <1>5, WeightedAdds
<1>7. Weighted(a, N) \in Int /\ Weighted(x, N) \in Int
  BY <1>5, WeightedType
<1> QED BY <1>1, <1>4, <1>6, <1>7, BitHeapAssumption

LEMMA NoBitsValue == NoBits \in HeapType /\ ValueOf(NoBits) = 0
<1>1. NoBits \in HeapType
  BY DEF NoBits, HeapType
<1>2. PICK N \in Nat : N = Msb + 1 /\ Columns = 0..(N - 1)
  BY BitHeapAssumption DEF Columns
<1>3. \A i \in 0..(N - 1) : [c \in Columns |-> NoBits[c][1]][i] = 0
  BY <1>2 DEF NoBits
<1>4. Weighted([c \in Columns |-> NoBits[c][1]], N) = 0
  BY <1>3, WeightedZero
<1> QED BY <1>1, <1>2, <1>4, BitHeapAssumption DEF ValueOf

\* x has the ones that a compressor at column at takes from each column.
TakesOnes(x, at, low, high) == \A c \in Columns : x[c] = OnesTaken(at, low, high, c)

\* The ones that a compressor takes are worth the number that it counts, at its
\* column.
LEMMA TakenValue ==
  ASSUME NEW at \in Columns, NEW low \in Int, NEW high \in Int,
         NEW x, TakesOnes(x, at, low, high)
  PROVE  \E q \in Int : Pow2[at] * (low + 2 * high) = Weighted(x, Msb + 1) + Modulus * q
<1>1. at \in Nat /\ at + 2 - 1 = at + 1
  BY DEF Columns
<1>2. PICK d : d[0] = low /\ d[1] = high
  <2> WITNESS [k \in {0, 1} |-> IF k = 0 THEN low ELSE high]
  <2> QED OBVIOUS
<1>3. PICK nb : DOMAIN nb = at..(at + 1) /\ nb[at] = low /\ nb[at + 1] = high
  <2> WITNESS [k \in at..(at + 1) |-> IF k = at THEN low ELSE high]
  <2> QED BY <1>1
<1>4. DigitsEnter(nb, at, 2, d)
  <2>1. \A i \in 0..(2 - 1) : i = 0 \/ i = 1
    OBVIOUS
  <2> QED BY <1>1, <1>2, <1>3, <2>1 DEF DigitsEnter
<1>5. PICK q \in Int : Pow2[at] * Weighted(d, 2) = Weighted(Entering(nb), Msb + 1) + Modulus * q
  BY <1>1, <1>4, SignalBits
<1>6. Weighted(d, 2) = low + 2 * high
  <2>1. \A i \in 0..1 : d[i] \in Int
    <3>1. \A i \in 0..1 : i = 0 \/ i = 1
      OBVIOUS
    <3> QED BY <1>2, <3>1
  <2>2. Weighted(d, 0) = 0 /\ Weighted(d, 0 + 1) = Weighted(d, 0) + d[0] * Pow2[0]
    BY <2>1, WeightedStep
  <2>3. Weighted(d, 1 + 1) = Weighted(d, 1) + d[1] * Pow2[1]
    BY <2>1, WeightedStep
  <2>4. Pow2[0] = 1 /\ Pow2[1] = 2
    <3>1. Pow2[0 + 1] = 2 * Pow2[0] /\ Pow2[0] = 1
      BY Pow2Def
    <3> QED BY <3>1
  <2> QED BY <1>2, <2>2, <2>3, <2>4
<1>7. Weighted(Entering(nb), Msb + 1) = Weighted(x, Msb + 1)
  <2>1. PICK N \in Nat : N = Msb + 1 /\ Columns = 0..(N - 1)
    BY BitHeapAssumption DEF Columns
  <2>2. \A i \in 0..(N - 1) : Entering(nb)[i] = x[i]
    BY <1>1, <1>3, <2>1 DEF Entering, OnesTaken, TakesOnes
  <2>3. Weighted(Entering(nb), N) = Weighted(x, N)
    BY <2>2, WeightedEqual
  <2> QED BY <2>1, <2>3, BitHeapAssumption
<1> QED BY <1>5, <1>6, <1>7

\* And so are its outputs, but for those above the heap.
LEMMA OutputValue ==
  ASSUME justAdded \in HeapType, NEW e \in Kinds, NEW at \in Columns, NEW count \in Nat,
         count < Pow2[WOut[e]]
  PROVE  \E q \in Int :
           ValueOf(OutputBits(e, at, count)) = ValueOf(justAdded) + Pow2[at] * count + Modulus * q
<1>1. PICK n \in Nat \ {0} : n = WOut[e]
  BY WOutBound
<1>2. at \in Nat
  BY DEF Columns
<1>3. PICK d : \A i \in Nat : d[i] = BitOf(count, i)
  <2> WITNESS [i \in Nat |-> BitOf(count, i)]
  <2> QED OBVIOUS
<1>4. (\A i \in 0..(n - 1) : d[i] \in {0, 1}) /\ Weighted(d, n) = count
  <2>1. LowBits(d, count, n)
    BY <1>3 DEF LowBits, BitOf
  <2> QED BY <1>1, <2>1, UnsignedDigits
<1>5. PICK nb : DOMAIN nb = at..(at + n - 1) /\ \A c \in at..(at + n - 1) : nb[c] = d[c - at]
  <2> WITNESS [c \in at..(at + n - 1) |-> d[c - at]]
  <2> QED OBVIOUS
<1>6. DigitsEnter(nb, at, n, d)
  <2>1. \A i \in 0..(n - 1) : d[i] \in Int /\ nb[at + i] = d[i]
    BY <1>2, <1>4, <1>5
  <2> QED BY <1>5, <2>1 DEF DigitsEnter
<1>7. PICK q \in Int : Pow2[at] * count = Weighted(Entering(nb), Msb + 1) + Modulus * q
  BY <1>2, <1>4, <1>6, SignalBits
<1>8. OnesMore(OutputBits(e, at, count), justAdded, Entering(nb))
  <2> SUFFICES ASSUME NEW c \in Columns
               PROVE  /\ Entering(nb)[c] \in Int
                      /\ OutputBits(e, at, count)[c][1] = justAdded[c][1] + Entering(nb)[c]
    BY DEF OnesMore
  <2>1. c \in Nat
    BY DEF Columns
  <2>2. CASE c \in at..(at + n - 1)
    <3>1. c - at \in 0..(n - 1) /\ c - at \in Nat
      BY <1>2, <2>1, <2>2
    <3>2. Entering(nb)[c] = d[c - at] /\ d[c - at] = BitOf(count, c - at) /\ d[c - at] \in {0, 1}
      BY <1>3, <1>4, <1>5, <2>2, <3>1 DEF Entering
    <3>3. Outputs(e, at, c) = 1
      BY <1>1, <3>1 DEF Outputs
    <3> QED BY <3>2, <3>3 DEF OutputBits
  <2>3. CASE c \notin at..(at + n - 1)
    <3>1. Entering(nb)[c] = 0
      BY <1>5, <2>3 DEF Entering
    <3>2. Outputs(e, at, c) = 0
      BY <1>1, <1>2, <2>1, <2>3 DEF Outputs
    <3> QED BY <3>1, <3>2 DEF OutputBits, HeapType
  <2> QED BY <2>2, <2>3
<1>9. OutputBits(e, at, count) \in HeapType
  BY DEF OutputBits, HeapType
<1>10. /\ ValueOf(OutputBits(e, at, count)) = ValueOf(justAdded) + Weighted(Entering(nb), Msb + 1)
       /\ ValueOf(justAdded) \in Int /\ Weighted(Entering(nb), Msb + 1) \in Int
  BY <1>8, <1>9, ValueAdds
<1>11. Modulus * (-q) = -(Modulus * q) /\ Modulus * q \in Int /\ -q \in Int
  BY ModulusType
<1>12. ValueOf(OutputBits(e, at, count)) = ValueOf(justAdded) + Pow2[at] * count + Modulus * (-q)
  BY <1>7, <1>10, <1>11
<1> QED BY <1>11, <1>12

\* Nothing is left of a stage once it is over.
NothingAdded == phase \in {"fill", "plan"} \/ stage \notin DOMAIN solution => justAdded = NoBits

HeapWorth == HeapIsExact /\ ValueIsPreserved /\ NothingAdded /\ ResultIsSum

LEMMA ApplyValue ==
  ASSUME CompressionTypes, ValueIsPreserved, ApplyCompressor
  PROVE  ValueIsPreserved'
<1>0. PICK i \in 1..MaxPlaced, e \in Kinds, at \in Columns :
        \E low, high : ApplyStep(i, e, at, low, high)
  BY ApplyWitness
<1>1. PICK low, high : ApplyStep(i, e, at, low, high)
  BY <1>0
<1>2. /\ low \in OnesAmong(Takes(e, at, at), at) /\ high \in OnesAmong(Takes(e, at, at + 1), at + 1)
      /\ bits' = [c \in Columns |-> [b \in {0, 1} |-> bits[c][b] -
                    IF b = 1 THEN OnesTaken(at, low, high, c)
                             ELSE Takes(e, at, c) - OnesTaken(at, low, high, c)]]
      /\ justAdded' = OutputBits(e, at, low + 2 * high)
      /\ phase = "apply" /\ phase' = "apply" /\ sum' = sum
  BY <1>1 DEF ApplyStep, Applying
<1>3. /\ low \in 0..Compressors[e].low /\ high \in 0..Compressors[e].high
      /\ \A c \in Columns : OnesTaken(at, low, high, c) \in 0..bits[c][1]
  BY <1>2, TakenBounds
<1>4. PICK count \in Nat : count = low + 2 * high /\ count < Pow2[WOut[e]]
  <2>1. PICK L \in Nat, H \in Nat : L = Compressors[e].low /\ H = Compressors[e].high
    BY CompressorTypes
  <2>2. low \in 0..L /\ high \in 0..H /\ L + 2 * H < Pow2[WOut[e]]
    BY <1>3, <2>1, WOutBound
  <2>3. Pow2[WOut[e]] \in Nat
    BY WOutBound, Pow2Def
  <2> QED BY <2>2, <2>3
<1>5. bits \in HeapType /\ justAdded \in HeapType /\ bits' \in HeapType
  <2>1. CompressionTypes'
    BY ApplyTypesStep
  <2>2. Columns' = Columns
    BY DEF Columns
  <2> QED BY <2>1, <2>2 DEF CompressionTypes, HeapTypes, ApplyTypes, HeapType
<1>6. PICK x : \A c \in Columns : x[c] = OnesTaken(at, low, high, c)
  <2> WITNESS [c \in Columns |-> OnesTaken(at, low, high, c)]
  <2> QED OBVIOUS
<1>7. OnesMore(bits, bits', x)
  <2> SUFFICES ASSUME NEW c \in Columns
               PROVE  x[c] \in Int /\ bits[c][1] = bits'[c][1] + x[c]
    BY DEF OnesMore
  <2>1. x[c] \in 0..bits[c][1] /\ bits[c][1] \in Nat
    BY <1>3, <1>5, <1>6 DEF HeapType
  <2>2. bits'[c][1] = bits[c][1] - x[c]
    BY <1>2, <1>6
  <2> QED BY <2>1, <2>2
<1>8. PICK w \in Int, u \in Int, v \in Int :
        /\ w = Weighted(x, Msb + 1) /\ u = ValueOf(bits) /\ v = ValueOf(bits')
        /\ u = v + w
  BY <1>5, <1>7, ValueAdds
<1>9. PICK q \in Int : Pow2[at] * count = w + Modulus * q
  <2>1. low \in Int /\ high \in Int
    BY <1>3, CompressorTypes
  <2>2. TakesOnes(x, at, low, high)
    BY <1>6 DEF TakesOnes
  <2>3. \E q \in Int : Pow2[at] * (low + 2 * high) = Weighted(x, Msb + 1) + Modulus * q
    BY <2>1, <2>2, TakenValue
  <2> QED BY <1>4, <1>8, <2>3
<1>10. PICK r \in Int : ValueOf(justAdded') = ValueOf(justAdded) + Pow2[at] * count + Modulus * r
  BY <1>2, <1>4, <1>5, OutputValue
<1>11. PICK j \in Int : j = ValueOf(justAdded)
  BY <1>5, ValueType DEF HeapType
<1>12. PICK M \in Nat \ {0} : M = Modulus
  BY ModulusType
<1>13. PICK new \in Int, old \in Int :
         /\ old = u + j /\ new = ValueOf(bits') + ValueOf(justAdded')
         /\ new = old + M * (q + r)
  <2>1. M * (q + r) = M * q + M * r /\ M * q \in Int /\ M * r \in Int
    OBVIOUS
  <2> QED BY <1>8, <1>9, <1>10, <1>11, <1>12, <2>1
<1>14. Congruent(new, old, M)
  BY <1>13 DEF Congruent
<1>15. new % M = old % M
  BY <1>14, CongruentRemainder
<1>16. Modulus' = Modulus
  BY DEF Modulus
<1>17. old % M = sum
  BY <1>2, <1>8, <1>11, <1>12, <1>13 DEF ValueIsPreserved
<1> QED BY <1>2, <1>12, <1>13, <1>15, <1>16, <1>17 DEF ValueIsPreserved

LEMMA EndStageValue ==
  ASSUME CompressionTypes, ValueIsPreserved, EndStage
  PROVE  ValueIsPreserved' /\ NothingAdded'
<1>1. bits' = [c \in Columns |-> Merged(c)] /\ justAdded' = NoBits /\ phase' = phase /\ sum' = sum /\ phase = "apply"
  BY DEF EndStage, Applying
<1>2. bits \in HeapType /\ justAdded \in HeapType
  BY DEF CompressionTypes, HeapTypes, ApplyTypes, HeapType
<1>3. bits' \in HeapType
  BY <1>1, <1>2 DEF Merged, HeapType
<1>4. PICK x : \A c \in Columns : x[c] = justAdded[c][1]
  <2> WITNESS [c \in Columns |-> justAdded[c][1]]
  <2> QED OBVIOUS
<1>5. OnesMore(bits', bits, x) /\ OnesMore(justAdded, NoBits, x)
  <2>1. \A c \in Columns : x[c] \in Int
    BY <1>2, <1>4 DEF HeapType
  <2>2. \A c \in Columns : bits'[c][1] = bits[c][1] + x[c]
    BY <1>1, <1>4 DEF Merged
  <2>3. \A c \in Columns : justAdded[c][1] = NoBits[c][1] + x[c]
    BY <1>2, <1>4, <2>1 DEF NoBits
  <2> QED BY <2>1, <2>2, <2>3 DEF OnesMore
<1>6. ValueOf(bits') = ValueOf(bits) + Weighted(x, Msb + 1) /\ ValueOf(bits') \in Int
  BY <1>2, <1>3, <1>5, ValueAdds
<1>7. ValueOf(justAdded) = ValueOf(NoBits) + Weighted(x, Msb + 1) /\ Weighted(x, Msb + 1) \in Int
  BY <1>2, <1>5, NoBitsValue, ValueAdds
<1>8. ValueOf(bits') + ValueOf(justAdded') = ValueOf(bits) + ValueOf(justAdded)
  BY <1>1, <1>6, <1>7, NoBitsValue
<1>9. Modulus' = Modulus /\ NoBits' = NoBits
  BY DEF Modulus, NoBits, Columns
<1>10. ValueIsPreserved'
  BY <1>1, <1>8, <1>9 DEF ValueIsPreserved
<1> QED BY <1>1, <1>9, <1>10 DEF NothingAdded

\* Planning leaves the heap alone.
LEMMA HeapAlone ==
  ASSUME HeapWorth, UNCHANGED <<bits, constantBits, sum, justAdded>>
  PROVE  /\ phase' = phase /\ stage' = stage /\ UNCHANGED <<solution, result>> => HeapWorth'
         /\ phase = "plan" /\ phase' \in {"plan", "apply"} /\ stage' = stage => HeapWorth'
<1>1. /\ Modulus' = Modulus /\ NoBits' = NoBits /\ ValueOf(bits)' = ValueOf(bits)
      /\ ValueOf(justAdded)' = ValueOf(justAdded)
  BY DEF Modulus, NoBits, Columns, ValueOf
<1>2. CASE phase' = phase /\ stage' = stage /\ UNCHANGED <<solution, result>>
  BY <1>1, <1>2 DEF HeapWorth, HeapIsExact, ValueIsPreserved, NothingAdded, ResultIsSum
<1>3. CASE phase = "plan" /\ phase' \in {"plan", "apply"} /\ stage' = stage
  BY <1>1, <1>3 DEF HeapWorth, HeapIsExact, ValueIsPreserved, NothingAdded, ResultIsSum
<1> QED BY <1>2, <1>3

LEMMA FillWorth ==
  ASSUME CompressionTypes, HeapWorth, SignsAreKept, Fill, UNCHANGED <<planVars, applyVars>>
  PROVE  HeapWorth'
<1>1. HeapIsExact'
  BY FillExact DEF CompressionTypes, HeapWorth
<1>2. phase = "fill" /\ phase' = "fill" /\ justAdded' = justAdded /\ NoBits' = NoBits
  BY DEF Fill, Enter, AddBit, AddConstantOneBit, SubtractConstantOneBit, AddConstant,
         SubtractConstant, AddSignal, SubtractSignal, applyVars, NoBits, Columns
<1> QED BY <1>1, <1>2 DEF HeapWorth, ValueIsPreserved, NothingAdded, ResultIsSum

LEMMA StartWorth ==
  ASSUME CompressionTypes, HeapWorth, Start
  PROVE  HeapWorth'
<1>1. HeapIsExact' /\ HeapTypes'
  BY StartCompressionExact DEF CompressionTypes, HeapWorth, Start
<1>2. phase = "fill" /\ phase' = "plan" /\ justAdded' = NoBits /\ NoBits' = NoBits
  BY DEF Start, StartCompression, HeapWorth, NothingAdded, applyVars, NoBits, Columns
<1>3. ValueOf(justAdded)' = 0
  <2>1. ValueOf(justAdded)' = ValueOf(justAdded')
    BY DEF ValueOf, Columns
  <2> QED BY <1>2, <2>1, NoBitsValue
<1>4. ValueOf(bits)' \in Int
  <2>1. ValueOf(bits)' = ValueOf(bits')
    BY DEF ValueOf, Columns
  <2>2. bits' \in HeapType
    BY <1>1 DEF HeapTypes, HeapType, Columns
  <2> QED BY <2>1, <2>2, ValueType DEF HeapType
<1>5. ValueIsPreserved'
  <2>1. (ValueOf(bits)' + 0) % Modulus' = sum'
    BY <1>1, <1>2 DEF HeapIsExact
  <2> QED BY <1>3, <2>1 DEF ValueIsPreserved
<1> QED BY <1>1, <1>2, <1>5 DEF HeapWorth, NothingAdded, ResultIsSum

LEMMA FinalAddWorth ==
  ASSUME CompressionTypes, HeapWorth, FinalAdd
  PROVE  HeapWorth'
<1>1. /\ phase = "apply" /\ phase' = "done" /\ justAdded = NoBits
      /\ result' = Chunk + AdderOut * Pow2[FirstTall]
      /\ UNCHANGED <<bits, justAdded, sum>>
  BY DEF FinalAdd, HeapWorth, NothingAdded
<1>2. bits \in HeapType
  BY DEF CompressionTypes, HeapTypes, HeapType
<1>3. ValueOf(bits) \in Int /\ ValueOf(justAdded) = 0
  BY <1>1, <1>2, NoBitsValue, ValueType DEF HeapType
<1>4. (ValueOf(bits) + ValueOf(justAdded)) % Modulus = sum
  BY <1>1 DEF HeapWorth, ValueIsPreserved
<1>5. ValueOf(bits) % Modulus = sum
  BY <1>3, <1>4
<1>6. ResultIsSum'
  BY <1>1, <1>2, <1>5, AdderValue DEF ResultIsSum
<1>7. /\ Modulus' = Modulus /\ NoBits' = NoBits /\ ValueOf(bits)' = ValueOf(bits)
      /\ ValueOf(justAdded)' = ValueOf(justAdded)
  BY <1>1 DEF Modulus, NoBits, Columns, ValueOf
<1> QED BY <1>1, <1>4, <1>6, <1>7 DEF HeapWorth, HeapIsExact, ValueIsPreserved, NothingAdded

LEMMA HeapWorthStep ==
  ASSUME CompressionTypes, HeapWorth, SignsAreKept, [Next]_vars
  PROVE  HeapWorth'
<1>1. CASE Fill /\ UNCHANGED <<planVars, applyVars>>
  BY <1>1, FillWorth
<1>2. CASE Start
  BY <1>2, StartWorth
<1>3. CASE PlaceMostEfficient \/ PlaceInTallest
  <2>1. PICK e \in Kinds, at \in PlanColumns : Place(e, at)
    BY <1>3, PlaceWitness
  <2> QED BY <2>1, HeapAlone DEF Place, Planning, heapVars, applyVars
<1>4. CASE FinishStage
  BY <1>4, HeapAlone DEF FinishStage, Planning, heapVars, applyVars
<1>5. CASE PlanComplete
  BY <1>5, HeapAlone DEF PlanComplete
<1>6. CASE ApplyCompressor
  <2>1. ValueIsPreserved'
    BY <1>6, ApplyValue DEF HeapWorth
  <2>2. phase = "apply" /\ phase' = "apply" /\ stage' \in DOMAIN solution'
    BY <1>6 DEF ApplyCompressor, Applying, planVars
  <2> QED BY <2>1, <2>2 DEF HeapWorth, HeapIsExact, NothingAdded, ResultIsSum
<1>7. CASE EndStage
  <2>1. ValueIsPreserved' /\ NothingAdded'
    BY <1>7, EndStageValue DEF HeapWorth
  <2>2. phase = "apply" /\ phase' = "apply"
    BY <1>7 DEF EndStage, Applying
  <2> QED BY <2>1, <2>2 DEF HeapWorth, HeapIsExact, ResultIsSum
<1>8. CASE FinalAdd
  BY <1>8, FinalAddWorth
<1>9. CASE UNCHANGED vars
  BY <1>9, HeapAlone DEF vars, heapVars, planVars, applyVars
<1> QED BY <1>1, <1>2, <1>3, <1>4, <1>5, <1>6, <1>7, <1>8, <1>9 DEF Next, Compress

LEMMA HeapAlwaysWorth ==
  ASSUME SignsAreKept
  PROVE  Spec => []HeapWorth
<1>1. Init => HeapWorth
  BY HeapInitTypes DEF Init, HeapInit, HeapWorth, ValueIsPreserved, NothingAdded, ResultIsSum
<1>2. ASSUME CompressionTypes, HeapWorth, [Next]_vars PROVE HeapWorth'
  BY <1>2, HeapWorthStep
<1> QED BY <1>1, <1>2, CompressionAlwaysTyped, PTL DEF Spec

\* The heap that is compressed holds exactly what the operator added to it.
THEOREM CompressedHeapIsExact ==
  ASSUME SignsAreKept
  PROVE  Spec => []HeapIsExact
<1>1. HeapWorth => HeapIsExact
  BY DEF HeapWorth
<1> QED BY <1>1, HeapAlwaysWorth, PTL

\* Whatever compressors a plan has, and whichever bits of a column they take, the
\* bits and the outputs of the stage together are worth the sum, modulo the range
\* of the heap, at every moment.
THEOREM CompressionPreservesValue ==
  ASSUME SignsAreKept
  PROVE  Spec => []ValueIsPreserved
<1>1. HeapWorth => ValueIsPreserved
  BY DEF HeapWorth
<1> QED BY <1>1, HeapAlwaysWorth, PTL

\* The signal that the final adder returns is the sum of what the operator added
\* and subtracted, modulo the range of the heap: for every width, every signal
\* and value, and every plan.
THEOREM CompressionIsRight ==
  ASSUME SignsAreKept
  PROVE  Spec => []ResultIsSum
<1>1. HeapWorth => ResultIsSum
  BY DEF HeapWorth
<1> QED BY <1>1, HeapAlwaysWorth, PTL

-----------------------------------------------------------------------------
(***************************************************************************)
(* Sums over the compressors of a stage.                                   *)
(***************************************************************************)
\* The sum of the terms g[i] for i in S.
Terms(g, S) == [k \in 0..(Len(g) - 1) |-> IF k + 1 \in S THEN g[k + 1] ELSE 0]
Among(g, S) == SumBelow(Terms(g, S), Len(g))
Total(g) == Among(g, DOMAIN g)

\* Sums of natural numbers, of none, and of one more.
LEMMA AmongType ==
  ASSUME NEW g \in Seq(Nat), NEW S
  PROVE  /\ \A k \in 0..(Len(g) - 1) : k + 1 \in DOMAIN g /\ g[k + 1] \in Nat /\ Terms(g, S)[k] \in Nat
         /\ Len(g) \in Nat
         /\ Among(g, S) \in Nat
<1>1. Len(g) \in Nat
  OBVIOUS
<1>2. \A k \in 0..(Len(g) - 1) : k + 1 \in DOMAIN g /\ g[k + 1] \in Nat
  OBVIOUS
<1>3. \A k \in 0..(Len(g) - 1) : Terms(g, S)[k] \in Nat
  BY <1>2 DEF Terms
<1>4. SumBelow(Terms(g, S), Len(g)) \in Nat
  <2>1. \A k \in 0..(Len(g) - 1) : Terms(g, S)[k] \in Int /\ Terms(g, S)[k] >= 0
    BY <1>3
  <2> QED BY <1>1, <2>1, SumType
<1> QED BY <1>1, <1>2, <1>3, <1>4 DEF Among

LEMMA AmongNone ==
  ASSUME NEW g \in Seq(Nat)
  PROVE  Among(g, {}) = 0
<1>0. PICK t : t = Terms(g, {})
  OBVIOUS
<1>1. PICK n \in Nat, s \in Nat : n = Len(g) /\ s = SumBelow(t, n) /\ s = Among(g, {})
  BY <1>0, AmongType DEF Among
<1>2. \A k \in 0..(n - 1) : t[k] = 0
  BY <1>0, <1>1 DEF Terms
<1>3. \A k \in 0..(n - 1) : t[k] \in Int /\ t[k] \in Int /\ t[k] = t[k] + t[k]
  BY <1>2
<1>4. SumBelow(t, n) = SumBelow(t, n) + SumBelow(t, n)
  BY ZenonT(40), <1>3, SumAdds
<1> QED BY <1>1, <1>4

LEMMA AmongOne ==
  ASSUME NEW g \in Seq(Nat), NEW S, NEW i \in DOMAIN g, i \notin S
  PROVE  Among(g, S \cup {i}) = Among(g, S) + g[i]
<1> DEFINE t == Terms(g, S)
           u == Terms(g, S \cup {i})
<1>1. PICK n \in Nat, j \in Nat : n = Len(g) /\ i = j + 1 /\ j \in 0..(n - 1)
  <2>1. i \in 1..Len(g) /\ Len(g) \in Nat
    OBVIOUS
  <2> QED BY <2>1
<1>2. \A k \in 0..(n - 1) : t[k] \in Int /\ u[k] \in Int
  BY <1>1, AmongType
<1>3. \A k \in 0..(n - 1) : k # j => u[k] = t[k]
  BY <1>1 DEF Terms
<1>4. u[j] = g[i] /\ t[j] = 0
  BY <1>1 DEF Terms
<1> HIDE DEF t, u
<1>5. SumBelow(u, n) = SumBelow(t, n) + (u[j] - t[j])
  BY <1>1, <1>2, <1>3, SumUpdate
<1>6. g[i] \in Nat
  OBVIOUS
<1> QED BY <1>1, <1>4, <1>5, <1>6 DEF Among, t, u

LEMMA TotalAppend ==
  ASSUME NEW g \in Seq(Nat), NEW x \in Nat
  PROVE  Total(Append(g, x)) = Total(g) + x
<1>1. PICK h \in Seq(Nat) : /\ h = Append(g, x) /\ Len(h) = Len(g) + 1 /\ h[Len(g) + 1] = x
                            /\ \A i \in 1..Len(g) : h[i] = g[i]
  <2>1. Append(g, x) \in Seq(Nat) /\ Len(Append(g, x)) = Len(g) + 1 /\ Append(g, x)[Len(g) + 1] = x
    OBVIOUS
  <2>2. \A i \in 1..Len(g) : Append(g, x)[i] = g[i]
    OBVIOUS
  <2> QED BY <2>1, <2>2
<1>2. PICK n \in Nat : n = Len(g) /\ DOMAIN g = 1..n /\ DOMAIN h = 1..(n + 1)
  BY <1>1
<1>3. PICK t, u : t = Terms(g, DOMAIN g) /\ u = Terms(h, DOMAIN h)
  OBVIOUS
<1>4. u[n] = x /\ \A k \in 0..(n - 1) : t[k] = u[k]
  BY <1>1, <1>2, <1>3 DEF Terms
<1>5. SumBelow(t, n) = SumBelow(u, n)
  BY <1>4, SumEqual
<1>6. SumBelow(u, n + 1) = SumBelow(u, n) + u[n]
  BY SumDef
<1> QED BY <1>1, <1>2, <1>3, <1>4, <1>5, <1>6 DEF Total, Among

LEMMA TotalEmpty == Total(<<>>) = 0
  BY SumDef DEF Total, Among

\* A part of the terms makes at most their total, and the total if the others are 0.
LEMMA AmongBelow ==
  ASSUME NEW g \in Seq(Nat), NEW S
  PROVE  /\ Among(g, S) <= Total(g)
         /\ (\A i \in DOMAIN g : i \notin S => g[i] = 0) => Among(g, S) = Total(g)
<1>1. PICK n \in Nat : n = Len(g) /\ DOMAIN g = 1..n
  OBVIOUS
<1>2. PICK t, u : t = Terms(g, S) /\ u = Terms(g, DOMAIN g)
  OBVIOUS
<1>3. \A k \in 0..(n - 1) : t[k] \in Int /\ u[k] \in Int /\ t[k] <= u[k]
  <2>1. \A k \in 0..(n - 1) : k + 1 \in DOMAIN g /\ g[k + 1] \in Nat
    BY <1>1
  <2> QED BY <1>1, <1>2, <2>1 DEF Terms
<1>4. SumBelow(t, n) <= SumBelow(u, n)
  BY <1>3, SumMonotone
<1>5. ASSUME \A i \in DOMAIN g : i \notin S => g[i] = 0
      PROVE  SumBelow(t, n) = SumBelow(u, n)
  <2>1. ASSUME NEW k \in 0..(n - 1) PROVE t[k] = u[k]
    <3>1. k + 1 \in DOMAIN g /\ u[k] = g[k + 1] /\ t[k] = IF k + 1 \in S THEN g[k + 1] ELSE 0
      BY <1>1, <1>2 DEF Terms
    <3> QED BY <1>5, <3>1
  <2> QED BY <2>1, SumEqual
<1> QED BY <1>1, <1>2, <1>4, <1>5 DEF Total, Among
-----------------------------------------------------------------------------
(***************************************************************************)
(* What the plan counts.  B[s] is what the columns hold when stage s begins,*)
(* and B[Len(solution) + 1] when the stage being planned does, or, once the*)
(* plan is complete, when the final adder gets them.                       *)
(***************************************************************************)
InputsAt(p, c) == [i \in DOMAIN p |-> Inputs(p[i][1], p[i][2], c)]
OutputsAt(p, c) == [i \in DOMAIN p |-> Outputs(p[i][1], p[i][2], c)]

LastStage == Len(solution) + 1
Heights(B) == B \in [1..LastStage -> [PlanColumns -> Nat]]

\* A planned stage leaves as many inputs empty as its columns lack bits, and
\* hands over its outputs and the bits that no compressor took.
StageFollows(B, s, c) ==
  LET inputs == Total(InputsAt(solution[s].placed, c))
  IN /\ solution[s].empty[c] = AtLeastZero(inputs - B[s][c])
     /\ B[s + 1][c] = Total(OutputsAt(solution[s].placed, c)) + AtLeastZero(B[s][c] - inputs)
StagesFollow(B) == \A s \in DOMAIN solution, c \in PlanColumns : StageFollows(B, s, c)

NotApplied == stage = 1 /\ applied = {} /\ justAdded = NoBits
NotPlanned == solution = <<>> /\ placed = <<>> /\ nextAmount = NoAmount

PlanCounts(B) ==
  /\ \A c \in PlanColumns : /\ bitAmount[c] = B[LastStage][c] - Total(InputsAt(placed, c))
                            /\ nextAmount[c] = Total(OutputsAt(placed, c))
  /\ \A c \in Columns : Height(c) = B[1][c]

\* In the middle of a stage: what the compressors applied so far took, and made.
StageCounts(B, c) ==
  LET taken == Among(InputsAt(solution[stage].placed, c), applied)
      empty == solution[stage].empty[c]
  IN /\ emptyInputs[c] = AtLeastZero(empty - taken)
     /\ Height(c) = B[stage][c] - AtLeastZero(taken - empty)
     /\ justAdded[c][0] + justAdded[c][1] = Among(OutputsAt(solution[stage].placed, c), applied)

Follows(B) ==
  /\ Heights(B)
  /\ StagesFollow(B)
  /\ phase \in {"fill", "plan"} => NotApplied
  /\ phase = "fill" => NotPlanned
  /\ phase = "plan" => PlanCounts(B)
  /\ phase = "apply" => \A c \in PlanColumns : bitAmount[c] = B[LastStage][c]
  /\ Applying => applied \subseteq InHeap /\ \A c \in Columns : StageCounts(B, c)
  /\ phase = "apply" /\ stage \notin DOMAIN solution => \A c \in Columns : Height(c) = B[LastStage][c]


-----------------------------------------------------------------------------
\* What the sequence of the compressors of a stage gives.
LEMMA AppendAny ==
  ASSUME NEW T, NEW p \in Seq(T), NEW r \in T
  PROVE  /\ Append(p, r) \in Seq(T) /\ Len(p) \in Nat /\ DOMAIN p = 1..Len(p)
         /\ DOMAIN Append(p, r) = 1..(Len(p) + 1) /\ Append(p, r)[Len(p) + 1] = r
         /\ \A i \in 1..Len(p) : Append(p, r)[i] = p[i]
<1>1. Append(p, r) \in Seq(T) /\ Len(p) \in Nat /\ DOMAIN p = 1..Len(p)
  OBVIOUS
<1>2. DOMAIN Append(p, r) = 1..(Len(p) + 1) /\ Append(p, r)[Len(p) + 1] = r
  OBVIOUS
<1>3. \A i \in 1..Len(p) : Append(p, r)[i] = p[i]
  OBVIOUS
<1> QED BY <1>1, <1>2, <1>3

LEMMA AtTypes ==
  ASSUME NEW p \in Seq(Kinds \X PlanColumns), NEW c \in PlanColumns
  PROVE  /\ InputsAt(p, c) \in Seq(Nat) /\ OutputsAt(p, c) \in Seq(Nat)
         /\ DOMAIN InputsAt(p, c) = DOMAIN p /\ DOMAIN OutputsAt(p, c) = DOMAIN p
         /\ \A i \in DOMAIN p : /\ InputsAt(p, c)[i] = Inputs(p[i][1], p[i][2], c)
                                /\ OutputsAt(p, c)[i] = Outputs(p[i][1], p[i][2], c)
         /\ Total(InputsAt(p, c)) \in Nat /\ Total(OutputsAt(p, c)) \in Nat
<1>1. PICK n \in Nat : n = Len(p) /\ DOMAIN p = 1..n
  OBVIOUS
<1>2. \A i \in 1..n : /\ Inputs(p[i][1], p[i][2], c) \in Nat
                      /\ Outputs(p[i][1], p[i][2], c) \in Nat
  <2> SUFFICES ASSUME NEW i \in 1..n
               PROVE  /\ Inputs(p[i][1], p[i][2], c) \in Nat
                      /\ Outputs(p[i][1], p[i][2], c) \in Nat
    OBVIOUS
  <2>1. p[i] \in Kinds \X PlanColumns
    BY <1>1
  <2>2. p[i][1] \in Kinds /\ p[i][2] \in PlanColumns
    BY <2>1
  <2>3. c \in Int
    BY DEF PlanColumns
  <2>4. Inputs(p[i][1], p[i][2], c) \in 0..6 /\ Outputs(p[i][1], p[i][2], c) \in {0, 1}
    BY <2>2, <2>3, InputsTypes
  <2> QED BY <2>4
<1>3. /\ InputsAt(p, c) = [i \in 1..n |-> Inputs(p[i][1], p[i][2], c)]
      /\ OutputsAt(p, c) = [i \in 1..n |-> Outputs(p[i][1], p[i][2], c)]
  BY <1>1 DEF InputsAt, OutputsAt
<1>4. InputsAt(p, c) \in [1..n -> Nat] /\ OutputsAt(p, c) \in [1..n -> Nat]
  BY <1>2, <1>3
<1>5. InputsAt(p, c) \in Seq(Nat) /\ OutputsAt(p, c) \in Seq(Nat)
  BY <1>4
<1> QED BY <1>1, <1>3, <1>5, AmongType DEF Total

\* A compressor more.
LEMMA AtAppend ==
  ASSUME NEW p \in Seq(Kinds \X PlanColumns), NEW c \in PlanColumns, NEW e \in Kinds, NEW at \in PlanColumns
  PROVE  /\ Total(InputsAt(Append(p, <<e, at>>), c)) = Total(InputsAt(p, c)) + Inputs(e, at, c)
         /\ Total(OutputsAt(Append(p, <<e, at>>), c)) = Total(OutputsAt(p, c)) + Outputs(e, at, c)
<1>0. PICK r \in Kinds \X PlanColumns : r = <<e, at>> /\ r[1] = e /\ r[2] = at
  <2> WITNESS <<e, at>> \in Kinds \X PlanColumns
  <2> QED OBVIOUS
<1>1. PICK q \in Seq(Kinds \X PlanColumns) : q = Append(p, r)
  BY AppendAny
<1>2. PICK n \in Nat : /\ n = Len(p) /\ DOMAIN p = 1..n /\ DOMAIN q = 1..(n + 1)
                       /\ q[n + 1] = r /\ \A i \in 1..n : q[i] = p[i]
  BY <1>1, AppendAny
<1>3. PICK x \in Nat, y \in Nat : x = Inputs(e, at, c) /\ y = Outputs(e, at, c)
  <2>1. c \in Int
    BY DEF PlanColumns
  <2>2. Inputs(e, at, c) \in 0..6 /\ Outputs(e, at, c) \in {0, 1}
    BY <2>1, InputsTypes
  <2> QED BY <2>2
<1>4. InputsAt(q, c) = Append(InputsAt(p, c), x)
  <2>1. PICK g \in Seq(Nat), h \in Seq(Nat) : g = InputsAt(p, c) /\ h = InputsAt(q, c)
    BY AtTypes
  <2>2. DOMAIN g = 1..n /\ DOMAIN h = 1..(n + 1) /\ h[n + 1] = x /\ \A i \in 1..n : h[i] = g[i]
    BY <1>0, <1>2, <1>3, <2>1 DEF InputsAt
  <2>3. h = Append(g, x)
    BY <2>2
  <2> QED BY <2>1, <2>3
<1>5. OutputsAt(q, c) = Append(OutputsAt(p, c), y)
  <2>1. PICK g \in Seq(Nat), h \in Seq(Nat) : g = OutputsAt(p, c) /\ h = OutputsAt(q, c)
    BY AtTypes
  <2>2. DOMAIN g = 1..n /\ DOMAIN h = 1..(n + 1) /\ h[n + 1] = y /\ \A i \in 1..n : h[i] = g[i]
    BY <1>0, <1>2, <1>3, <2>1 DEF OutputsAt
  <2>3. h = Append(g, y)
    BY <2>2
  <2> QED BY <2>1, <2>3
<1>6. InputsAt(p, c) \in Seq(Nat) /\ OutputsAt(p, c) \in Seq(Nat)
  BY AtTypes
<1>7. Total(Append(InputsAt(p, c), x)) = Total(InputsAt(p, c)) + x
  BY <1>6, TotalAppend
<1>8. Total(Append(OutputsAt(p, c), y)) = Total(OutputsAt(p, c)) + y
  BY <1>6, TotalAppend
<1> QED BY <1>0, <1>1, <1>3, <1>4, <1>5, <1>7, <1>8

LEMMA AtEmpty ==
  ASSUME NEW c
  PROVE  Total(InputsAt(<<>>, c)) = 0 /\ Total(OutputsAt(<<>>, c)) = 0
<1>1. InputsAt(<<>>, c) = <<>> /\ OutputsAt(<<>>, c) = <<>>
  BY DEF InputsAt, OutputsAt
<1> QED BY <1>1, TotalEmpty

-----------------------------------------------------------------------------
\* Every step finds the columns as the plan foresaw.
LEMMA PlaceFollows ==
  ASSUME CompressionTypes, NEW B, Follows(B), NEW e \in Kinds, NEW at \in PlanColumns, Place(e, at)
  PROVE  Follows(B)'
<1>1. /\ phase = "plan" /\ phase' = "plan" /\ placed' = Append(placed, <<e, at>>)
      /\ bitAmount' = [c \in PlanColumns |-> bitAmount[c] - Inputs(e, at, c)]
      /\ nextAmount' = [c \in PlanColumns |-> nextAmount[c] + Outputs(e, at, c)]
      /\ UNCHANGED <<solution, bits, stage, applied, justAdded>>
  BY DEF Place, Planning, heapVars, applyVars
<1>2. placed \in Seq(Kinds \X PlanColumns)
  BY DEF CompressionTypes, PlanTypes, StagePlaced
<1>3. ASSUME NEW c \in PlanColumns
      PROVE  /\ bitAmount'[c] = B[LastStage][c] - Total(InputsAt(placed', c))
             /\ nextAmount'[c] = Total(OutputsAt(placed', c))
  <2>1. bitAmount[c] = B[LastStage][c] - Total(InputsAt(placed, c)) /\ nextAmount[c] = Total(OutputsAt(placed, c))
    BY <1>1 DEF Follows, PlanCounts
  <2>2. /\ Total(InputsAt(placed', c)) = Total(InputsAt(placed, c)) + Inputs(e, at, c)
        /\ Total(OutputsAt(placed', c)) = Total(OutputsAt(placed, c)) + Outputs(e, at, c)
    BY <1>1, <1>2, AtAppend
  <2>3. PICK b \in Int, x \in Nat, y \in Nat :
          b = B[LastStage][c] /\ x = Total(InputsAt(placed, c)) /\ y = Inputs(e, at, c)
    <3>1. LastStage \in 1..LastStage
      BY DEF LastStage, CompressionTypes, PlanTypes
    <3>2. B[LastStage][c] \in Int
      BY <3>1 DEF Follows, Heights
    <3>3. c \in Int
      BY DEF PlanColumns
    <3>4. Inputs(e, at, c) \in 0..6
      BY <3>3, InputsTypes
    <3>5. Total(InputsAt(placed, c)) \in Nat
      BY <1>2, AtTypes
    <3>6. Inputs(e, at, c) \in Nat
      BY <3>4
    <3> QED BY <3>2, <3>5, <3>6
  <2> QED BY SMTT(40), <1>1, <2>1, <2>2, <2>3
<1>4. PlanCounts(B)'
  BY <1>1, <1>3 DEF Follows, PlanCounts, Height, LastStage, PlanColumns, Columns
<1> QED BY <1>1, <1>4 DEF Follows, Heights, StagesFollow, StageFollows, NotApplied, LastStage, PlanColumns, Applying, NoBits, Columns

LEMMA FinishFollows ==
  ASSUME CompressionTypes, NEW B, Follows(B), FinishStage
  PROVE  \E C : Follows(C)'
<1>1. /\ phase = "plan" /\ phase' = "plan" /\ placed' = <<>>
      /\ solution' = Append(solution, [placed |-> placed,
                                       empty |-> [c \in PlanColumns |-> EmptyInputs(c)]])
      /\ bitAmount' = [c \in PlanColumns |-> nextAmount[c] + Remaining(c)]
      /\ nextAmount' = NoAmount
      /\ UNCHANGED <<bits, stage, applied, justAdded>>
  BY DEF FinishStage, Planning, heapVars, applyVars
<1>2. placed \in Seq(Kinds \X PlanColumns)
  BY DEF CompressionTypes, PlanTypes, StagePlaced
<1>3. PICK n \in Nat \ {0} : n = LastStage /\ DOMAIN solution = 1..(n - 1)
  BY DEF LastStage, CompressionTypes, PlanTypes
<1>4. /\ LastStage' = n + 1 /\ DOMAIN solution' = 1..n
      /\ solution'[n].placed = placed
      /\ \A c \in PlanColumns : solution'[n].empty[c] = EmptyInputs(c)
      /\ \A s \in 1..(n - 1) : solution'[s] = solution[s]
  <2>1. PICK r : r = [placed |-> placed, empty |-> [c \in PlanColumns |-> EmptyInputs(c)]]
    OBVIOUS
  <2>2. r.placed = placed /\ \A c \in PlanColumns : r.empty[c] = EmptyInputs(c)
    BY <2>1
  <2>3. solution' = Append(solution, r) /\ solution \in Seq(Stage) /\ Len(solution) = n - 1
    BY <1>1, <1>3, <2>1 DEF CompressionTypes, PlanTypes, LastStage
  <2>4. Len(solution') = n /\ DOMAIN solution' = 1..n
    BY <2>3
  <2>5. solution'[n] = r /\ \A s \in 1..(n - 1) : solution'[s] = solution[s]
    BY <2>3
  <2> QED BY <2>2, <2>4, <2>5 DEF LastStage
<1>5. ASSUME NEW c \in PlanColumns
      PROVE  /\ bitAmount'[c] \in Nat /\ NoAmount[c] = 0
             /\ EmptyInputs(c) = AtLeastZero(Total(InputsAt(placed, c)) - B[n][c])
             /\ bitAmount'[c] = Total(OutputsAt(placed, c)) + AtLeastZero(B[n][c] - Total(InputsAt(placed, c)))
  <2>1. bitAmount[c] = B[n][c] - Total(InputsAt(placed, c)) /\ nextAmount[c] = Total(OutputsAt(placed, c))
    BY <1>1, <1>3 DEF Follows, PlanCounts
  <2>2. PICK b \in Nat, x \in Nat, y \in Nat :
          b = B[n][c] /\ x = Total(InputsAt(placed, c)) /\ y = Total(OutputsAt(placed, c))
    <3>1. n \in 1..n /\ B \in [1..n -> [PlanColumns -> Nat]]
      BY <1>3 DEF Follows, Heights
    <3>2. B[n][c] \in Nat
      BY <3>1
    <3> QED BY <1>2, <3>2, AtTypes
  <2>3. PICK a \in Int : a = bitAmount[c] /\ a = b - x
    BY <2>1, <2>2
  <2>4. EmptyInputs(c) = AtLeastZero(x - b) /\ Remaining(c) = AtLeastZero(b - x)
    BY <2>3 DEF EmptyInputs, Remaining, AtLeastZero
  <2>5. AtLeastZero(b - x) \in Nat
    BY DEF AtLeastZero
  <2>6. bitAmount'[c] = y + AtLeastZero(b - x)
    BY <1>1, <2>1, <2>2, <2>4
  <2>7. bitAmount'[c] \in Nat
    BY <2>5, <2>6
  <2>8. NoAmount[c] = 0
    BY DEF NoAmount
  <2> QED BY <2>2, <2>4, <2>6, <2>7, <2>8
<1>6. PICK C : /\ C \in [1..(n + 1) -> [PlanColumns -> Nat]]
               /\ C[n + 1] = bitAmount'
               /\ \A s \in 1..n : C[s] = B[s]
  <2> WITNESS [s \in 1..(n + 1) |-> IF s = n + 1 THEN bitAmount' ELSE B[s]]
  <2>1. bitAmount' \in [PlanColumns -> Nat]
    BY <1>1, <1>5
  <2>2. \A s \in 1..n : B[s] \in [PlanColumns -> Nat]
    BY <1>3 DEF Follows, Heights
  <2> QED BY <2>1, <2>2
<1>7. Heights(C)'
  BY <1>4, <1>6 DEF Heights, PlanColumns
<1>8. StagesFollow(C)'
  <2> SUFFICES ASSUME NEW s \in 1..n, NEW c \in PlanColumns PROVE StageFollows(C, s, c)'
    BY <1>4 DEF StagesFollow, PlanColumns
  <2>1. CASE s = n
    <3>1. C[s] = B[n] /\ C[s + 1] = bitAmount' /\ solution'[s].placed = placed
      BY <1>4, <1>6, <2>1
    <3>2. solution'[s].empty[c] = EmptyInputs(c)
      BY <1>4, <2>1
    <3> QED BY <1>5, <3>1, <3>2 DEF StageFollows
  <2>2. CASE s \in 1..(n - 1)
    <3>1. C[s] = B[s] /\ C[s + 1] = B[s + 1] /\ solution'[s] = solution[s]
      BY <1>4, <1>6, <2>2
    <3>2. StageFollows(B, s, c)
      BY <1>3, <2>2 DEF Follows, StagesFollow
    <3> QED BY <3>1, <3>2 DEF StageFollows
  <2> QED BY <2>1, <2>2
<1>9. PlanCounts(C)'
  <2>1. \A c \in Columns : Height(c)' = C[1][c]
    <3>1. C[1] = B[1]
      BY <1>6
    <3> QED BY <1>1, <3>1 DEF Follows, PlanCounts, Height
  <2>2. ASSUME NEW c \in PlanColumns
        PROVE  /\ bitAmount'[c] = C[LastStage'][c] - Total(InputsAt(placed', c))
               /\ nextAmount'[c] = Total(OutputsAt(placed', c))
    BY <1>1, <1>4, <1>5, <1>6, AtEmpty
  <2> QED BY <2>1, <2>2 DEF PlanCounts, PlanColumns, Columns
<1>10. NotApplied'
  BY <1>1 DEF Follows, NotApplied, NoBits, Columns
<1>11. Follows(C)'
  BY <1>1, <1>7, <1>8, <1>9, <1>10 DEF Follows, Applying
<1> QED BY <1>11

LEMMA StartFollows ==
  ASSUME CompressionTypes, NEW B, Follows(B), Start
  PROVE  \E C : Follows(C)'
<1>1. /\ phase = "fill" /\ phase' = "plan"
      /\ bitAmount' = [c \in PlanColumns |-> IF c \in Columns THEN bits'[c][0] + bits'[c][1] ELSE 0]
      /\ UNCHANGED <<nextAmount, placed, solution, stage, applied, justAdded>>
  BY DEF Start, StartCompression, applyVars
<1>2. solution = <<>> /\ placed = <<>> /\ nextAmount = NoAmount /\ NotApplied
  BY <1>1 DEF Follows, NotPlanned
<1>3. LastStage' = 1 /\ DOMAIN solution' = {}
  BY <1>1, <1>2 DEF LastStage
<1>4. bits' \in [Columns -> [{0, 1} -> Nat]]
  BY StartTypes DEF HeapTypes, CompressionTypes, Start, Columns
<1>5. bitAmount' \in [PlanColumns -> Nat]
  BY <1>1, <1>4
<1>6. PICK C : C \in [1..1 -> [PlanColumns -> Nat]] /\ C[1] = bitAmount'
  <2> WITNESS [s \in 1..1 |-> bitAmount']
  <2> QED BY <1>5
<1>7. Heights(C)' /\ StagesFollow(C)'
  BY <1>3, <1>6 DEF Heights, StagesFollow, PlanColumns
<1>8. PlanCounts(C)'
  <2>1. ASSUME NEW c \in Columns PROVE Height(c)' = C[1][c]
    BY <1>1, <1>6, BitHeapAssumption DEF Height, PlanColumns, Columns
  <2>2. ASSUME NEW c \in PlanColumns
        PROVE  /\ bitAmount'[c] = C[LastStage'][c] - Total(InputsAt(placed', c))
               /\ nextAmount'[c] = Total(OutputsAt(placed', c))
    BY <1>1, <1>2, <1>3, <1>5, <1>6, AtEmpty DEF NoAmount
  <2> QED BY <2>1, <2>2 DEF PlanCounts, PlanColumns, Columns
<1>9. NotApplied'
  BY <1>1, <1>2 DEF NotApplied, NoBits, Columns
<1>10. Follows(C)'
  BY <1>1, <1>7, <1>8, <1>9 DEF Follows, Applying
<1> QED BY <1>10

\* The sums of the stage that is being applied.
LEMMA StageSums ==
  ASSUME CompressionTypes, NEW B, Heights(B), Applying, NEW c \in Columns
  PROVE  /\ InputsAt(solution[stage].placed, c) \in Seq(Nat)
         /\ OutputsAt(solution[stage].placed, c) \in Seq(Nat)
         /\ solution[stage].placed \in Seq(Kinds \X PlanColumns)
         /\ solution[stage].empty[c] \in Nat
         /\ B[stage][c] \in Nat /\ B[stage + 1][c] \in Nat
         /\ Height(c) \in Nat /\ emptyInputs[c] \in Nat
         /\ c \in PlanColumns /\ stage \in Nat /\ stage + 1 \in 1..LastStage
<1>1. c \in PlanColumns
  BY BitHeapAssumption DEF Columns, PlanColumns
<1>2. solution[stage] \in Stage /\ stage \in Nat /\ stage \in 1..LastStage /\ stage + 1 \in 1..LastStage
  BY DEF CompressionTypes, PlanTypes, Applying, LastStage
<1>3. solution[stage].placed \in Seq(Kinds \X PlanColumns) /\ solution[stage].empty \in [PlanColumns -> Nat]
  BY <1>2 DEF Stage, StagePlaced
<1>4. Height(c) \in Nat /\ emptyInputs[c] \in Nat
  <2>1. bits[c][0] \in Nat /\ bits[c][1] \in Nat
    BY DEF CompressionTypes, HeapTypes
  <2> QED BY SMTT(40), <1>1, <2>1 DEF CompressionTypes, ApplyTypes, Height
<1>5. B[stage][c] \in Nat /\ B[stage + 1][c] \in Nat
  BY <1>1, <1>2 DEF Heights
<1> QED BY <1>1, <1>2, <1>3, <1>4, <1>5, AtTypes

\* A stage begins with what the plan foresaw.
StageBegins(B) ==
  /\ applied = {} /\ justAdded = NoBits
  /\ stage \in DOMAIN solution => emptyInputs = solution[stage].empty
  /\ \A c \in Columns : Height(c) = B[stage][c]

LEMMA StageBeginsCounts ==
  ASSUME NEW B
  PROVE  CompressionTypes /\ StageBegins(B) /\ Heights(B) /\ Applying
           => \A c \in Columns : StageCounts(B, c)
<1> SUFFICES ASSUME CompressionTypes, StageBegins(B), Heights(B), Applying, NEW c \in Columns
             PROVE  StageCounts(B, c)
  OBVIOUS
<1>1. /\ Among(InputsAt(solution[stage].placed, c), applied) = 0
      /\ Among(OutputsAt(solution[stage].placed, c), applied) = 0
  BY StageSums, AmongNone DEF StageBegins
<1>2. justAdded[c][0] + justAdded[c][1] = 0
  BY DEF StageBegins, NoBits
<1>3. emptyInputs[c] = solution[stage].empty[c] /\ Height(c) = B[stage][c]
  BY DEF StageBegins, Applying
<1>4. solution[stage].empty[c] \in Nat /\ B[stage][c] \in Nat
  BY StageSums
<1>5. \A m \in Nat : AtLeastZero(m - 0) = m /\ AtLeastZero(0 - m) = 0 /\ m = m - 0
  BY DEF AtLeastZero
<1> QED BY <1>1, <1>2, <1>3, <1>4, <1>5 DEF StageCounts

LEMMA PlanCompleteFollows ==
  ASSUME CompressionTypes, CompressionTypes', NEW B, Follows(B), PlanComplete
  PROVE  Follows(B)'
<1>1. /\ phase = "plan" /\ phase' = "apply" /\ placed = <<>> /\ emptyInputs' = EmptyAt(1)
      /\ UNCHANGED <<bits, placed, solution, bitAmount, stage, applied, justAdded>>
  BY DEF PlanComplete, Planned, planVars
<1>2. PlanCounts(B) /\ NotApplied /\ Heights(B) /\ StagesFollow(B)
  BY <1>1 DEF Follows
<1>3. \A c \in PlanColumns : bitAmount'[c] = B[LastStage][c]
  <2> SUFFICES ASSUME NEW c \in PlanColumns PROVE bitAmount[c] = B[LastStage][c]
    BY <1>1
  <2>1. LastStage \in 1..LastStage
    BY DEF LastStage, CompressionTypes, PlanTypes
  <2>2. B[LastStage][c] \in Nat
    BY <1>2, <2>1 DEF Heights
  <2>3. bitAmount[c] = B[LastStage][c] - 0
    BY <1>1, <1>2, AtEmpty DEF PlanCounts
  <2> QED BY <2>2, <2>3
<1>4. StageBegins(B)'
  BY <1>1, <1>2 DEF StageBegins, NotApplied, PlanCounts, EmptyAt, Height, NoBits, Columns
<1>5. Heights(B)' /\ StagesFollow(B)'
  BY <1>1, <1>2 DEF Heights, StagesFollow, StageFollows, PlanColumns, LastStage
<1>6. Applying' => \A c \in Columns : StageCounts(B, c)'
  <2>1. (CompressionTypes /\ StageBegins(B) /\ Heights(B) /\ Applying
           => \A c \in Columns : StageCounts(B, c))'
    BY StageBeginsCounts, PTL
  <2> QED BY <1>4, <1>5, <2>1 DEF Columns
<1>7. stage' \notin DOMAIN solution' => stage' = LastStage'
  BY SMTT(40) DEF CompressionTypes, PlanTypes, ApplyTypes, LastStage
<1>8. applied' \subseteq InHeap'
  BY <1>1, <1>2 DEF NotApplied
<1>9. stage' \notin DOMAIN solution' => \A c \in Columns : Height(c)' = B[LastStage'][c]
  BY <1>4, <1>7 DEF StageBegins, Columns
<1> QED BY <1>1, <1>3, <1>5, <1>6, <1>8, <1>9 DEF Follows, PlanColumns, Columns, LastStage

LEMMA ApplyFollows ==
  ASSUME CompressionTypes, CompressionTypes', NEW B, Follows(B), ApplyCompressor
  PROVE  Follows(B)'
<1>0. PICK i \in 1..MaxPlaced, e \in Kinds, at \in Columns :
        \E low, high : ApplyStep(i, e, at, low, high)
  BY ApplyWitness
<1>1. PICK low, high : ApplyStep(i, e, at, low, high)
  BY <1>0
<1>2. /\ Applying /\ i \in Pending /\ i \notin applied /\ applied' = applied \cup {i}
      /\ solution[stage].placed[i] = <<e, at>>
      /\ emptyInputs' = [c \in PlanColumns |-> AtLeastZero(emptyInputs[c] - Inputs(e, at, c))]
      /\ low \in OnesAmong(Takes(e, at, at), at) /\ high \in OnesAmong(Takes(e, at, at + 1), at + 1)
      /\ bits' = [c \in Columns |-> [b \in {0, 1} |-> bits[c][b] -
                    IF b = 1 THEN OnesTaken(at, low, high, c)
                             ELSE Takes(e, at, c) - OnesTaken(at, low, high, c)]]
      /\ justAdded' = OutputBits(e, at, low + 2 * high)
      /\ UNCHANGED <<phase, solution, bitAmount, stage, placed, nextAmount>>
  BY <1>1 DEF ApplyStep, Pending, planVars
<1>3. PICK p : p = solution[stage].placed
  OBVIOUS
<1>4. phase = "apply" /\ Heights(B) /\ StagesFollow(B) /\ applied \subseteq InHeap
  BY <1>2 DEF Follows, Applying
<1>5. /\ i \in DOMAIN p /\ p[i] = <<e, at>> /\ p[i][1] = e /\ p[i][2] = at
      /\ applied' \subseteq InHeap'
  BY <1>2, <1>3, <1>4 DEF Pending, InHeap, Columns
<1>6. low + 2 * high \in Nat
  <2>1. low \in 0..Compressors[e].low /\ high \in 0..Compressors[e].high
    BY <1>2, TakenBounds
  <2> QED BY <2>1, CompressorTypes
<1>7. ASSUME NEW c \in Columns PROVE StageCounts(B, c)'
  <2>1. PICK g \in Seq(Nat), h \in Seq(Nat) : g = InputsAt(p, c) /\ h = OutputsAt(p, c)
    BY <1>2, <1>3, <1>4, StageSums
  <2>2. /\ c \in PlanColumns /\ p \in Seq(Kinds \X PlanColumns) /\ c \in Int
        /\ stage \in DOMAIN solution
    <3>1. /\ solution[stage].placed \in Seq(Kinds \X PlanColumns) /\ c \in PlanColumns
      BY <1>2, <1>4, StageSums
    <3>2. c \in Int
      BY DEF Columns
    <3>3. stage \in DOMAIN solution
      BY <1>2 DEF Applying
    <3> QED BY <1>3, <3>1, <3>2, <3>3
  <2>3. /\ DOMAIN g = DOMAIN p /\ DOMAIN h = DOMAIN p
        /\ g[i] = Inputs(e, at, c) /\ h[i] = Outputs(e, at, c)
    BY <1>5, <2>1, <2>2, AtTypes
  <2>4. /\ Among(g, applied') = Among(g, applied) + g[i]
        /\ Among(h, applied') = Among(h, applied) + h[i]
    BY <1>2, <1>5, <2>3, AmongOne
  <2>5. PICK D \in Nat, T \in Nat, x \in Nat, O \in Nat, y \in Nat :
          /\ D = Among(g, applied) /\ T = Total(g) /\ x = Inputs(e, at, c)
          /\ O = Among(h, applied) /\ y = Outputs(e, at, c)
          /\ D + x = Among(g, applied') /\ O + y = Among(h, applied') /\ D + x <= T
    <3>1. Among(g, applied) \in Nat /\ Among(h, applied) \in Nat /\ Total(g) \in Nat
      BY AmongType DEF Total
    <3>2. g[i] \in Nat /\ h[i] \in Nat
      BY <1>5, <2>3
    <3>3. Among(g, applied') <= Total(g)
      BY AmongBelow
    <3> QED BY <2>3, <2>4, <3>1, <3>2, <3>3
  <2>6. PICK b \in Nat, E \in Nat : b = B[stage][c] /\ E = solution[stage].empty[c]
    BY <1>2, <1>4, StageSums
  <2>7. E = AtLeastZero(T - b)
    BY <1>3, <1>4, <2>1, <2>2, <2>5, <2>6 DEF StagesFollow, StageFollows
  <2>8. /\ emptyInputs[c] = AtLeastZero(E - D) /\ Height(c) = b - AtLeastZero(D - E)
        /\ justAdded[c][0] + justAdded[c][1] = O
    BY <1>2, <1>3, <2>1, <2>5, <2>6 DEF Follows, StageCounts
  <2>12. /\ AtLeastZero(AtLeastZero(E - D) - x) = AtLeastZero(E - (D + x))
         /\ b - AtLeastZero(D - E) - AtMost(AtLeastZero(x - AtLeastZero(E - D)), b - AtLeastZero(D - E))
              = b - AtLeastZero((D + x) - E)
    <3>1. D + x <= T
      BY <2>5
    <3> QED BY <2>7, <3>1 DEF AtLeastZero, AtMost
  <2>9. emptyInputs'[c] = AtLeastZero(E - (D + x))
    <3>1. emptyInputs'[c] = AtLeastZero(AtLeastZero(E - D) - x)
      BY <1>2, <2>2, <2>5, <2>8
    <3> QED BY <3>1, <2>12
  <2>10. Height(c)' = b - AtLeastZero((D + x) - E)
    <3>1. Height(c)' = Height(c) - Takes(e, at, c)
      <4>1. PICK u \in Int, v \in Int, t \in Int, o \in Int :
              u = bits[c][0] /\ v = bits[c][1] /\ t = Takes(e, at, c) /\ o = OnesTaken(at, low, high, c)
        <5>1. /\ Takes(e, at, c) \in 0..Height(c) /\ OnesTaken(at, low, high, c) \in 0..bits[c][1]
          BY <1>2, TakenBounds
        <5>2. bits[c][0] \in Int /\ bits[c][1] \in Int
          <6>1. bits \in [Columns -> [{0, 1} -> Nat]]
            BY Zenon DEF CompressionTypes, HeapTypes
          <6> HIDE DEF CompressionTypes, HeapTypes
          <6>2. bits[c] \in [{0, 1} -> Nat]
            BY Zenon, <6>1
          <6> QED BY <6>2
        <5> QED BY <5>1, <5>2
      <4>2. bits'[c][0] = u - (t - o) /\ bits'[c][1] = v - o
        BY <1>2, <4>1
      <4>3. Height(c)' = (u - (t - o)) + (v - o) /\ Height(c) - Takes(e, at, c) = (u + v) - t
        BY Zenon, <4>1, <4>2 DEF Height
      <4>4. (u - (t - o)) + (v - o) = (u + v) - t
        OBVIOUS
      <4> QED BY Zenon, <4>3, <4>4
    <3>2. Takes(e, at, c) = AtMost(AtLeastZero(x - AtLeastZero(E - D)), b - AtLeastZero(D - E))
      BY <2>5, <2>8 DEF Takes, Taken
    <3>3. Height(c)' = b - AtLeastZero(D - E)
                         - AtMost(AtLeastZero(x - AtLeastZero(E - D)), b - AtLeastZero(D - E))
      BY <2>8, <3>1, <3>2
    <3> QED BY <3>3, <2>12
  <2>11. justAdded'[c][0] + justAdded'[c][1] = O + y
    <3>1. justAdded[c][0] \in Nat /\ justAdded[c][1] \in Nat
      BY DEF CompressionTypes, ApplyTypes, HeapType
    <3>2. PICK count \in Nat : count = low + 2 * high
      BY <1>6
    <3>3. PICK m \in Nat, n \in Nat : m = justAdded[c][0] /\ n = justAdded[c][1]
      BY <3>1
    <3> DEFINE d == BitOf(count, c - at)
    <3>4. /\ justAdded'[c][0] = m + IF Outputs(e, at, c) = 1 /\ d = 0 THEN 1 ELSE 0
          /\ justAdded'[c][1] = n + IF Outputs(e, at, c) = 1 /\ d = 1 THEN 1 ELSE 0
      BY <1>2, <3>2, <3>3 DEF OutputBits
    <3> HIDE DEF d
    <3>5. CASE y = 1
      <4>1. c - at \in Nat
        BY <2>2, <2>5, <3>5 DEF Outputs, Columns
      <4>2. PICK P \in Nat \ {0} : P = Pow2[c - at]
        BY <4>1, Pow2Def
      <4>3. PICK k \in Int : k = count \div P
        <5>1. count \in Int
          OBVIOUS
        <5>2. count \div P \in Int
          BY <5>1, Division
        <5> QED BY <5>2
      <4>4. d = 0 \/ d = 1
        <5>1. d = k % 2
          BY <4>2, <4>3 DEF BitOf, d
        <5>2. k % 2 = 0 \/ k % 2 = 1
          OBVIOUS
        <5> QED BY <5>1, <5>2
      <4>5. Outputs(e, at, c) = 1
        BY <2>5, <3>5
      <4> QED BY SMTT(40), <2>8, <3>3, <3>4, <3>5, <4>4, <4>5
    <3>6. CASE y # 1
      <4>1. y = 0 /\ ~(Outputs(e, at, c) = 1)
        BY <2>5, <3>6 DEF Outputs
      <4> QED BY <2>8, <3>3, <3>4, <4>1
    <3> QED BY <3>5, <3>6
  <2> QED BY <1>2, <1>3, <2>1, <2>5, <2>6, <2>9, <2>10, <2>11 DEF StageCounts
<1>8. Heights(B)' /\ StagesFollow(B)'
  BY <1>2, <1>4 DEF Heights, StagesFollow, StageFollows, PlanColumns, LastStage
<1>9. \A c \in PlanColumns : bitAmount'[c] = B[LastStage'][c]
  BY <1>2, <1>4 DEF Follows, LastStage
<1>10. phase' = "apply" /\ stage' \in DOMAIN solution'
  BY <1>2 DEF Applying
<1> QED BY <1>5, <1>7, <1>8, <1>9, <1>10 DEF Follows, PlanColumns, Columns

LEMMA EndStageFollows ==
  ASSUME CompressionTypes, CompressionTypes', NEW B, Follows(B), EndStage
  PROVE  Follows(B)'
<1>1. /\ Applying /\ Pending = {} /\ applied' = {} /\ justAdded' = NoBits
      /\ bits' = [c \in Columns |-> Merged(c)] /\ stage' = stage + 1
      /\ emptyInputs' = EmptyAt(stage + 1)
      /\ UNCHANGED <<phase, solution, bitAmount, placed, nextAmount>>
  BY DEF EndStage, planVars
<1>2. phase = "apply" /\ Heights(B) /\ StagesFollow(B) /\ applied \subseteq InHeap
  BY <1>1 DEF Follows, Applying
<1>3. PICK p : p = solution[stage].placed
  OBVIOUS
<1>4. ASSUME NEW c \in Columns PROVE Height(c)' = B[stage + 1][c]
  <2>1. PICK g \in Seq(Nat), h \in Seq(Nat) : g = InputsAt(p, c) /\ h = OutputsAt(p, c)
    BY <1>1, <1>2, <1>3, StageSums
  <2>2. /\ c \in PlanColumns /\ p \in Seq(Kinds \X PlanColumns) /\ c \in Nat
        /\ stage \in DOMAIN solution
    BY SMTT(40), <1>1, <1>2, <1>3, StageSums DEF Applying, Columns
  <2>3. \A i \in DOMAIN p : i \notin applied => g[i] = 0 /\ h[i] = 0
    <3> SUFFICES ASSUME NEW i \in DOMAIN p, i \notin applied PROVE g[i] = 0 /\ h[i] = 0
      OBVIOUS
    <3>1. p[i][2] \notin Columns
      BY <1>1, <1>3 DEF Pending, InHeap
    <3>2. p[i] \in Kinds \X PlanColumns
      BY <2>2
    <3>3. p[i][2] \in Nat /\ ~(p[i][2] <= c)
      BY <2>2, <3>1, <3>2, BitHeapAssumption DEF Columns, PlanColumns
    <3>4. g[i] = Inputs(p[i][1], p[i][2], c) /\ h[i] = Outputs(p[i][1], p[i][2], c)
      BY <2>1, <2>2, AtTypes
    <3>5. PICK a \in Nat, e \in Kinds : a = p[i][2] /\ e = p[i][1]
      BY <3>2, <3>3
    <3>6. PICK w \in Nat : w = WOut[e]
      BY WOutBound
    <3>7. Inputs(e, a, c) = 0 /\ Outputs(e, a, c) = 0
      BY <2>2, <3>3, <3>5, <3>6 DEF Inputs, Outputs
    <3> QED BY <3>4, <3>5, <3>7
  <2>4. /\ DOMAIN g = DOMAIN p /\ DOMAIN h = DOMAIN p
    BY <2>1, <2>2, AtTypes
  <2>5. PICK T \in Nat, O \in Nat :
          T = Total(g) /\ T = Among(g, applied) /\ O = Total(h) /\ O = Among(h, applied)
    <3>1. Total(g) \in Nat /\ Total(h) \in Nat
      BY AmongType DEF Total
    <3>2. Among(g, applied) = Total(g)
      BY <2>3, <2>4, AmongBelow
    <3>3. Among(h, applied) = Total(h)
      BY <2>3, <2>4, AmongBelow
    <3> QED BY <3>1, <3>2, <3>3
  <2>6. PICK b \in Nat, E \in Nat : b = B[stage][c] /\ E = solution[stage].empty[c]
    BY <1>1, <1>2, StageSums
  <2>7. E = AtLeastZero(T - b) /\ B[stage + 1][c] = O + AtLeastZero(b - T)
    BY <1>2, <1>3, <2>1, <2>2, <2>5, <2>6 DEF StagesFollow, StageFollows
  <2>8. Height(c) = b - AtLeastZero(T - E) /\ justAdded[c][0] + justAdded[c][1] = O
    BY <1>1, <1>3, <2>1, <2>5, <2>6 DEF Follows, StageCounts
  <2>9. Height(c)' = Height(c) + (justAdded[c][0] + justAdded[c][1])
    <3>1. /\ bits[c][0] \in Nat /\ bits[c][1] \in Nat
          /\ justAdded[c][0] \in Nat /\ justAdded[c][1] \in Nat
      BY DEF CompressionTypes, HeapTypes, ApplyTypes, HeapType
    <3>2. bits'[c][0] = bits[c][0] + justAdded[c][0] /\ bits'[c][1] = bits[c][1] + justAdded[c][1]
      BY <1>1 DEF Merged
    <3>3. /\ Height(c) = bits[c][0] + bits[c][1]
          /\ Height(c)' = bits'[c][0] + bits'[c][1]
      BY DEF Height
    <3> QED BY SMTT(40), <3>1, <3>2, <3>3
  <2> QED BY <2>7, <2>8, <2>9 DEF AtLeastZero
<1>5. StageBegins(B)'
  <2>1. stage' \in DOMAIN solution' => emptyInputs' = solution'[stage'].empty
    BY <1>1 DEF EmptyAt
  <2> QED BY <1>1, <1>4, <2>1 DEF StageBegins, NoBits, Columns
<1>6. Heights(B)' /\ StagesFollow(B)'
  BY <1>1, <1>2 DEF Heights, StagesFollow, StageFollows, PlanColumns, LastStage
<1>7. Applying' => \A c \in Columns : StageCounts(B, c)'
  <2>1. (CompressionTypes /\ StageBegins(B) /\ Heights(B) /\ Applying
           => \A c \in Columns : StageCounts(B, c))'
    BY StageBeginsCounts, PTL
  <2> QED BY <1>5, <1>6, <2>1 DEF Columns
<1>8. stage' \notin DOMAIN solution' => stage' = LastStage'
  BY SMTT(40) DEF CompressionTypes, PlanTypes, ApplyTypes, LastStage
<1>9. stage' \notin DOMAIN solution' => \A c \in Columns : Height(c)' = B[LastStage'][c]
  BY <1>5, <1>8 DEF StageBegins, Columns
<1>10. \A c \in PlanColumns : bitAmount'[c] = B[LastStage'][c]
  BY <1>1, <1>2 DEF Follows, LastStage
<1>11. applied' \subseteq InHeap' /\ phase' = "apply"
  BY <1>1, <1>2
<1> QED BY <1>6, <1>7, <1>9, <1>10, <1>11 DEF Follows, PlanColumns, Columns

LEMMA OtherFollows ==
  ASSUME NEW B, Follows(B)
  PROVE  /\ Fill /\ UNCHANGED <<planVars, applyVars>> => Follows(B)'
         /\ FinalAdd => Follows(B)'
         /\ UNCHANGED vars => Follows(B)'
<1>1. ASSUME UNCHANGED solution PROVE Heights(B)' /\ StagesFollow(B)'
  BY <1>1 DEF Follows, Heights, StagesFollow, StageFollows, PlanColumns, LastStage
<1>2. ASSUME Fill, UNCHANGED <<planVars, applyVars>> PROVE Follows(B)'
  <2>1. phase = "fill" /\ phase' = "fill"
    BY <1>2 DEF Fill, Enter, AddBit, AddConstantOneBit, SubtractConstantOneBit, AddConstant,
                SubtractConstant, AddSignal, SubtractSignal
  <2> QED BY <1>1, <1>2, <2>1 DEF Follows, NotApplied, NotPlanned, NoBits, NoAmount, Columns,
                                  PlanColumns, Applying, planVars, applyVars
<1>3. ASSUME FinalAdd PROVE Follows(B)'
  BY <1>1, <1>3 DEF Follows, FinalAdd, Applying, planVars
<1>4. ASSUME UNCHANGED vars PROVE Follows(B)'
  <2>1. PlanCounts(B) => PlanCounts(B)'
    BY <1>4 DEF vars, heapVars, planVars, applyVars, PlanCounts, Height, LastStage, PlanColumns, Columns
  <2>2. \A c \in Columns : Height(c)' = Height(c) /\ (StageCounts(B, c) => StageCounts(B, c)')
    BY <1>4 DEF vars, heapVars, planVars, applyVars, Height, StageCounts
  <2>3. InHeap' = InHeap
    BY <1>4 DEF vars, planVars, applyVars, InHeap, Columns
  <2> QED BY <1>1, <1>4, <2>1, <2>2, <2>3
         DEF vars, heapVars, planVars, applyVars, Follows, NotApplied, NotPlanned, NoBits, NoAmount,
             Columns, PlanColumns, Applying, LastStage
<1> QED BY <1>2, <1>3, <1>4

\* A heap of no bits is what follows from no plan.
LEMMA InitFollows == Init => \E B : Follows(B)
<1> SUFFICES ASSUME Init PROVE \E B : Follows(B)
  OBVIOUS
<1>1. LastStage = 1 /\ DOMAIN solution = {}
  BY DEF Init, LastStage
<1>2. PICK B : B \in [1..1 -> [PlanColumns -> Nat]]
  <2> WITNESS [s \in 1..1 |-> NoAmount]
  <2> QED BY DEF NoAmount
<1>3. Heights(B) /\ StagesFollow(B)
  BY <1>1, <1>2 DEF Heights, StagesFollow
<1>4. Follows(B)
  BY <1>1, <1>3 DEF Init, HeapInit, Follows, NotApplied, NotPlanned, Applying
<1> QED BY <1>4

PlanWorks == \E B : Follows(B)

LEMMA PlanWorksStep ==
  ASSUME CompressionTypes, CompressionTypes', PlanWorks, [Next]_vars
  PROVE  PlanWorks'
<1>1. PICK B : Follows(B)
  BY DEF PlanWorks
<1>2. CASE Fill /\ UNCHANGED <<planVars, applyVars>>
  BY <1>1, <1>2, OtherFollows DEF PlanWorks
<1>3. CASE Start
  BY <1>1, <1>3, StartFollows DEF PlanWorks
<1>4. CASE PlaceMostEfficient \/ PlaceInTallest
  BY <1>1, <1>4, PlaceWitness, PlaceFollows DEF PlanWorks
<1>5. CASE FinishStage
  BY <1>1, <1>5, FinishFollows DEF PlanWorks
<1>6. CASE PlanComplete
  BY <1>1, <1>6, PlanCompleteFollows DEF PlanWorks
<1>7. CASE ApplyCompressor
  BY <1>1, <1>7, ApplyFollows DEF PlanWorks
<1>8. CASE EndStage
  BY <1>1, <1>8, EndStageFollows DEF PlanWorks
<1>9. CASE FinalAdd
  BY <1>1, <1>9, OtherFollows DEF PlanWorks
<1>10. CASE UNCHANGED vars
  BY <1>1, <1>10, OtherFollows DEF PlanWorks
<1> QED BY <1>2, <1>3, <1>4, <1>5, <1>6, <1>7, <1>8, <1>9, <1>10 DEF Next, Compress

\* The bits that the final adder finds in a column are those that the plan ends
\* with, for every width of heap and every plan: the inputs that the plan left
\* empty and the outputs above the heap are counted alike in the plan, where the
\* numbers of bits become negative, and in its application, where bits are taken
\* while there are.
THEOREM PlanIsAlwaysFollowed == Spec => []PlanIsFollowed
<1>1. Init => PlanWorks
  BY InitFollows DEF PlanWorks
<1>2. ASSUME CompressionTypes, CompressionTypes', PlanWorks, [Next]_vars PROVE PlanWorks'
  BY <1>2, PlanWorksStep
<1>3. PlanWorks => PlanIsFollowed
  <2> SUFFICES ASSUME NEW B, Follows(B), phase = "apply", stage \notin DOMAIN solution,
                      NEW c \in Columns
               PROVE  Height(c) = bitAmount[c]
    BY DEF PlanWorks, PlanIsFollowed
  <2>1. c \in PlanColumns
    BY BitHeapAssumption DEF Columns, PlanColumns
  <2> QED BY <2>1 DEF Follows
<1> QED BY <1>1, <1>2, <1>3, CompressionAlwaysTyped, PTL DEF Spec

\* The plan is complete when an adder can take what is left, and so the final
\* adder gets at most two bits per column, however many stages it took and
\* whatever inputs stayed empty: FinalAdd is never refused for a taller column.
AdderFits ==
  phase = "apply" /\ stage \notin DOMAIN solution => \A c \in Columns : Height(c) <= AdderHeight

THEOREM AdderAlwaysFits == Spec => []AdderFits
<1> DEFINE Reached == phase = "apply" => ReachedAdder
<1>1. Init => Reached
  BY DEF Init, HeapInit
<1>2. ASSUME Reached, [Next]_vars PROVE Reached'
  <2>1. CASE PlanComplete
    BY <2>1 DEF PlanComplete, Planned, ReachedAdder, planVars, PlanColumns
  <2>2. CASE phase' = phase /\ bitAmount' = bitAmount
    BY <1>2, <2>2 DEF ReachedAdder, PlanColumns
  <2>3. CASE phase' # "apply"
    BY <2>3
  <2>4. CASE Fill /\ UNCHANGED <<planVars, applyVars>>
    BY <2>2, <2>4 DEF Fill, Enter, AddBit, AddConstantOneBit, SubtractConstantOneBit, AddConstant,
                      SubtractConstant, AddSignal, SubtractSignal, planVars
  <2>5. CASE Start
    BY <2>3, <2>5 DEF Start, StartCompression
  <2>6. CASE PlaceMostEfficient \/ PlaceInTallest
    BY <2>3, <2>6, PlaceWitness DEF Place, Planning, heapVars
  <2>7. CASE FinishStage
    BY <2>3, <2>7 DEF FinishStage, Planning, heapVars
  <2>8. CASE ApplyCompressor \/ EndStage
    BY <2>2, <2>8 DEF ApplyCompressor, EndStage, planVars
  <2>9. CASE FinalAdd
    BY <2>3, <2>9 DEF FinalAdd
  <2>10. CASE UNCHANGED vars
    BY <2>2, <2>10 DEF vars, heapVars, planVars
  <2> QED BY <1>2, <2>1, <2>4, <2>5, <2>6, <2>7, <2>8, <2>9, <2>10 DEF Next, Compress
<1>3. PlanIsFollowed /\ Reached => AdderFits
  <2>1. \A c \in Columns : c \in PlanColumns
    BY BitHeapAssumption DEF Columns, PlanColumns
  <2> QED BY <2>1 DEF PlanIsFollowed, ReachedAdder, AdderFits
<1> HIDE DEF Reached
<1> QED BY <1>1, <1>2, <1>3, PlanIsAlwaysFollowed, PTL DEF Spec
=============================================================================
