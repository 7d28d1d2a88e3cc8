------------------------------ MODULE BitHeap ------------------------------
(***************************************************************************)
(* A bit heap while an operator fills it (src/src/BitHeap/BitHeap.cpp):    *)
(* weighted bits in columns, and an integer that gathers the constants,    *)
(* among which the ones that the sign-extension trick needs.  When         *)
(* compression starts the constant becomes bits too.                       *)
(*                                                                         *)
(* Weights are relative to the lsb of the heap, which is 0 here.  Bits     *)
(* carry the value they have for some inputs of the operator, so that a    *)
(* behaviour is the hardware seen through one set of inputs.               *)
(***************************************************************************)
EXTENDS Integers, FiniteSets, Sums

CONSTANTS
  Msb,          \* highest weight of the heap
  Formats,      \* signals: records [msb, lsb, signed]
  Shifts,       \* shifts given to addSignal() and subtractSignal()
  Weights,      \* weights given to addBit(), up to one above the heap
  Constants,    \* integers given to addConstant() and subtractConstant()
  MaxHeight,    \* bound on the columns while the heap is filled
  MaxConstant   \* bound on the absolute value of constantBits

Columns == 0..Msb
Modulus == Pow2[Msb + 1]

ASSUME BitHeapAssumption ==
  /\ Msb \in Nat \ {0}
  /\ \A f \in Formats : f.lsb \in Int /\ f.msb \in Int /\ f.lsb <= f.msb /\ f.signed \in BOOLEAN
  /\ Shifts \subseteq Int
  /\ Weights \subseteq 0..(Msb + 1)
  /\ Constants \subseteq Int
  /\ MaxHeight \in Nat
  /\ MaxConstant \in Nat

VARIABLES
  phase,         \* "fill" until startCompression()
  bits,          \* bits[c][b]: the free bits of column c that have value b
  constantBits,
  sum            \* history: what was added, modulo the range of the heap

heapVars == <<phase, bits, constantBits, sum>>

NoBits == [c \in Columns |-> [b \in {0, 1} |-> 0]]
Height(c) == bits[c][0] + bits[c][1]
ValueOf(heap) == Weighted([c \in Columns |-> heap[c][1]], Msb + 1)

HeapInit ==
  /\ phase = "fill"
  /\ bits = NoBits
  /\ constantBits = 0
  /\ sum = 0

\* Bit i of an integer in two's complement.
BitOf(n, i) == (n \div Pow2[i]) % 2

\* addBit() for each weight of newBits (a weight outside of the heap is
\* ignored), constants adding up to k, together worth value.
Enter(newBits, k, value) ==
  /\ phase = "fill"
  /\ bits' = [c \in Columns |-> [b \in {0, 1} |->
                bits[c][b] + IF c \in DOMAIN newBits /\ newBits[c] = b THEN 1 ELSE 0]]
  /\ constantBits' = constantBits + k
  /\ sum' = (sum + value) % Modulus
  /\ \A c \in Columns : bits'[c][0] + bits'[c][1] <= MaxHeight
  /\ constantBits' \in -MaxConstant..MaxConstant
  /\ UNCHANGED phase

AddBit(w, b) == Enter([x \in {w} |-> b], 0, b * Pow2[w])

AddConstantOneBit(c) == Enter(<<>>, Pow2[c], Pow2[c])
SubtractConstantOneBit(c) == Enter(<<>>, -Pow2[c], -Pow2[c])

\* intlog2(): the number of bits of a natural number, 0 for a negative one.
IntLog2(n) == IF n <= 0 THEN 0 ELSE CHOOSE k \in 1..n : Pow2[k - 1] <= n /\ n < Pow2[k]

\* addConstant() refuses a negative constant; both refuse one out of range.
InRange(k, shift) == shift >= 0 /\ shift + IntLog2(k) <= Msb
AddConstant(k, shift) == k >= 0 /\ InRange(k, shift) /\ Enter(<<>>, k * Pow2[shift], k * Pow2[shift])
SubtractConstant(k, shift) == InRange(k, shift) /\ Enter(<<>>, -(k * Pow2[shift]), -(k * Pow2[shift]))

-----------------------------------------------------------------------------
(***************************************************************************)
(* Signals.  v is the integer that the bits of the signal hold.            *)
(***************************************************************************)
WidthOf(f) == f.msb - f.lsb + 1
Values(f) == IF f.signed THEN (-Pow2[WidthOf(f) - 1])..(Pow2[WidthOf(f) - 1] - 1)
                         ELSE 0..(Pow2[WidthOf(f)] - 1)

\* A wrong variant of OnesFrom, for a mutation run.
OnesAbove(w) == IF w < Msb THEN Modulus - Pow2[w + 1] ELSE 0

\* The string of constant ones from a weight to the msb of the heap.
OnesFrom(w) == IF w <= Msb THEN Modulus - Pow2[w] ELSE 0

\* The bits of a signal at the weights they get, some of them complemented.
BitsOf(f, shift, v, complemented) ==
  [w \in (f.lsb + shift)..(f.msb + shift) |->
     LET b == BitOf(v, w - shift - f.lsb)
     IN IF w - shift \in complemented THEN 1 - b ELSE b]

\* addSignal() extends the sign of a signal by the constant trick, unless its
\* msb is the one of the heap, a test made before the shift.
ComplementsSign(f) == f.signed /\ f.msb # Msb

\* No bit of the signal falls below the lsb of the heap.
AddSignal(f, shift, v) ==
  /\ f.lsb + shift >= 0
  /\ Enter(BitsOf(f, shift, v, IF ComplementsSign(f) THEN {f.msb} ELSE {}),
           IF ComplementsSign(f) THEN OnesFrom(f.msb + shift) ELSE 0,
           v * Pow2[f.lsb + shift])

\* The constant ones start at the sign bit, which stays as it is, or just
\* above an unsigned signal; the + 1 must be within the heap.
SubtractSignal(f, shift, v) ==
  /\ f.lsb + shift \in Columns
  /\ Enter(BitsOf(f, shift, v, (f.lsb..f.msb) \ (IF f.signed THEN {f.msb} ELSE {})),
           Pow2[f.lsb + shift]
             + OnesFrom(IF f.signed THEN f.msb + shift ELSE f.msb + shift + 1),
           -(v * Pow2[f.lsb + shift]))

Fill ==
  \/ \E w \in Weights, b \in {0, 1} : AddBit(w, b)
  \/ \E c \in Columns : AddConstantOneBit(c)
  \/ \E c \in Columns : SubtractConstantOneBit(c)
  \/ \E k \in Constants, shift \in Shifts : AddConstant(k, shift)
  \/ \E k \in Constants, shift \in Shifts : SubtractConstant(k, shift)
  \/ \E f \in Formats, shift \in Shifts : \E v \in Values(f) : AddSignal(f, shift, v)
  \/ \E f \in Formats, shift \in Shifts : \E v \in Values(f) : SubtractSignal(f, shift, v)

\* startCompression() adds the constant bits; an empty heap is an assertion
\* failure in orderBitsByColumnAndStage().
WithConstant(c) == [b \in {0, 1} |->
                      bits[c][b] + IF b = 1 THEN BitOf(constantBits, c) ELSE 0]
StartCompression ==
  /\ phase = "fill"
  /\ bits' = [c \in Columns |-> WithConstant(c)]
  /\ bits' # NoBits
  /\ phase' = "plan"
  /\ UNCHANGED <<constantBits, sum>>

HeapNext == Fill \/ StartCompression
HeapSpec == HeapInit /\ [][HeapNext]_heapVars

-----------------------------------------------------------------------------
\* The bits and the constant of the heap are worth exactly what was added and
\* subtracted, modulo its range: complemented bits, strings of ones and + 1
\* cancel out for every mixture of addSignal(), subtractSignal() and constants,
\* and startCompression() adds the constant once.
HeapIsExact ==
  phase \in {"fill", "plan"} =>
    (ValueOf(bits) + (IF phase = "fill" THEN constantBits ELSE 0)) % Modulus = sum
=============================================================================
