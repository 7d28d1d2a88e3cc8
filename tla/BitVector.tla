----------------------------- MODULE BitVector -----------------------------
(***************************************************************************)
(* Bit vectors as natural numbers, as the VHDL that FloPoCo generates      *)
(* slices, concatenates and adds them.  A width is given where it matters. *)
(***************************************************************************)
EXTENDS Integers, Sums

\* Bit i of an integer in two's complement.
BitOf(n, i) == (n \div Pow2[i]) % 2

\* v(hi downto lo); an empty range has value 0.
Bits(v, hi, lo) == IF hi < lo THEN 0 ELSE (v \div Pow2[lo]) % Pow2[hi - lo + 1]

\* a & b, where b has w bits.
Cat(a, w, b) == a * Pow2[w] + b

Ones(w) == Pow2[w] - 1
Fill(w, b) == IF b = 1 THEN Ones(w) ELSE 0

Flag(condition) == IF condition THEN 1 ELSE 0
XorBit(a, b) == (a + b) % 2

\* not v, and v xor (w-1 downto 0 => b).
Not(w, v) == Ones(w) - v
XorAll(w, v, b) == IF b = 1 THEN Not(w, v) ELSE v

\* The value of a vector of w bits read in two's complement.
Signed(w, v) == v - Pow2[w] * BitOf(v, w - 1)

\* IntAdder: X, Y and the output R have w bits, the carry is lost.
IntAdder(w, x, y, cin) == (x + y + cin) % Pow2[w]

\* intlog2(): the number of bits of a natural number, 0 for a negative one.
IntLog2(n) ==
  LET bits[m \in Nat] == IF m = 0 THEN 0 ELSE 1 + bits[m \div 2]
  IN IF n <= 0 THEN 0 ELSE bits[n]

SmallerOf(a, b) == IF a < b THEN a ELSE b
LargerOf(a, b) == IF a < b THEN b ELSE a
=============================================================================
