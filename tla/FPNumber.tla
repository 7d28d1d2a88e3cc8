------------------------------ MODULE FPNumber ------------------------------
(***************************************************************************)
(* FloPoCo's floating-point numbers (src/src/TestBenches/FPNumber.cpp):    *)
(* two exception bits, a sign, wE exponent bits with a bias, wF fraction   *)
(* bits.  Every exponent is that of a normal number: zero, infinity and    *)
(* NaN are in the exception bits, and what the other bits hold then is     *)
(* free.  And the reference results that the operators' emulate() compute  *)
(* with MPFR, on exact fractions.                                          *)
(*                                                                         *)
(* A format is a record [wE, wF]; a number is the vector of its bits.      *)
(***************************************************************************)
EXTENDS BitVector

ZeroExn == 0
NormalExn == 1
InfExn == 2
NaNExn == 3

Exn(f, v) == v \div Pow2[f.wE + f.wF + 1]
Sign(f, v) == BitOf(v, f.wE + f.wF)
Exponent(f, v) == Bits(v, f.wE + f.wF - 1, f.wF)
Fraction(f, v) == Bits(v, f.wF - 1, 0)
Significand(f, v) == Pow2[f.wF] + Fraction(f, v)
Encode(f, exn, sign, exponent, fraction) ==
  Cat(Cat(Cat(exn, 1, sign), f.wE, exponent), f.wF, fraction)
Bias(f) == Pow2[f.wE - 1] - 1

Numbers(f) == 0..(Pow2[f.wE + f.wF + 3] - 1)
\* The numbers whose free bits, if any, are all zeros or all ones.
CanonicalNumbers(f) ==
  {v \in Numbers(f) : \/ Exn(f, v) = NormalExn
                      \/ Bits(v, f.wE + f.wF - 1, 0) \in {0, Ones(f.wE + f.wF)}}

Zero(f, sign) == Encode(f, ZeroExn, sign, 0, 0)
Infinity(f, sign) == Encode(f, InfExn, sign, 0, 0)
NaN(f) == Encode(f, NaNExn, 0, 0, 0)

\* n/d is below 2^e, for an e of any sign.
Below(n, d, e) == IF e >= 0 THEN n < d * Pow2[e] ELSE n * Pow2[-e] < d

\* The exponent e of a positive fraction n/d: 2^e <= n/d < 2^(e+1).
Magnitude(n, d) ==
  LET e == IntLog2(n) - IntLog2(d) IN IF Below(n, d, e) THEN e - 1 ELSE e

(***************************************************************************)
(* The nearest number to (-1)^sign * n/d * 2^e: the significand is rounded *)
(* to the nearest, ties to even, and then the exponent tells an underflow, *)
(* to zero, or an overflow, to infinity.  A faithful result may instead be *)
(* rounded "away" from zero, or "toward" it.                               *)
(***************************************************************************)
Packed(f, sign, exponent, fraction) ==
  CASE exponent + Bias(f) < 0 -> Zero(f, sign)
    [] exponent + Bias(f) > Ones(f.wE) -> Infinity(f, sign)
    [] OTHER -> Encode(f, NormalExn, sign, exponent + Bias(f), fraction)

RoundedTo(f, sign, n, d, e, mode) ==
  LET m == Magnitude(n, d)
      k == f.wF - m
      num == IF k >= 0 THEN n * Pow2[k] ELSE n
      den == IF k >= 0 THEN d ELSE d * Pow2[-k]
      floor == num \div den
      rest == num % den
      up == CASE mode = "nearest" -> 2 * rest > den \/ (2 * rest = den /\ floor % 2 = 1)
              [] mode = "away" -> rest > 0
              [] OTHER -> FALSE
      significand == floor + Flag(up)
  IN IF significand = Pow2[f.wF + 1]
     THEN Packed(f, sign, e + m + 1, 0)
     ELSE Packed(f, sign, e + m, significand - Pow2[f.wF])

Rounded(f, sign, n, d, e) == RoundedTo(f, sign, n, d, e, "nearest")

\* TestBench::fp_equal(): what must agree depends on the exception bits expected.
FPEqual(f, computed, expected) ==
  CASE Exn(f, expected) = NormalExn -> computed = expected
    [] Exn(f, expected) = NaNExn -> Exn(f, computed) = NaNExn
    [] OTHER -> Exn(f, computed) = Exn(f, expected) /\ Sign(f, computed) = Sign(f, expected)

-----------------------------------------------------------------------------
(***************************************************************************)
(* The operations of the references, on exact values.                      *)
(***************************************************************************)
\* y with its sign changed, as for a subtraction.
Opposite(f, y) == LET s == Pow2[f.wE + f.wF] IN IF Sign(f, y) = 1 THEN y - s ELSE y + s

\* A normal number as an integer, in ulps of the smallest one.
Ulps(f, v) == (IF Sign(f, v) = 1 THEN -1 ELSE 1) * Significand(f, v) * Pow2[Exponent(f, v)]
AbsOf(n) == IF n < 0 THEN -n ELSE n

Sum(f, x, y) ==
  LET ex == Exn(f, x)
      ey == Exn(f, y)
      total == (IF ex = NormalExn THEN Ulps(f, x) ELSE 0)
                 + (IF ey = NormalExn THEN Ulps(f, y) ELSE 0)
  IN IF ex = NaNExn \/ ey = NaNExn THEN NaN(f)
     ELSE IF ex = InfExn /\ ey = InfExn /\ Sign(f, x) # Sign(f, y) THEN NaN(f)
     ELSE IF ex = InfExn THEN Infinity(f, Sign(f, x))
     ELSE IF ey = InfExn THEN Infinity(f, Sign(f, y))
     ELSE IF ex = ZeroExn /\ ey = ZeroExn THEN Zero(f, SmallerOf(Sign(f, x), Sign(f, y)))
     ELSE IF total = 0 THEN Zero(f, 0)
     ELSE Rounded(f, Flag(total < 0), AbsOf(total), 1, -(f.wF + Bias(f)))

ProductTo(f, x, y, mode) ==
  LET exns == {Exn(f, x), Exn(f, y)}
      sign == XorBit(Sign(f, x), Sign(f, y))
  IN IF NaNExn \in exns \/ exns = {ZeroExn, InfExn} THEN NaN(f)
     ELSE IF InfExn \in exns THEN Infinity(f, sign)
     ELSE IF ZeroExn \in exns THEN Zero(f, sign)
     ELSE RoundedTo(f, sign, Significand(f, x) * Significand(f, y), Pow2[2 * f.wF],
                    Exponent(f, x) + Exponent(f, y) - 2 * Bias(f), mode)
Product(f, x, y) == ProductTo(f, x, y, "nearest")

Quotient(f, x, y) ==
  LET ex == Exn(f, x)
      ey == Exn(f, y)
      sign == XorBit(Sign(f, x), Sign(f, y))
  IN IF NaNExn \in {ex, ey} \/ (ex = ey /\ ex # NormalExn) THEN NaN(f)
     ELSE IF ex = InfExn \/ ey = ZeroExn THEN Infinity(f, sign)
     ELSE IF ex = ZeroExn \/ ey = InfExn THEN Zero(f, sign)
     ELSE Rounded(f, sign, Significand(f, x), Significand(f, y),
                  Exponent(f, x) - Exponent(f, y))

\* The nearest significand to the square root, from its square: the root of a
\* number of the format is never half way between two others.
SquareRoot(f, x) ==
  LET e == Exponent(f, x) - Bias(f)
      square == Significand(f, x) * Pow2[f.wF + (e % 2)]
      root == CHOOSE r \in Pow2[f.wF]..(Pow2[f.wF + 1] - 1) :
                /\ (2 * r - 1) * (2 * r - 1) <= 4 * square
                /\ 4 * square < (2 * r + 1) * (2 * r + 1)
  IN IF Exn(f, x) = ZeroExn THEN Zero(f, Sign(f, x))
     ELSE IF Exn(f, x) = NaNExn \/ Sign(f, x) = 1 THEN NaN(f)
     ELSE IF Exn(f, x) = InfExn THEN Infinity(f, 0)
     ELSE Packed(f, 0, e \div 2, root - Pow2[f.wF])
=============================================================================
