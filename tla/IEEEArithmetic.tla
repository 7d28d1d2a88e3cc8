--------------------------- MODULE IEEEArithmetic ---------------------------
(***************************************************************************)
(* The operators that work on IEEE-754 numbers directly, subnormals        *)
(* included: the adder and the fused multiply-add (src/src/IEEE), and the  *)
(* reference of their test benches (src/src/TestBenches/IEEENumber.cpp).   *)
(***************************************************************************)
EXTENDS IEEE, Shifters

IEEESign(f, v) == BitOf(v, f.wE + f.wF)
IEEEExponent(f, v) == Bits(v, f.wE + f.wF - 1, f.wF)
IEEEFraction(f, v) == Bits(v, f.wF - 1, 0)
HasAllOnes(f, v) == IEEEExponent(f, v) = Ones(f.wE)
IsInf(f, v) == HasAllOnes(f, v) /\ IEEEFraction(f, v) = 0
IsNaN(f, v) == HasAllOnes(f, v) /\ IEEEFraction(f, v) # 0
IsZero(f, v) == v % 2 ^ (f.wE + f.wF) = 0

\* The implicit bit of a normal number, and the significand with it.
IsNormal(f, v) == Flag(IEEEExponent(f, v) # 0)
IEEESignificand(f, v) == Cat(IsNormal(f, v), f.wF, IEEEFraction(f, v))

IEEEZero(f, sign) == Cat(sign, f.wE + f.wF, 0)
IEEEInf(f, sign) == Cat(Cat(sign, f.wE, Ones(f.wE)), f.wF, 0)
IEEENaN(f) == Ones(f.wE + f.wF)

\* The test bench accepts any NaN for a NaN.
IEEEEqual(f, computed, expected) == computed = expected \/ (IsNaN(f, computed) /\ IsNaN(f, expected))

-----------------------------------------------------------------------------
(***************************************************************************)
(* The references.                                                         *)
(***************************************************************************)
\* The weight of the last bit of a subnormal, and a finite number in that unit.
MinQuantum(f) == 1 - Bias(f) - f.wF
IEEEUlps(f, v) == (IF IEEESign(f, v) = 1 THEN -1 ELSE 1)
                    * IEEESignificand(f, v) * 2 ^ LargerOf(IEEEExponent(f, v) - 1, 0)

\* setMPFR(): (-1)^sign * n * 2^e, for n > 0, to the nearest, ties to even; below the
\* normal numbers the quantum stays that of the subnormals.
IEEERounded(f, sign, n, e) ==
  LET quantum == LargerOf(IntLog2(n) - 1 + e - f.wF, MinQuantum(f))
      den == 2 ^ LargerOf(quantum - e, 0)
      num == n * 2 ^ LargerOf(e - quantum, 0)
      floor == num \div den
      rest == num % den
      up == Flag(2 * rest > den \/ (2 * rest = den /\ floor % 2 = 1))
      code == (quantum - MinQuantum(f)) * 2 ^ f.wF + floor + up
  IN IF code >= Ones(f.wE) * 2 ^ f.wF THEN IEEEInf(f, sign) ELSE Cat(sign, f.wE + f.wF, code)

\* The sum of a product, or a number, of sign s1 and one of sign s2, with the
\* exact value total * 2^e.
IEEESumOf(f, s1, s2, total, e) ==
  IF total = 0 THEN IEEEZero(f, SmallerOf(s1, s2))
  ELSE IEEERounded(f, Flag(total < 0), AbsOf(total), e)

IEEESum(f, x, y) ==
  LET sx == IEEESign(f, x)
      sy == IEEESign(f, y)
  IN IF IsNaN(f, x) \/ IsNaN(f, y) \/ (IsInf(f, x) /\ IsInf(f, y) /\ sx # sy) THEN IEEENaN(f)
     ELSE IF IsInf(f, x) THEN x
     ELSE IF IsInf(f, y) THEN y
     ELSE IEEESumOf(f, sx, sy, IEEEUlps(f, x) + IEEEUlps(f, y), MinQuantum(f))

ProductIsNaN(f, a, b) == \/ IsNaN(f, a) \/ IsNaN(f, b)
                         \/ IsInf(f, a) /\ IsZero(f, b)
                         \/ IsZero(f, a) /\ IsInf(f, b)

\* A*B+C, with the signs of AB and C changed if asked for.
FusedMultiplyAdd(f, negateAB, negateC, a, b, c) ==
  LET sp == XorBit(XorBit(IEEESign(f, a), IEEESign(f, b)), negateAB)
      sc == XorBit(IEEESign(f, c), negateC)
      infinite == IsInf(f, a) \/ IsInf(f, b)
      product == IEEEUlps(f, a) * IEEEUlps(f, b) * (IF negateAB = 1 THEN -1 ELSE 1)
      addend == IEEEUlps(f, c) * 2 ^ (-MinQuantum(f)) * (IF negateC = 1 THEN -1 ELSE 1)
  IN IF ProductIsNaN(f, a, b) \/ IsNaN(f, c) \/ (infinite /\ IsInf(f, c) /\ sp # sc) THEN IEEENaN(f)
     ELSE IF infinite THEN IEEEInf(f, sp)
     ELSE IF IsInf(f, c) THEN IEEEInf(f, sc)
     ELSE IEEESumOf(f, sp, sc, product + addend, 2 * MinQuantum(f))

-----------------------------------------------------------------------------
(***************************************************************************)
(* IEEEAdd.  (Its parameter sub, which no caller can set, is left out.)    *)
(***************************************************************************)
\* The distance by which the smaller significand is shifted: one less when it
\* is subnormal and the other is not, as exponent 0 stands for exponent 1.
IEEEShiftValue(f, expDiff, correction) ==
  (IF expDiff >= f.wF + 3 THEN f.wF + 3 ELSE expDiff) - correction

\* A wrong variant of Renormalization, for a mutation run: a result that becomes
\* subnormal is normalized as far as its bits allow.
RenormalizationUnbounded(f, lzc, exponent, z1, z0) ==
  IF z1 = 1 THEN [shift |-> lzc, deltaExp |-> -1]
  ELSE IF z0 = 1 /\ exponent = 0 THEN [shift |-> lzc, deltaExp |-> -1]
  ELSE IF z0 = 1 \/ exponent = 0 THEN [shift |-> 1, deltaExp |-> 0]
  ELSE IF lzc < f.wF + 3 THEN [shift |-> lzc, deltaExp |-> lzc - 1]
  ELSE [shift |-> lzc, deltaExp |-> exponent]

\* leftShiftVal and deltaExp for the cases of the comment: A, an overflow; B.1,
\* two subnormals that make a normal number; B.2 and C.1, nothing to do; C.2.a,
\* a cancellation; C.2.b, one that ends with a subnormal; C.2.c, a zero.
Renormalization(f, lzc, exponent, z1, z0) ==
  IF z1 = 1 THEN [shift |-> lzc, deltaExp |-> -1]
  ELSE IF z0 = 1 /\ exponent = 0 THEN [shift |-> lzc, deltaExp |-> -1]
  ELSE IF z0 = 1 \/ exponent = 0 THEN [shift |-> 1, deltaExp |-> 0]
  ELSE IF lzc <= exponent /\ lzc < f.wF + 3 THEN [shift |-> lzc, deltaExp |-> lzc - 1]
  ELSE IF lzc < f.wF + 3 THEN [shift |-> exponent, deltaExp |-> exponent]
  ELSE [shift |-> lzc, deltaExp |-> exponent]

\* The sum of the significands, on wF+4 bits, the one of newY shifted.
IEEEFracAdd(f, newX, effSub, aligned) ==
  IntAdder(f.wF + 4, IEEESignificand(f, newX) * 4, XorAll(f.wF + 4, aligned.R, effSub),
           Flag(effSub = 1 /\ aligned.Sticky = 0))

\* Exponent and fraction of a normalized significand, rounded to nearest even.
IEEERound(f, exponent, significand, sticky) ==
  LET inexact == sticky = 1 \/ Bits(significand, 1, 0) # 0
      roundUp == BitOf(significand, 2) = 1 /\ (inexact \/ BitOf(significand, 3) = 1)
  IN IntAdder(f.wE + f.wF,
              Cat(exponent % 2 ^ f.wE, f.wF, Bits(significand, f.wF + 2, 3)), 0, Flag(roundUp))

IEEEAddResult(f, newX, newY, effSub, lzc, expSigR) ==
  LET infinite == IsInf(f, newX) \/ IsInf(f, newY)
      resultIsNaN == \/ IsNaN(f, newX) \/ IsNaN(f, newY)
                     \/ IsInf(f, newX) /\ IsInf(f, newY) /\ effSub = 1
      resultIsZero == lzc >= f.wF + 3 /\ Bits(expSigR, f.wE + f.wF - 1, f.wF) = 0
      positive == /\ resultIsNaN \/ (resultIsZero /\ ~infinite)
                  /\ ~IsZero(f, newX) \/ ~IsZero(f, newY) \/ effSub = 1
      signR == IF positive THEN 0 ELSE IEEESign(f, newX)
  IN CASE ~resultIsNaN /\ (infinite \/ HasAllOnes(f, expSigR)) -> IEEEInf(f, signR)
       [] resultIsNaN -> Cat(signR, f.wE + f.wF, IEEENaN(f))
       [] OTHER -> Cat(signR, f.wE + f.wF, expSigR)

IEEEAddSorted(f, newX, newY) ==
  LET effSub == XorBit(IEEESign(f, newX), IEEESign(f, newY))
      expX == IEEEExponent(f, newX)
      correction == Flag(IEEEExponent(f, newY) = 0 /\ expX # 0)
      rounded(z, lzc, norm, sticky) ==
        IEEEAddResult(f, newX, newY, effSub, lzc,
          IEEERound(f, expX - norm.deltaExp,
                    LeftShifter(f.wF + 4, f.wF + 3, 2 * f.wF + 7, 0, z, norm.shift), sticky))
      normalized(z, lzc, sticky) ==
        rounded(z, lzc, Renormalization(f, lzc, expX, BitOf(z, f.wF + 3), BitOf(z, f.wF + 2)), sticky)
      counted(z, sticky) == normalized(z, LZOC(f.wF + 3, 0, Bits(z, f.wF + 3, 1)), sticky)
      added(aligned) == counted(IEEEFracAdd(f, newX, effSub, aligned), aligned.Sticky)
  IN added(StickyShifter(f.wF + 3, f.wF + 2, f.wF + 3, 0, IEEESignificand(f, newY) * 4,
                         IEEEShiftValue(f, expX - IEEEExponent(f, newY), correction)))

\* The operands are swapped so that newX is the larger one.
IEEEAdd(f, x, y) ==
  IF x % 2 ^ (f.wE + f.wF) < y % 2 ^ (f.wE + f.wF)
  THEN IEEEAddSorted(f, y, x)
  ELSE IEEEAddSorted(f, x, y)

-----------------------------------------------------------------------------
(***************************************************************************)
(* IEEEFMA: the addend is shifted, from p+3 bits to the left of the        *)
(* product to 2p+1 to its right, and added to the product; the sum is      *)
(* normalized up to two bits, from its leading zeros or from the known     *)
(* position of a large addend, and then rounded.                           *)
(***************************************************************************)
Precision(f) == f.wF + 1

\* Exponents without their bias, on wE bits.
Unbiased(f, v) == IEEEExponent(f, v) - (2 ^ (f.wE - 1) - 2 + IsNormal(f, v))

\* A wrong variant of AddendShift, for a mutation run: an addend far below the
\* product is not told apart.
AddendShiftUnbounded(f, expDiff) ==
  IF BitOf(expDiff - (Precision(f) + 3), f.wE + 1) = 1
  THEN (Precision(f) + 3 - expDiff) % 2 ^ IntLog2(3 * Precision(f) + 4)
  ELSE 0

\* The shift of the addend for the difference of exponents, seen on wE+2 bits.
AddendShift(f, expDiff) ==
  LET p == Precision(f)
      negative(n) == BitOf(n, f.wE + 1) = 1
  IN IF negative(expDiff + 2 * p) THEN 3 * p + 4
     ELSE IF negative(expDiff - (p + 3)) THEN (p + 3 - expDiff) % 2 ^ IntLog2(3 * p + 4)
     ELSE 0

\* RisNaN and tentativeRisInf; the parameters that negate are not looked at.
FMAIsNaN(f, a, b, c) ==
  LET differ == XorBit(XorBit(IEEESign(f, a), IEEESign(f, b)), IEEESign(f, c)) = 1
  IN \/ IsNaN(f, a) \/ IsNaN(f, b) \/ IsNaN(f, c)
     \/ (IsInf(f, a) \/ IsInf(f, b)) /\ IsInf(f, c) /\ differ
FMAIsInf(f, a, b, c) ==
  LET differ == XorBit(XorBit(IEEESign(f, a), IEEESign(f, b)), IEEESign(f, c)) = 1
      finite(v) == ~IsZero(f, v) /\ ~IsNaN(f, v)
  IN \/ /\ (IsInf(f, a) /\ finite(b)) \/ (IsInf(f, b) /\ finite(a))
        /\ ~IsNaN(f, c)
        /\ ~IsInf(f, c) \/ ~differ
     \/ /\ IsInf(f, c) /\ ~IsNaN(f, a) /\ ~IsNaN(f, b)
        /\ (IsInf(f, a) \/ IsInf(f, b)) => ~differ

\* The addend, shifted, plus or minus the product, in absolute value, with its
\* leading zeros among the bits that the product reaches.
BigSum(f, effSub, product, addend, shift) ==
  LET p == Precision(f)
      wide == 3 * p + 5
      shifted == RightShifter(p, 3 * p + 4, 4 * p + 4, 0, addend, shift)
      aligned == Bits(shifted, 4 * p + 3, p)
      sum == IntAdder(wide, XorAll(wide, aligned, effSub), product, effSub)
      sum2 == (aligned - product) % 2 ^ wide
      abs == (IF BitOf(sum2, wide - 1) = 1 \/ effSub = 0 THEN sum ELSE sum2) % 2 ^ (wide - 1)
  IN [sticky |-> Bits(shifted, p - 1, 0) # 0,
      negative |-> BitOf(sum, wide - 1),
      abs |-> abs,
      lzc |-> LZOC(2 * p + 4, 0, abs % 2 ^ (2 * p + 4))]

\* Where the leading one of the sum goes, and the exponent it then has.
FMAEMin(f) == 2 - 2 ^ (f.wE - 1)
Anchored(f, expC, normalC, expP, shift, lzc) ==
  LET p == Precision(f)
      small == expC - expP < 3
      subnormal == (small \/ normalC = 0) /\ expP + 2 ^ (f.wE - 1) + 1 < lzc
      zero == small /\ lzc = 2 * p + 4
  IN [isZero |-> zero,
      isSubnormal |-> subnormal,
      shift |-> IF small /\ ~subnormal THEN lzc + p + 1
                ELSE IF small THEN expP + p + 3 - FMAEMin(f)
                ELSE shift,
      exponent |-> IF zero THEN FMAEMin(f) + 1
                   ELSE IF subnormal THEN FMAEMin(f)
                   ELSE IF small THEN expP - lzc + 3
                   ELSE expC + 1]

\* The normalized sum, whose leading one is in one of three positions, rounded:
\* below bits stand under the last bit of the fraction.
FMARounded(f, anchor, normd, sticky1) ==
  LET p == Precision(f)
      frac == Bits(normd, 3 * p + 4, 2 * p + 2)
      leading == IF anchor.isSubnormal THEN 1 ELSE Bits(frac, f.wF + 3, f.wF + 2)
      roundedBelow(below) ==
        LET result == Bits(frac, f.wF + below - 1, below)
            sticky == sticky1 \/ Bits(normd, 2 * p + 1, 0) # 0 \/ Bits(frac, below - 2, 0) # 0
            expUpdate == Bias(f) + (IF anchor.isZero THEN -2 ELSE below - 3)
        IN (Cat((anchor.exponent + expUpdate) % 2 ^ (f.wE + 2), f.wF, result)
              + Flag(BitOf(frac, below - 1) = 1 /\ (sticky \/ result % 2 = 1)))
            % 2 ^ (f.wE + f.wF + 2)
  IN roundedBelow(SmallerOf(leading, 2) + 1)

FMASign(f, signP, signC, isZero, negative, a, b, c) ==
  IF (IsZero(f, a) \/ IsZero(f, b)) /\ IsZero(f, c) THEN SmallerOf(signP, signC)
  ELSE IF isZero THEN 0
  ELSE XorBit(signP, negative)

FMAResult(f, a, b, c, sign, rounded) ==
  IF FMAIsNaN(f, a, b, c) THEN IEEENaN(f)
  ELSE IF \/ FMAIsInf(f, a, b, c)
          \/ Bits(rounded, f.wE + f.wF + 1, f.wE + f.wF) # 0
          \/ HasAllOnes(f, rounded)
       THEN IEEEInf(f, sign)
  ELSE Cat(sign, f.wE + f.wF, Bits(rounded, f.wE + f.wF - 1, 0))

IEEEFMA(f, negateAB, negateC, a, b, c) ==
  LET p == Precision(f)
      signP == XorBit(XorBit(IEEESign(f, a), IEEESign(f, b)), negateAB)
      signC == XorBit(IEEESign(f, c), negateC)
      expP == Unbiased(f, a) + Unbiased(f, b)
      shift == AddendShift(f, Unbiased(f, c) - expP)
      finish(sum, anchor) ==
        FMAResult(f, a, b, c, FMASign(f, signP, signC, anchor.isZero, sum.negative, a, b, c),
                  FMARounded(f, anchor,
                             LeftShifter(3 * p + 4, 3 * p + 3, 6 * p + 7, 0, sum.abs, anchor.shift),
                             sum.sticky))
      anchored(sum) == finish(sum, Anchored(f, Unbiased(f, c), IsNormal(f, c), expP, shift, sum.lzc))
  IN anchored(BigSum(f, XorBit(signP, signC),
                     IEEESignificand(f, a) * IEEESignificand(f, b) * 4,
                     IEEESignificand(f, c), shift))
=============================================================================
