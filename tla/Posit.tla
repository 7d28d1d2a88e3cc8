------------------------------- MODULE Posit -------------------------------
(***************************************************************************)
(* Posits: their reference arithmetic (src/src/TestBenches/PositNumber.cpp),*)
(* the conversions to and from the intermediate format PIF                 *)
(* (src/src/Conversions), and the posit adder made of them                 *)
(* (src/src/Posit/Add).                                                    *)
(*                                                                         *)
(* A posit format is a record [width, wES]; a posit is the vector of its   *)
(* bits; a PIF is the record of its fields, the significand in two's       *)
(* complement without its leading bit.                                     *)
(***************************************************************************)
EXTENDS Shifters

CONSTANTS
  PositFormats,  \* records [width, wES]
  FloatPosits    \* those converted to floating point

Posits(c) == 0..Ones(c.width)
NaR(c) == 2 ^ (c.width - 1)

-----------------------------------------------------------------------------
(***************************************************************************)
(* PositNumber: a posit other than NaR is a multiple of the smallest one.  *)
(***************************************************************************)
MinExp(c) == (2 - c.width) * 2 ^ c.wES
MagnitudeBits(c, v) == IF v > NaR(c) THEN 2 * NaR(c) - v ELSE v

\* operator=(mpz_class) and getMPFR(): the value, in units of the smallest posit.
PositValue == [c \in PositFormats \cup FloatPosits |-> [v \in Posits(c) |->
  LET body == MagnitudeBits(c, v)
      w == c.width - 1
      top == BitOf(body, w - 1)
      run == LeadingCount(w, top, body, w)
      k == LargerOf(0, w - run - 1)
      tail == Cat(Bits(body, k - 1, 0), c.wES, 0)
      exp == (IF top = 1 THEN run - 1 ELSE -run) * 2 ^ c.wES + tail \div 2 ^ k
      value == ((2 ^ k + (tail % 2 ^ k)) * 2 ^ (exp - MinExp(c))) \div 2 ^ k
  IN CASE v = 0 -> 0
       [] v > NaR(c) -> -value
       [] OTHER -> value]]

\* operator=(mpfr_t): the run of the regime, the exponent and the fraction are
\* written one after the other, and rounded to nearest even where they are cut.
NearestPosit(c, n) ==
  LET a == IF n < 0 THEN -n ELSE n
      k == IntLog2(a) - 1
      exp == k + MinExp(c)
      regime == exp \div 2 ^ c.wES
      runWidth == IF regime >= 0 THEN regime + 2 ELSE 1 - regime
      run == IF regime >= 0 THEN 2 ^ runWidth - 2 ELSE 1
      tail == Cat(exp % 2 ^ c.wES, k, a - 2 ^ k)
      kept == c.width - 1 - runWidth
      cut == c.wES + k - kept
      code == IF exp >= -MinExp(c) THEN NaR(c) - 1
              ELSE IF cut <= 0 THEN Cat(run, kept, tail * 2 ^ (-cut))
              ELSE Cat(run, kept, tail \div 2 ^ cut)
                     + Flag(/\ BitOf(tail, cut - 1) = 1
                            /\ \/ Bits(tail, cut - 2, 0) # 0
                               \/ BitOf(IF kept = 0 THEN run ELSE tail \div 2 ^ cut, 0) = 1)
  IN CASE n = 0 -> 0
       [] n < 0 -> 2 * NaR(c) - code
       [] OTHER -> code

\* PositAdd::emulate().
PositSum(c, x, y) ==
  IF x = NaR(c) \/ y = NaR(c) THEN NaR(c)
  ELSE NearestPosit(c, PositValue[c][x] + PositValue[c][y])

-----------------------------------------------------------------------------
(***************************************************************************)
(* Posit2PIF.  The run of the regime is counted, and what follows it is    *)
(* shifted to its place; the exponent is complemented when the regime and  *)
(* the sign say so.                                                        *)
(***************************************************************************)
WE(c) == IntLog2(c.width) + 1 + c.wES
WF(c) == c.width - (c.wES + 3)

\* Whether the regime, and so the exponent, is negative.
NegCount(s, countType) == 1 - XorBit(s, countType)

\* The count has one bit less than the width asks for.
RegimeCount(c) == IntLog2(c.width) - 1

Posit2PIF(c, v) ==
  LET s == BitOf(v, c.width - 1)
      countType == BitOf(v, c.width - 2)
      remainder == Bits(v, c.width - 3, 0)
      zeroOrNaR == countType = 0 /\ remainder = 0
      isZero == zeroOrNaR /\ s = 0
      norm == Normalizer(c.width - 2, c.width - 2, Ones(RegimeCount(c)), countType, remainder)
      rangeCount == XorAll(RegimeCount(c) + 2, norm.Count, NegCount(s, countType))
      partialExponent == Bits(norm.R, c.width - 4, WF(c))
      exponent == Cat(rangeCount, c.wES, XorAll(c.wES, partialExponent, s))
  IN [NAR |-> Flag(zeroOrNaR /\ s = 1),
      s |-> s,
      exponent |-> IF isZero THEN 0
                   ELSE (exponent + (c.width - 2) * 2 ^ c.wES + 1) % 2 ^ WE(c),
      fraction |-> Cat(Flag(~isZero /\ s = 0), WF(c), Bits(norm.R, WF(c) - 1, 0)),
      round |-> 0, sticky |-> 0]

\* A wrong variant of RoundPosit, for a mutation run: ties go up.
RoundPositUp(posit, sticky) == posit \div 2 + BitOf(posit, 0)

\* The last bit of the shifted posit is a guard bit; ties go to even.
RoundPosit(posit, sticky) ==
  posit \div 2 + Flag(BitOf(posit, 0) = 1 /\ (sticky = 1 \/ BitOf(posit, 1) = 1))

\* PIF2Posit: the regime is made by a shift that pads with its own bit.
PIF2Posit(c, pif) ==
  LET exponent == (pif.exponent - ((c.width - 2) * 2 ^ c.wES + 1)) % 2 ^ WE(c)
      negative == BitOf(exponent, WE(c) - 1)
      regime == XorAll(IntLog2(c.width), Bits(exponent, WE(c) - 2, c.wES), negative)
      pad == 1 - XorBit(negative, pif.s)
      body == Cat(Cat(1 + pad, c.wES, XorAll(c.wES, Bits(exponent, c.wES - 1, 0), pif.s)),
                  WF(c) + 1, Cat(Bits(pif.fraction, WF(c) - 1, 0), 1, pif.round))
      shifted == StickyShifter(c.width, c.width, c.width, pad, body, regime)
      rounded == RoundPosit(shifted.R, LargerOf(pif.sticky, shifted.Sticky)) % NaR(c)
      isZero == pif = [NAR |-> 0, s |-> 0, exponent |-> 0, fraction |-> 0, round |-> 0, sticky |-> 0]
  IN IF pif.NAR = 1 THEN NaR(c)
     ELSE IF isZero THEN 0
     ELSE Cat(pif.s, c.width - 1, rounded)

Posit2Posit(c, v) == PIF2Posit(c, Posit2PIF(c, v))

-----------------------------------------------------------------------------
(***************************************************************************)
(* PIFAdd: the significand of the smaller exponent is shifted right, the   *)
(* sum is normalised after its sign, and its low bits make a sticky.       *)
(***************************************************************************)
Mantissa(c, pif) == Cat(pif.s, WF(c) + 1, pif.fraction)

\* The sum of the mantissas with its two low bits and the sticky behind it.
AddMantissa(c, larger, smaller, shifted) ==
  LET wF == WF(c)
      sum == (Cat(Cat(larger.s, wF + 2, Mantissa(c, larger)), 1, 0)
                + Cat(smaller.s, wF + 3, shifted.R \div 2)) % 2 ^ (wF + 4)
  IN Cat(Cat(sum, 1, BitOf(shifted.R, 0)), 1, shifted.Sticky)

PIFResult(c, nar, exponent, countType, norm) ==
  LET wF == WF(c)
      round == BitOf(norm.R, 4)
      sticky == Flag(Bits(norm.R, 3, 0) # 0)
      fraction == Bits(norm.R, wF + 5, 5)
      isZero == countType = 0 /\ fraction = 0 /\ ~(round = 1 /\ sticky = 1)
  IN [NAR |-> nar,
      s |-> IF isZero THEN 0 ELSE 1 - BitOf(fraction, wF),
      exponent |-> IF isZero THEN 0 ELSE (exponent + 2 - norm.Count) % 2 ^ WE(c),
      fraction |-> fraction, round |-> round, sticky |-> sticky]

PIFAddSorted(c, larger, smaller) ==
  LET wF == WF(c)
      offset == larger.exponent - smaller.exponent
      shiftSize == IntLog2(wF + 4)
      normalized(sum, countType) ==
        PIFResult(c, LargerOf(larger.NAR, smaller.NAR), larger.exponent, countType,
                  Normalizer(wF + 6, wF + 6, Ones(IntLog2(wF + 6)), countType, sum))
      added(sum) == normalized(sum, BitOf(sum, wF + 5))
  IN added(AddMantissa(c, larger, smaller,
             StickyShifter(wF + 4, wF + 4, wF + 4, smaller.s, Mantissa(c, smaller) * 4,
                           IF offset \div 2 ^ shiftSize = 0 THEN offset ELSE Ones(shiftSize))))

PIFAdd(c, x, y) ==
  IF x.exponent > y.exponent THEN PIFAddSorted(c, x, y) ELSE PIFAddSorted(c, y, x)

PositAdd(c, x, y) == PIF2Posit(c, PIFAdd(c, Posit2PIF(c, x), Posit2PIF(c, y)))
=============================================================================
