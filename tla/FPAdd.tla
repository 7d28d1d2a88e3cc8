------------------------------- MODULE FPAdd -------------------------------
(***************************************************************************)
(* The two floating-point adders, FPAddSinglePath and FPAddDualPath        *)
(* (src/src/FPAddSub): the value of the output R for values of X and Y.    *)
(* sub is the parameter that makes them subtracters.                       *)
(***************************************************************************)
EXTENDS FPNumber, Shifters

SizeRightShift(f) == IntLog2(f.wF + 3)
Operand(f, sub, y) == IF sub THEN Opposite(f, y) ELSE y

\* The smaller significand, aligned with the larger one: wF+3 bits and a sticky.
Aligned(f, sig, shiftVal) == StickyShifter(f.wF + 1, f.wF + 3, f.wF + 3, 0, sig, shiftVal)

\* The sum, or the difference, of the larger significand, with two guard bits,
\* and the aligned one; the sticky absorbs the carry of the negation.
FracSum(f, sigX, aligned, effSub) ==
  IntAdder(f.wF + 4, sigX * 4, XorAll(f.wF + 4, aligned.R, effSub),
           Flag(effSub = 1 /\ aligned.Sticky = 0))

-----------------------------------------------------------------------------
(***************************************************************************)
(* FPAddSinglePath: the operands are compared with their exception bits,   *)
(* exponents and fractions, so that the difference is never negative, and  *)
(* one normalizer serves all cases.                                        *)
(***************************************************************************)
\* Written for a shift distance that is no wider than an exponent: for
\* smaller exponents the generated VHDL is ill-formed.
SingleShiftVal(f, expDiff) ==
  IF f.wE > SizeRightShift(f) /\ expDiff > f.wF + 2 THEN f.wF + 3
  ELSE Bits(expDiff, SizeRightShift(f) - 1, 0)

\* excRt, and excRt2 once the two bits above the exponent are known.
ExcRt(signX, signY, excX, excY) ==
  IF excX = ZeroExn /\ excY = ZeroExn THEN ZeroExn
  ELSE IF {excX, excY} \in {{NormalExn}, {ZeroExn, NormalExn}} THEN NormalExn
  ELSE IF NaNExn \notin {excX, excY} /\ (excX # excY \/ signX = signY) THEN InfExn
  ELSE NaNExn
ExcRt2(upExc, excRt) ==
  IF excRt # NormalExn THEN excRt
  ELSE IF upExc = 0 THEN NormalExn
  ELSE IF upExc = 1 THEN InfExn
  ELSE ZeroExn

\* cmpAdder: the carry out of X + not Y + 1 on exception, exponent and fraction.
Larger(f, x, y) ==
  LET w == f.wE + f.wF + 2
      magnitude(v) == Cat(Exn(f, v), f.wE + f.wF, Bits(v, f.wE + f.wF - 1, 0))
  IN BitOf(IntAdder(w + 1, magnitude(x), Cat(1, w, Not(w, magnitude(y))), 1), w) = 0

\* The normalized sum rounded, its exponent and its fraction: two bits above
\* the exponent and one below the fraction.
SingleRounded(f, expX, norm) ==
  LET updatedExp == (expX + 1 - norm.Count) % Pow2[f.wE + 2]
      needToRound == Flag(BitOf(norm.R, 3) = 1 /\ (Bits(norm.R, 2, 0) # 0 \/ BitOf(norm.R, 4) = 1))
  IN IntAdder(f.wE + f.wF + 3, Cat(updatedExp, f.wF + 1, Bits(norm.R, f.wF + 3, 3)), 0, needToRound)

\* excR, signR2 and R.
SingleResult(f, excRt, signR, cancelled, rounded) ==
  Encode(f, IF cancelled /\ excRt # NaNExn THEN ZeroExn
            ELSE ExcRt2(Bits(rounded, f.wE + f.wF + 2, f.wE + f.wF + 1), excRt),
         IF cancelled THEN 0 ELSE signR,
         Bits(rounded, f.wE + f.wF, f.wF + 1), Bits(rounded, f.wF, 1))

SinglePath(f, newX, newY) ==
  LET signX == Sign(f, newX)
      effSub == XorBit(signX, Sign(f, newY))
      signR == IF Exn(f, newX) = ZeroExn /\ Exn(f, newY) = ZeroExn /\ effSub = 1 THEN 0 ELSE signX
      normalized(aligned) ==
        Normalizer(f.wF + 5, f.wF + 5, f.wF + 5, 0,
                   Cat(FracSum(f, Significand(f, newX), aligned, effSub), 1, aligned.Sticky))
      result(norm) ==
        SingleResult(f, ExcRt(signX, Sign(f, newY), Exn(f, newX), Exn(f, newY)), signR,
                     norm.Count = Ones(IntLog2(f.wF + 5)) /\ effSub = 1,
                     SingleRounded(f, Exponent(f, newX), norm))
  IN result(normalized(
       Aligned(f, IF Exn(f, newY) = ZeroExn THEN 0 ELSE Significand(f, newY),
               SingleShiftVal(f, (Exponent(f, newX) - Exponent(f, newY)) % Pow2[f.wE]))))

FPAddSinglePath(f, sub, x, y) ==
  IF Larger(f, x, y) THEN SinglePath(f, x, Operand(f, sub, y))
                     ELSE SinglePath(f, Operand(f, sub, y), x)

-----------------------------------------------------------------------------
(***************************************************************************)
(* FPAddDualPath: the operands are compared by exception and exponent      *)
(* only.  A subtraction of exponents that differ by at most one takes the  *)
(* close path, which may cancel any number of bits but rounds one; all the *)
(* rest takes the far path, which normalises by at most one position.      *)
(* (With onlyPositiveIO what a positive operand never needs is left out.)  *)
(***************************************************************************)
CloseDifference(f, sigX, sigY) ==
  LET xMy == (sigX - sigY) % Pow2[f.wF + 3]
      negative == BitOf(xMy, f.wF + 2)
  IN [negative |-> negative,
      frac |-> Bits(IF negative = 1 THEN (sigY - sigX) % Pow2[f.wF + 3] ELSE xMy, f.wF + 1, 0)]
ClosePath(f, newX, newY, expDiff) ==
  LET closed(difference, norm) ==
        [ sign |-> IF difference.frac = 0 THEN 0 ELSE XorBit(Sign(f, newX), difference.negative),
          isZero |-> norm.Count = Ones(IntLog2(f.wF + 2)),
          round |-> Flag(BitOf(norm.R, 0) = 1 /\ BitOf(norm.R, 1) = 1),
          before |-> Cat((Exponent(f, newX) - norm.Count) % Pow2[f.wE + 2], f.wF, Bits(norm.R, f.wF, 1)) ]
      normalized(difference) ==
        closed(difference, Normalizer(f.wF + 2, f.wF + 2, f.wF + 2, 0, difference.frac))
  IN normalized(CloseDifference(f, Significand(f, newX) * 2,
                                Significand(f, newY) * (IF BitOf(expDiff, 0) = 0 THEN 2 ELSE 1)))

\* A wrong variant of FarShiftVal, for a mutation run.
FarShiftTruncated(f, expDiff) == Bits(expDiff, SizeRightShift(f) - 1, 0)

\* A distance that does not fit the shifter shifts everything out.
FarShiftVal(f, expDiff) ==
  IF expDiff \div Pow2[SizeRightShift(f)] # 0 THEN f.wF + 3 ELSE expDiff

FarPath(f, newX, newY, expDiff, effSub) ==
  LET \* below bits stand under the last bit of the fraction
      rounded(sum, below, sticky) ==
        [ sign |-> Sign(f, newX),
          isZero |-> FALSE,
          round |-> Flag(/\ BitOf(sum, below - 1) = 1
                         /\ sticky = 1 \/ Bits(sum, below - 2, 0) # 0 \/ BitOf(sum, below) = 1),
          before |-> Cat((Exponent(f, newX) + below - 2) % Pow2[f.wE + 2], f.wF,
                         Bits(sum, f.wF + below - 1, below)) ]
      normalized(sum, sticky) ==
        rounded(sum, SmallerOf(Bits(sum, f.wF + 3, f.wF + 2), 2) + 1, sticky)
      summed(aligned) == normalized(FracSum(f, Significand(f, newX), aligned, effSub), aligned.Sticky)
  IN summed(Aligned(f, Significand(f, newY), FarShiftVal(f, expDiff)))

\* The result of either path, rounded, unless the exceptions decide.
DualResult(f, newX, newY, path, rounded) ==
  LET flow == Bits(rounded, f.wE + f.wF + 1, f.wE + f.wF)
      exns == <<Exn(f, newX), Exn(f, newY)>>
      normal == exns = <<NormalExn, NormalExn>>
      exn == CASE normal -> IF flow > 1 \/ path.isZero THEN ZeroExn ELSE NormalExn + flow
               [] exns = <<InfExn, InfExn>> ->
                    IF Sign(f, newX) = Sign(f, newY) THEN InfExn ELSE NaNExn
               [] OTHER -> exns[1]
      sign == CASE normal -> path.sign
                [] exns = <<ZeroExn, ZeroExn>> -> SmallerOf(Sign(f, newX), Sign(f, newY))
                [] OTHER -> Sign(f, newX)
  IN Encode(f, exn, sign, 0, 0) + Bits(IF normal THEN rounded ELSE newX, f.wE + f.wF - 1, 0)

DualPath(f, newX, newY) ==
  LET effSub == XorBit(Sign(f, newX), Sign(f, newY))
      result(path) ==
        DualResult(f, newX, newY, path, IntAdder(f.wE + f.wF + 2, path.before, 0, path.round))
      chosen(expDiff) == IF effSub = 1 /\ Bits(expDiff, f.wE - 1, 1) = 0
                         THEN ClosePath(f, newX, newY, expDiff)
                         ELSE FarPath(f, newX, newY, expDiff, effSub)
  IN result(chosen((Exponent(f, newX) - Exponent(f, newY)) % Pow2[f.wE]))

FPAddDualPath(f, sub, x, y) ==
  IF \/ Exn(f, x) = Exn(f, y) /\ Exponent(f, x) < Exponent(f, y)
     \/ Exn(f, x) < Exn(f, y)
  THEN DualPath(f, Operand(f, sub, y), x)
  ELSE DualPath(f, x, Operand(f, sub, y))
=============================================================================
