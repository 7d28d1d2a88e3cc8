-------------------------------- MODULE IEEE --------------------------------
(***************************************************************************)
(* The converters between IEEE-754 and FloPoCo floating point              *)
(* (src/src/Conversions/InputIEEE.cpp, OutputIEEE.cpp).  An IEEE number    *)
(* has no exception bits: the largest exponent is for infinities and NaNs, *)
(* the smallest one for zeros and subnormals, whereas in FloPoCo's format  *)
(* both are exponents of normal numbers.                                   *)
(***************************************************************************)
EXTENDS FPNumber

IEEENumbers(f) == 0..(2 ^ (f.wE + f.wF + 1) - 1)

\* The ulp to add for rounding a fraction of wFI bits to wFO bits, ties to even.
RoundUlp(wFI, wFO, fraction) ==
  LET resultLSB == BitOf(fraction, wFI - wFO)
      roundBit == BitOf(fraction, wFI - wFO - 1)
      sticky == Flag(wFI - wFO > 1 /\ Bits(fraction, wFI - wFO - 2, 0) # 0)
  IN Flag(roundBit = 1 /\ (sticky = 1 \/ resultLSB = 1))

\* The fraction and the exponent below it, copied, padded or rounded; one more
\* bit than both have tells an overflow of the rounding.
ExpFrac(fi, fo, exponent, fraction) ==
  IF fo.wF >= fi.wF
  THEN Cat(exponent, fo.wF, fraction * 2 ^ (fo.wF - fi.wF))
  ELSE Cat(exponent, fo.wF, Bits(fraction, fi.wF - 1, fi.wF - fo.wF))
         + RoundUlp(fi.wF, fo.wF, fraction)

\* The biased exponents of the input that the output can represent.
UnderflowThreshold(fi, fo) == Bias(fi) - Bias(fo)
OverflowThreshold(fi, fo) == Bias(fi) + 2 ^ (fo.wE - 1)

\* A wrong variant of InputExponent, for a mutation run: the bias is not changed.
InputExponentPlain(fi, fo, expX) == expX % 2 ^ fo.wE

\* The exponent in the output's bias: added to when the output's range is
\* wider, and with its high bits replaced by one inverted bit when it is narrower.
InputExponent(fi, fo, expX) ==
  CASE fi.wE = fo.wE -> expX
    [] fi.wE < fo.wE -> IntAdder(fo.wE, expX, 2 ^ (fo.wE - 1) - 1 - Bias(fi), 0)
    [] OTHER -> Cat(1 - BitOf(expX, fo.wE - 1), fo.wE - 1, Bits(expX, fo.wE - 2, 0))

\* Only with equal exponent sizes is a subnormal converted, if its fraction
\* begins with a 1; its leading bit becomes the implicit one.
InputIEEE(fi, fo, x) ==
  LET expX == Bits(x, fi.wE + fi.wF - 1, fi.wF)
      fracX == Bits(x, fi.wF - 1, 0)
      expZero == expX = 0
      expInfty == expX = Ones(fi.wE)
      reprSubNormal == fi.wE = fo.wE /\ BitOf(fracX, fi.wF - 1) = 1
      sfracX == IF expZero /\ reprSubNormal THEN Bits(fracX, fi.wF - 2, 0) * 2 ELSE fracX
      expfracR0 == ExpFrac(fi, fo, InputExponent(fi, fo, expX), sfracX)
      roundOverflow == BitOf(expfracR0, fo.wE + fo.wF) = 1
      overflow == fi.wE > fo.wE /\ expX > OverflowThreshold(fi, fo)
      underflow == fi.wE > fo.wE /\ expX < UnderflowThreshold(fi, fo)
      nan == expInfty /\ fracX # 0
      infinity == (expInfty /\ fracX = 0)
                    \/ (fi.wE > fo.wE /\ ~nan /\ (overflow \/ roundOverflow))
      zero == (expZero /\ ~reprSubNormal) \/ underflow
      exnR == IF nan THEN NaNExn
              ELSE IF infinity THEN InfExn
              ELSE IF zero THEN ZeroExn
              ELSE NormalExn
  IN Encode(fo, exnR, BitOf(x, fi.wE + fi.wF),
            Bits(expfracR0, fo.wE + fo.wF - 1, fo.wF), Bits(expfracR0, fo.wF - 1, 0))

-----------------------------------------------------------------------------
\* The exponent widened by copies of its inverted high bit.
OutputExponent(fi, fo, expX) ==
  IF fi.wE = fo.wE THEN expX
  ELSE LET high == BitOf(expX, fi.wE - 1)
       IN Cat(Cat(high, fo.wE - fi.wE, Fill(fo.wE - fi.wE, 1 - high)), fi.wE - 1,
              Bits(expX, fi.wE - 2, 0))

\* A number of the smallest exponent becomes a subnormal; its last bit is lost
\* if the fractions have the same size.
OutputFraction(wF, fraction, isSubnormal) ==
  IF isSubnormal THEN Cat(1, wF - 1, fraction \div 2) ELSE fraction

OutputIEEE(fi, fo, onlyPositiveZeroes, x) ==
  LET exnX == Exn(fi, x)
      expX == OutputExponent(fi, fo, Exponent(fi, x))
      \* fractions are widened before they are shifted
      f == IF fo.wF >= fi.wF THEN fo ELSE fi
      fraction == OutputFraction(f.wF, Fraction(fi, x) * 2 ^ (f.wF - fi.wF),
                                 expX = 0 /\ exnX = NormalExn)
      sX == IF exnX = NaNExn \/ (exnX = ZeroExn /\ onlyPositiveZeroes) THEN 0 ELSE Sign(fi, x)
      expfracR == CASE exnX = ZeroExn -> 0
                    [] exnX = NormalExn -> ExpFrac(f, fo, expX, fraction) % 2 ^ (fo.wE + fo.wF)
                    [] OTHER -> Cat(Ones(fo.wE), fo.wF, BitOf(exnX, 0))
  IN Cat(sX, fo.wE + fo.wF, expfracR)

-----------------------------------------------------------------------------
(***************************************************************************)
(* The references, on exact values.                                        *)
(***************************************************************************)
\* emulate() of InputIEEE: the value of the number, rounded to the output's format.
FromIEEE(fi, fo, x) ==
  LET exponent == Bits(x, fi.wE + fi.wF - 1, fi.wF)
      fraction == Bits(x, fi.wF - 1, 0)
      sign == BitOf(x, fi.wE + fi.wF)
  IN IF exponent = Ones(fi.wE) THEN (IF fraction = 0 THEN Infinity(fo, sign) ELSE NaN(fo))
     ELSE IF x % 2 ^ (fi.wE + fi.wF) = 0 THEN Zero(fo, sign)
     ELSE IF exponent = 0 THEN Rounded(fo, sign, fraction, 1, 1 - Bias(fi) - fi.wF)
     ELSE Rounded(fo, sign, 2 ^ fi.wF + fraction, 1, exponent - Bias(fi) - fi.wF)

\* emulate() of OutputIEEE: rounded in FloPoCo's format, and then recoded.
ToIEEE(fi, fo, onlyPositiveZeroes, x) ==
  LET r == IF Exn(fi, x) = NormalExn
           THEN Rounded(fo, Sign(fi, x), Significand(fi, x), 1,
                        Exponent(fi, x) - Bias(fi) - fi.wF)
           ELSE Encode(fo, Exn(fi, x), Sign(fi, x), 0, 0)
  IN IF Exn(fo, r) = NaNExn THEN Cat(Ones(fo.wE), fo.wF, 1)
     ELSE IF Exn(fo, r) = InfExn THEN Cat(Cat(Sign(fo, r), fo.wE, Ones(fo.wE)), fo.wF, 0)
     ELSE IF Exn(fo, r) = ZeroExn THEN Cat(IF onlyPositiveZeroes THEN 0 ELSE Sign(fo, r), fo.wE + fo.wF, 0)
     ELSE IF Exponent(fo, r) = 0 THEN Cat(Cat(Cat(Sign(fo, r), fo.wE, 0), 1, 1), fo.wF - 1, Fraction(fo, r) \div 2)
     ELSE r % 2 ^ (1 + fo.wE + fo.wF)
=============================================================================
