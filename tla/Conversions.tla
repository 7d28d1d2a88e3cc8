----------------------------- MODULE Conversions -----------------------------
(***************************************************************************)
(* Conversions between number formats: floating-point numbers to integers  *)
(* (src/src/Conversions/FP2Fix.cpp, truncated), and posits to floating     *)
(* point (Posit2FP.cpp), each with what its emulate() computes (of FP2Fix: *)
(* before emulate() brings a value too large for the output below zero).   *)
(*                                                                         *)
(* The parameters of an FP2Fix are a record [f, MSB, LSB, signed]: the     *)
(* format of the input, and the weights and the sign of the output.        *)
(***************************************************************************)
EXTENDS IEEEArithmetic, Posit

FixSize(c) == c.MSB - c.LSB + 1
ShiftedBySize(c) == IntLog2(FixSize(c) + 2)

\* The shift distance has fewer bits than the exponent, and the bits that the
\* output takes are bits that the shifter has.
FP2FixIsWellFormed(c) ==
  /\ c.LSB <= c.MSB
  /\ c.LSB \in (-c.f.wF)..1
  /\ ShiftedBySize(c) < c.f.wE

\* The bits of the shifted significand from the weight LSB, with their sign.
Fixed(c, sign, fA1) ==
  LET fA2 == Bits(fA1, FixSize(c) + c.f.wF + c.LSB, c.f.wF + 1 + c.LSB)
  IN IF c.signed /\ sign = 1 THEN (-fA2) % 2 ^ FixSize(c) ELSE fA2

\* The significand is shifted by one more than the exponent, or not at all if
\* that is negative; a number too large gives the extreme value of its sign.
FP2Fix(c, x) ==
  LET f == c.f
      wFO == FixSize(c)
      sign == Sign(f, x)
      eA1 == (Exponent(f, x) - (Bias(f) - 1)) % 2 ^ f.wE
      shiftedby == IF BitOf(eA1, f.wE - 1) = 0 THEN eA1 % 2 ^ ShiftedBySize(c) ELSE 0
      fA1 == LeftShifter(f.wF + 1, wFO + 2, f.wF + wFO + 3, 0, Significand(f, x), shiftedby)
      fA4 == Fixed(c, sign, fA1)
      overFl0 == Exponent(f, x) > Bias(f) + c.MSB \/ BitOf(Exn(f, x), 1) = 1
      overFl1 == IF c.signed THEN BitOf(fA4, wFO - 1) # sign /\ fA4 # 0
                 ELSE BitOf(fA1, wFO + f.wF + 1 + c.LSB) = 1
  IN IF overFl0 \/ overFl1 THEN Cat(sign, wFO - 1, Fill(wFO - 1, 1 - sign)) ELSE fA4

\* emulate() of FP2Fix: the normal number in units of the weight LSB, rounded towards zero.
Truncated(c, x) ==
  LET e == Exponent(c.f, x) - Bias(c.f) - c.f.wF - c.LSB
      magnitude == IF e >= 0 THEN Significand(c.f, x) * 2 ^ e ELSE Significand(c.f, x) \div 2 ^ (-e)
  IN IF Sign(c.f, x) = 1 THEN -magnitude ELSE magnitude

-----------------------------------------------------------------------------
\* computeFloatWidths(): the IEEE format that holds all posits but NaR.
FloatFormat(c) == [wE |-> IntLog2(c.width - 1) + 1 + c.wES, wF |-> WF(c)]

\* The levels of the normalizer are not wider than its input.
Posit2FPIsWellFormed(c) == /\ WF(c) > 0
                           /\ 2 ^ (IntLog2(c.width - 1) - 1) <= c.width - 2

\* The run of the regime is counted and shifted out; the exponent is the
\* count, or its complement for a negative regime, and the bits behind.
Posit2FP(c, v) ==
  LET w == c.width
      f == FloatFormat(c)
      sign == BitOf(v, w - 1)
      encoding == Bits(v, w - 2, 0)
      absoluteEncoding == IF sign = 1 THEN (Not(w - 1, encoding) + 1) % NaR(c) ELSE encoding
      exponentSign == BitOf(absoluteEncoding, w - 2)
      norm == Normalizer(w - 2, w - 2, w - 1, exponentSign, Bits(absoluteEncoding, w - 3, 0))
      wCount == IntLog2(w - 1)
      rangeExp == Cat(1 - exponentSign, wCount, XorAll(wCount, norm.Count, 1 - exponentSign))
      exponent == (Cat(rangeExp, c.wES, Bits(norm.R, f.wF + c.wES - 1, f.wF)) + Bias(f)) % 2 ^ f.wE
  IN IF v = 0 THEN 0 ELSE Cat(Cat(sign, f.wE, exponent), f.wF, Bits(norm.R, f.wF - 1, 0))

\* emulate() of Posit2FP, for a posit other than NaR.
FloatOfPosit(c, v) ==
  LET value == PositValue[c][v]
  IN IF value = 0 THEN 0 ELSE IEEERounded(FloatFormat(c), Flag(value < 0), AbsOf(value), MinExp(c))
=============================================================================
