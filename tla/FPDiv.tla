------------------------------- MODULE FPDiv -------------------------------
(***************************************************************************)
(* The floating-point divider (src/src/FPDivSqrt/FPDiv.cpp): a digit       *)
(* recurrence that the generated hardware unrolls.  A step reads a few     *)
(* bits of the partial remainder and of the divisor, finds a quotient      *)
(* digit in a table, subtracts that many times the divisor, and multiplies *)
(* by the radix.  A behaviour is the hardware seen through one pair of     *)
(* operands, one step for each row of it.                                  *)
(***************************************************************************)
EXTENDS FPNumber

CONSTANTS
  DivFormats,   \* formats [wE, wF] of the dividers
  DivRadix,     \* values of the parameter srt
  DivSample(_)  \* the operands that a divider is tried with

\* The parameters that srt stands for: digits in -alpha..alpha, the leading
\* bits of the remainder and those of the divisor, after dMsb known ones, that
\* select one, the extra bits and the known zeros of the quotient.
SRT == [srt \in {42, 43, 87} |->
  CASE srt = 42 -> [radix |-> 4, alpha |-> 2, nbBitsW |-> 6, nbBitsD |-> 3, dMsb |-> 1, extraBit |-> 7, qMsbToDiscard |-> 1]
    [] srt = 43 -> [radix |-> 4, alpha |-> 3, nbBitsW |-> 4, nbBitsD |-> 1, dMsb |-> 1, extraBit |-> 6, qMsbToDiscard |-> 0]
    [] srt = 87 -> [radix |-> 8, alpha |-> 7, nbBitsW |-> 5, nbBitsD |-> 2, dMsb |-> 2, extraBit |-> 9, qMsbToDiscard |-> 1]]

\* The table of a divider is indexed by bits of the fraction of the divisor.
ASSUME FPDivAssumption ==
  /\ DivRadix \subseteq DOMAIN SRT
  /\ \A f \in DivFormats : f.wE \in Nat \ {0, 1} /\ f.wF \in Nat \ {0}
  /\ \A f \in DivFormats, s \in DivRadix : f.wF >= SRT[s].nbBitsD
  /\ \A f \in DivFormats : DivSample(f) \subseteq CanonicalNumbers(f)

VARIABLES
  divider,     \* [srt, f]: the generated operator
  operands,    \* <<X, Y>>
  row,         \* the row reached, from nDigit-1 down to 0
  remainder,   \* the wire betaw_i (w_i in radix 8), before its row
  quotient,    \* the digits so far, as qP - qM weighs them
  divOut       \* the output R, -1 before the last row

divVars == <<divider, operands, row, remainder, quotient, divOut>>

param == SRT[divider.srt]
divFormat == divider.f
DivX == operands[1]
DivY == operands[2]

-----------------------------------------------------------------------------
(***************************************************************************)
(* selFunctionTable().  w and d stand for every remainder, radix * w / D,  *)
(* and every divisor that have these leading bits; a digit fits when the   *)
(* next remainder stays within rho = alpha / (radix - 1) of it for all of  *)
(* them.  The extreme digits also fill the entries beyond the bounds.      *)
(***************************************************************************)
DLow(c, d) == (Pow2[c.dMsb] - 1) * Pow2[c.nbBitsD] + d
DHigh(c, d) == DLow(c, d) + 1

Fits(c, w, d, q) ==
  LET unit == 2 * c.radix * (c.radix - 1) * Pow2[c.nbBitsD + c.dMsb]
      uSlope == q * (c.radix - 1) + c.alpha
      lSlope == q * (c.radix - 1) - c.alpha
      belowUpper == (w + 1) * unit <= uSlope * (IF uSlope >= 0 THEN DLow(c, d) ELSE DHigh(c, d)) * Pow2[c.nbBitsW]
      aboveLower == w * unit >= lSlope * (IF lSlope >= 0 THEN DHigh(c, d) ELSE DLow(c, d)) * Pow2[c.nbBitsW]
  IN /\ aboveLower \/ q = -c.alpha
     /\ belowUpper \/ q = c.alpha
     /\ aboveLower \/ belowUpper

\* A wrong variant of SelFunction, for a mutation run: the digit is chosen for
\* the smallest divisor of the interval only.
SelFunctionNarrow == [srt \in DOMAIN SRT |->
  [sel \in 0..Ones(SRT[srt].nbBitsW + SRT[srt].nbBitsD) |->
    LET c == SRT[srt]
        d == Bits(sel, c.nbBitsD - 1, 0)
        w == Signed(c.nbBitsW, sel \div Pow2[c.nbBitsD])
        scaled == 2 * c.radix * w * Pow2[c.nbBitsD + c.dMsb]
    IN LargerOf(-c.alpha, SmallerOf(c.alpha, scaled \div (DLow(c, d) * Pow2[c.nbBitsW])))]]

\* The digit is the smallest that fits.
SelFunction == [srt \in DOMAIN SRT |->
  [sel \in 0..Ones(SRT[srt].nbBitsW + SRT[srt].nbBitsD) |->
    LET c == SRT[srt]
        d == Bits(sel, c.nbBitsD - 1, 0)
        w == Signed(c.nbBitsW, sel \div Pow2[c.nbBitsD])
        fitting == {q \in -c.alpha..c.alpha : Fits(c, w, d, q)}
    IN CHOOSE q \in fitting : \A other \in fitting : q <= other]]

-----------------------------------------------------------------------------
(***************************************************************************)
(* The recurrence.  In radix 8 both operands are first multiplied by 6/4,  *)
(* 5/4 or 1, so that the divisor has two known leading bits.               *)
(***************************************************************************)
DigitBits == IntLog2(param.radix - 1)
nDigit == (divFormat.wF + param.extraBit) \div DigitBits

Prescaling == IF param.radix = 4 THEN 1
              ELSE IF Bits(DivY, divFormat.wF - 1, divFormat.wF - 2) = 0 THEN 6
              ELSE IF Bits(DivY, divFormat.wF - 1, divFormat.wF - 2) = 1 THEN 5
              ELSE 4
Divisor == Prescaling * Significand(divFormat, DivY)
DSize == divFormat.wF + 1 + (IF param.radix = 8 THEN 2 ELSE 0)

\* The size of the subtracter of a row.
SubSize == DSize + 3

\* X, one bit further left when the digits reach radix - 1.
Dividend == Prescaling * Significand(divFormat, DivX) * (IF param.alpha = 3 THEN 2 ELSE 1)

DivIdle == divider = <<>>
DivInit ==
  /\ divider = <<>> /\ operands = <<>>
  /\ row = 0 /\ remainder = 0 /\ quotient = 0 /\ divOut = -1

\* A division enters the operator.
Divide(srt, f, x, y) ==
  /\ DivIdle
  /\ divider' = [srt |-> srt, f |-> f]
  /\ operands' = <<x, y>>
  /\ row' = nDigit' - 1
  /\ remainder' = Dividend'
  /\ UNCHANGED <<quotient, divOut>>

Selector == Cat(Bits(remainder, SubSize - 1, SubSize - param.nbBitsW), param.nbBitsD,
                Bits(Divisor, DSize - param.dMsb - 1, DSize - param.dMsb - param.nbBitsD))

\* One row: the difference is kept modulo the size of the subtracter, and its
\* two leading bits are dropped by the multiplication.
SRTRow ==
  /\ ~DivIdle /\ row > 0
  /\ LET q == SelFunction[divider.srt][Selector]
     IN /\ remainder' = (4 * ((param.radix \div 4) * remainder - q * Divisor)) % Pow2[SubSize]
        /\ quotient' = quotient * param.radix + q
  /\ row' = row - 1
  /\ UNCHANGED <<divider, operands, divOut>>

(***************************************************************************)
(* The end: the sign of the last remainder corrects the quotient, with one *)
(* bit in radix 4, with a last digit of 2, -2 or 0 in radix 8; then the    *)
(* significand is extracted and rounded, and the exception bits decided.   *)
(***************************************************************************)
QSize == DigitBits * (IF param.radix = 4 THEN nDigit - 1 ELSE nDigit)

Corrected ==
  LET negative == BitOf(remainder, SubSize - 1)
  IN IF param.radix = 4 THEN quotient - negative
     ELSE IF remainder = 0 THEN 8 * quotient
     ELSE 8 * quotient + 2 - 4 * negative

ExnR0(excX, excY) ==
  CASE <<excX, excY>> = <<NormalExn, NormalExn>> -> NormalExn
    [] <<excX, excY>> \in {<<ZeroExn, NormalExn>>, <<ZeroExn, InfExn>>, <<NormalExn, InfExn>>} -> ZeroExn
    [] <<excX, excY>> \in {<<NormalExn, ZeroExn>>, <<InfExn, ZeroExn>>, <<InfExn, NormalExn>>} -> InfExn
    [] OTHER -> NaNExn

DivResult ==
  LET f == divFormat
      lsbSize == QSize - param.qMsbToDiscard - (f.wF + 3)
      mR == Bits(Corrected % Pow2[QSize], QSize - 1 - param.qMsbToDiscard, lsbSize)
      norm == BitOf(mR, f.wF + 2)
      fRnorm == Bits(mR, f.wF + norm, norm)
      expR1 == (Exponent(f, DivX) - Exponent(f, DivY) + Cat(Ones(f.wE - 2), 1, norm)) % Pow2[f.wE + 2]
      expfracR == (Cat(expR1, f.wF, Bits(fRnorm, f.wF, 1)) + BitOf(fRnorm, 0)) % Pow2[f.wE + f.wF + 2]
      exnR == IF BitOf(expfracR, f.wE + f.wF + 1) = 1 THEN ZeroExn
              ELSE IF BitOf(expfracR, f.wE + f.wF) = 1 THEN InfExn
              ELSE NormalExn
      exnR0 == ExnR0(Exn(f, DivX), Exn(f, DivY))
  IN Encode(f, IF exnR0 = NormalExn THEN exnR ELSE exnR0, XorBit(Sign(f, DivX), Sign(f, DivY)), 0, 0)
       + Bits(expfracR, f.wE + f.wF - 1, 0)

LastRow ==
  /\ ~DivIdle /\ row = 0 /\ divOut = -1
  /\ divOut' = DivResult
  /\ UNCHANGED <<divider, operands, row, remainder, quotient>>

-----------------------------------------------------------------------------
(***************************************************************************)
(* What the recurrence promises.                                           *)
(***************************************************************************)
RowsDone == nDigit - 1 - row

\* However many rows, and although each one drops leading bits, the remainder
\* wire holds exactly what is left of the dividend.
RemainderIsExact ==
  ~DivIdle => Signed(SubSize, remainder) = Pow2[DigitBits * RowsDone] * Dividend - 4 * quotient * Divisor

\* The digit that a few truncated bits select keeps the next remainder within
\* the bounds on which the next selection rests.
RemainderIsBounded ==
  ~DivIdle => (param.radix - 1) * AbsOf(Signed(SubSize, remainder)) <= 4 * param.alpha * Divisor

\* The quotient, truncated and with no sticky bit, rounds to the nearest number.
DivisionIsCorrect ==
  divOut # -1 => FPEqual(divFormat, divOut, Quotient(divFormat, DivX, DivY))
=============================================================================
