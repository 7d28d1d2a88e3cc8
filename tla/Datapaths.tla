----------------------------- MODULE Datapaths -----------------------------
(***************************************************************************)
(* The combinational operators, one use at a time: an operator is          *)
(* generated for some parameters, and its inputs take values one after the *)
(* other.  The properties compare its output, a function of the inputs,    *)
(* with what emulate() computes, or with what the users of the operator    *)
(* rely on.                                                                *)
(***************************************************************************)
EXTENDS FPAdd, FPMult, Conversions, Sequences

CONSTANTS
  ShifterSizes,     \* records [wX, maxShift, wR]
  NormalizerSizes,  \* records [wX, wR]
  LZOCWidths,
  LZOC3Sizes,       \* records [wX, lut]: widths of the input and of a look-up table
  AdderFormats,     \* formats [wE, wF]
  MultFormats,
  IEEEConversions,  \* records [from, to]: formats [wE, wF]
  FixConversions,   \* parameters of FP2Fix
  IEEEAddFormats,   \* formats [wE, wF]
  FMAFormats,       \* formats [wE, wF]
  FMASample(_),     \* the two factors that a fused multiply-add is tried with
  PositSample(_)    \* the first operands that a posit adder is tried with

\* The parameters for which the generated operators are well-formed: a shift
\* distance that fits the exponent (FPAddSinglePath), a rounding not
\* implemented for widened exponents (InputIEEE), signals as wide as the shift
\* ports they are connected to (IEEEAdd, IEEEFMA), a regime that the count of
\* Posit2PIF can hold, and a table of three bits (LZOC).
ASSUME DatapathsAssumption ==
  /\ \A c \in ShifterSizes : c.wX \in Nat \ {0} /\ c.maxShift \in Nat \ {0}
                             /\ c.wR \in c.wX..(c.wX + c.maxShift)
  /\ \A c \in NormalizerSizes : c.wX \in Nat /\ c.wR \in 2..c.wX
  /\ \A w \in LZOCWidths : w \in Nat /\ w >= 4
  /\ \A c \in LZOC3Sizes : c.wX \in Nat \ {0} /\ c.lut \in Nat /\ c.lut >= 4
  /\ \A c \in FixConversions : FP2FixIsWellFormed(c)
  /\ \A f \in AdderFormats : f.wE \in Nat \ {0} /\ f.wF \in Nat \ {0} /\ f.wE >= SizeRightShift(f)
  /\ \A f \in MultFormats : f.wE \in Nat \ {0} /\ f.wF \in Nat \ {0}
  /\ \A c \in IEEEConversions : c.from.wE < c.to.wE => c.from.wF <= c.to.wF
  /\ \A f \in IEEEAddFormats : IntLog2(f.wF + 2) = IntLog2(f.wF + 3) /\ IntLog2(f.wF + 3) <= f.wE
  /\ \A f \in FMAFormats : LET n == 3 * Precision(f) + 3
                            IN IntLog2(n) = IntLog2(n + 1) /\ IntLog2(n) <= f.wE + 1
  /\ \A f \in FMAFormats : FMASample(f) \subseteq IEEENumbers(f)
  /\ \A c \in PositFormats : c.width - 2 <= Ones(RegimeCount(c)) /\ WF(c) > 0
  /\ \A c \in FloatPosits : Posit2FPIsWellFormed(c)
  /\ \A c \in PositFormats : PositSample(c) \subseteq Posits(c)

VARIABLES
  unit,    \* the operator generated: its name op and its parameters
  inputs   \* the values of its inputs, as far as they are chosen

unitVars == <<unit, inputs>>

\* The operators and their parameters.
ShifterUnits ==
  [op : {"ShiftRight", "ShiftLeft"}, c : ShifterSizes, pad : {0, 1}]
    \cup [op : {"ShiftSticky"}, c : {c \in ShifterSizes : c.wR >= Pow2[ShiftWidth(c.maxShift) - 1]}]
CounterUnits ==
  [op : {"Normalizer"}, c : NormalizerSizes, counted : {0, 1}]
    \cup [op : {"LZOC"}, c : [wX : LZOCWidths], counted : {0, 1}]
    \cup [op : {"LZOC3"}, c : LZOC3Sizes, counted : {0, 1}]
FPUnits ==
  [op : {"FPAddSinglePath", "FPAddDualPath"}, c : AdderFormats, sub : BOOLEAN]
    \cup [op : {"FPMult"}, c : MultFormats]
IEEEUnits ==
  [op : {"InputIEEE"}, c : IEEEConversions]
    \cup [op : {"OutputIEEE"}, c : {c \in IEEEConversions : c.from.wE <= c.to.wE},
         onlyPositiveZeroes : BOOLEAN]
    \cup [op : {"FP2Fix"}, c : FixConversions]
    \cup [op : {"IEEEAdd"}, c : IEEEAddFormats]
    \cup [op : {"IEEEFMA"}, c : FMAFormats, negateAB : {0, 1}, negateC : {0, 1}]
PositUnits ==
  [op : {"Posit2Posit", "PositAdd"}, c : PositFormats]
    \cup [op : {"Posit2FP"}, c : FloatPosits]

\* The values of the first input, and of the second if there is one.  With a
\* sticky bit no shift goes beyond the output.
FirstInputs(u) ==
  CASE u.op \in {"ShiftRight", "ShiftLeft", "ShiftSticky", "Normalizer", "LZOC", "LZOC3"} -> 0..Ones(u.c.wX)
    [] u.op \in {"FPAddSinglePath", "FPAddDualPath", "FPMult"} -> CanonicalNumbers(u.c)
    [] u.op = "InputIEEE" -> IEEENumbers(u.c.from)
    [] u.op = "IEEEAdd" -> IEEENumbers(u.c)
    [] u.op = "IEEEFMA" -> FMASample(u.c)
    [] u.op = "OutputIEEE" -> CanonicalNumbers(u.c.from)
    [] u.op = "FP2Fix" -> {v \in CanonicalNumbers(u.c.f) : u.c.signed \/ Sign(u.c.f, v) = 0}
    [] u.op = "PositAdd" -> PositSample(u.c)
    [] OTHER -> Posits(u.c)

Operands(op) ==
  CASE op = "IEEEFMA" -> 3
    [] op \in {"ShiftRight", "ShiftLeft", "ShiftSticky", "FPAddSinglePath", "FPAddDualPath",
               "FPMult", "IEEEAdd", "PositAdd"} -> 2
    [] OTHER -> 1
SecondInputs(u) ==
  CASE u.op \in {"ShiftRight", "ShiftLeft"} -> 0..Ones(ShiftWidth(u.c.maxShift))
    [] u.op = "ShiftSticky" -> 0..SmallerOf(Ones(ShiftWidth(u.c.maxShift)), u.c.wR)
    [] u.op = "IEEEAdd" -> IEEENumbers(u.c)
    [] u.op = "IEEEFMA" -> FMASample(u.c)
    [] u.op = "PositAdd" -> Posits(u.c)
    [] OTHER -> CanonicalNumbers(u.c)

UnitInit == unit = [op |-> "none"] /\ inputs = <<>>

\* An operator is generated, and then its test bench gives it inputs.
Generate(units) ==
  /\ unit.op = "none"
  /\ unit' \in units
  /\ UNCHANGED inputs

SetFirstInput ==
  /\ unit.op # "none" /\ inputs = <<>>
  /\ \E x \in FirstInputs(unit) : inputs' = <<x>>
  /\ UNCHANGED unit
SetSecondInput ==
  /\ Operands(unit.op) >= 2 /\ Len(inputs) = 1
  /\ \E y \in SecondInputs(unit) : inputs' = Append(inputs, y)
  /\ UNCHANGED unit
SetThirdInput ==
  /\ Operands(unit.op) = 3 /\ Len(inputs) = 2
  /\ \E z \in IEEENumbers(unit.c) : inputs' = Append(inputs, z)
  /\ UNCHANGED unit

UnitNext ==
  \/ Generate(ShifterUnits)
  \/ Generate(CounterUnits)
  \/ Generate(FPUnits)
  \/ Generate(IEEEUnits)
  \/ Generate(PositUnits)
  \/ SetFirstInput
  \/ SetSecondInput
  \/ SetThirdInput

\* The operator under test has all its inputs.
Tested(op) == unit.op = op /\ Len(inputs) = Operands(op)

-----------------------------------------------------------------------------
X == inputs[1]
Y == inputs[2]

\* A shifter multiplies or divides by a power of two, whatever way its levels
\* cut and pad the data: to the right the bits that fall out of the output are
\* lost, or gathered by the sticky bit, to the left those above it.
ShiftIsExact ==
  LET c == unit.c
      \* the input at the left end of the output
      widened(x) == x * Pow2[c.wR - c.wX]
  IN /\ Tested("ShiftRight") =>
          RightShifter(c.wX, c.maxShift, c.wR, unit.pad, X, Y)
            = (widened(Extended(c.wX, unit.pad, X)) \div Pow2[Y]) % Pow2[c.wR]
     /\ Tested("ShiftLeft") =>
          LeftShifter(c.wX, c.maxShift, c.wR, unit.pad, X, Y)
            = (Extended(c.wX, unit.pad, X) * Pow2[Y]) % Pow2[c.wR]
     /\ Tested("ShiftSticky") =>
          StickyShifter(c.wX, c.maxShift, c.wR, 0, X, Y)
            = [R |-> widened(X) \div Pow2[Y], Sticky |-> Flag(widened(X) % Pow2[Y] # 0)]

\* The count of a normalizer, of an LZOC, of an LZOC3, is the number of leading bits, the
\* normalized output holds the bits behind them, and what does not fit goes to
\* the sticky bit.  Of an input of zeros only, of which it counts zeros, the
\* output is zero too; its count is not what emulate() expects, the width of the
\* input, but all ones, the value by which the adders recognise a cancellation
\* (DualPathIsCorrect, SinglePathIsCorrect), and nothing is claimed of it here.
CountIsExact ==
  LET c == unit.c
      most == Ones(IntLog2(c.wX))
      count == LeadingCount(c.wX, unit.counted, X, most)
      shifted == (X * Pow2[count]) % Pow2[c.wX]
      rest == Pow2[c.wX - c.wR]
      out == Normalizer(c.wX, c.wR, c.wX, unit.counted, X)
  IN /\ Tested("LZOC3") => LZOC3(c.wX, c.lut, unit.counted, X) = LeadingCount(c.wX, unit.counted, X, c.wX)
     /\ Tested("LZOC") => LZOC(c.wX, unit.counted, X) = LeadingCount(c.wX, unit.counted, X, c.wX)
     /\ Tested("Normalizer") =>
          IF X = 0 /\ unit.counted = 0
          THEN out.R = 0
          ELSE out = [R |-> shifted \div rest, Count |-> count, Sticky |-> Flag(shifted % rest # 0)]

ExactSum == Sum(unit.c, X, Operand(unit.c, unit.sub, Y))

\* Both paths of the dual-path adder give the correctly rounded sum, or
\* difference, cancellations, overflows and exceptional operands included.
DualPathIsCorrect ==
  Tested("FPAddDualPath") => FPEqual(unit.c, FPAddDualPath(unit.c, unit.sub, X, Y), ExactSum)

InfinityAndNormal == {Exn(unit.c, X), Exn(unit.c, Y)} = {InfExn, NormalExn}

\* So does the single-path adder, unless exactly one operand is infinite and the
\* other a normal number: see SinglePathHandlesInfinity.
SinglePathIsCorrect ==
  Tested("FPAddSinglePath") =>
    InfinityAndNormal \/ FPEqual(unit.c, FPAddSinglePath(unit.c, unit.sub, X, Y), ExactSum)

\* What emulate() expects of the single-path adder for these operands too.
SinglePathHandlesInfinity ==
  Tested("FPAddSinglePath") =>
    (InfinityAndNormal => FPEqual(unit.c, FPAddSinglePath(unit.c, unit.sub, X, Y), ExactSum))

\* The normalized and rounded product is the nearest number, ties to even.
ProductIsCorrect ==
  Tested("FPMult") =>
    \A sigProd \in SigProds(unit.c, TRUE, X, Y) :
      FPEqual(unit.c, FPMult(unit.c, TRUE, sigProd, X, Y), Product(unit.c, X, Y))

-----------------------------------------------------------------------------
ExponentField(f, v) == Bits(v, f.wE + f.wF - 1, f.wF)

\* A subnormal that the output has no bits for.
Flushed(c, x) ==
  /\ ExponentField(c.from, x) = 0
  /\ c.from.wE # c.to.wE \/ BitOf(x, c.from.wF - 1) = 0

\* A number too small for the output whose fraction is rounded up to a power of two.
RoundsUpBelowRange(c, x) ==
  /\ ExponentField(c.from, x) < UnderflowThreshold(c.from, c.to)
  /\ c.from.wF > c.to.wF
  /\ Bits(x, c.from.wF - 1, c.from.wF - c.to.wF - 1) = Ones(c.to.wF + 1)

\* An IEEE number is rounded to FloPoCo's format, or flushed to zero, over all
\* three relations of the exponent sizes; those that RoundsUpBelowRange are
\* the subject of TinyNumbersStaySmall.
InputIEEEIsCorrect ==
  LET c == unit.c
      out == InputIEEE(c.from, c.to, X)
  IN Tested("InputIEEE") /\ ~RoundsUpBelowRange(c, X) =>
       IF Flushed(c, X) THEN Exn(c.to, out) = ZeroExn
       ELSE FPEqual(c.to, out, FromIEEE(c.from, c.to, X))

\* A number below the range of the output is never converted to infinity.
TinyNumbersStaySmall ==
  LET c == unit.c
  IN Tested("InputIEEE") /\ RoundsUpBelowRange(c, X) =>
       Exn(c.to, InputIEEE(c.from, c.to, X)) \in {ZeroExn, NormalExn}

\* The output is IEEE's encoding of the rounded number, also when its exponent is
\* widened, and its smallest exponent becomes a subnormal.  (When the fraction is
\* rounded, numbers of FloPoCo's two additional exponents are left out.)
OutputIEEEIsCorrect ==
  LET c == unit.c
  IN Tested("OutputIEEE") =>
       \/ /\ c.from.wF > c.to.wF /\ c.from.wE = c.to.wE
          /\ Exponent(c.from, X) \in {0, Ones(c.from.wE)}
       \/ OutputIEEE(c.from, c.to, unit.onlyPositiveZeroes, X)
            = ToIEEE(c.from, c.to, unit.onlyPositiveZeroes, X)

\* An IEEE number read and written again is itself, unless it was flushed or is a NaN.
IEEERoundTrip ==
  LET c == unit.c
      read == InputIEEE(c.from, c.to, X)
  IN Tested("InputIEEE") /\ c.from = c.to =>
       \/ Flushed(c, X)
       \/ Exn(c.to, read) = NaNExn
       \/ OutputIEEE(c.to, c.from, FALSE, read) = X

\* Numbers below 1/2, zero among them, when the output has bits behind the point:
\* FP2Fix doesn't shift them at all.
NotShifted(c, x) == c.LSB < 0 /\ (Exn(c.f, x) = ZeroExn \/ Exponent(c.f, x) < Bias(c.f) - 1)
\* A zero is taken for the normal number that its other bits are.
ZeroOverlooked(c, x) == Exn(c.f, x) = ZeroExn /\ Exponent(c.f, x) # 0

FixValue(c, x) == IF Exn(c.f, x) = ZeroExn THEN 0 ELSE Truncated(c, x)
\* Numbers whose integer part the output can hold: those of the random tests, among others.
FitsOutput(c, x) ==
  LET most == 2 ^ (FixSize(c) - 1)
  IN /\ Exn(c.f, x) < InfExn
     /\ IF c.signed THEN FixValue(c, x) \in (-most)..(most - 1) ELSE FixValue(c, x) < 2 * most

\* FP2Fix gives the truncated value, as its emulate() does, of numbers that fit its output.
FP2FixIsCorrect ==
  LET c == unit.c
  IN Tested("FP2Fix") /\ ~NotShifted(c, X) /\ ~ZeroOverlooked(c, X) =>
       (FitsOutput(c, X) => FP2Fix(c, X) = FixValue(c, X) % 2 ^ FixSize(c))

\* No number that does not fit is taken for one that does: whichever of the two
\* tests of the netlist recognises it, its last multiplexer (FP2Fix.cpp:182) gives the
\* extreme value of the sign.  emulate() does not expect that: of a large positive
\* number it subtracts 2^n (FP2Fix.cpp:218-220).  Unsigned outputs are not claimed.
FP2FixSaturates ==
  LET c == unit.c
      most == 2 ^ (FixSize(c) - 1)
  IN Tested("FP2Fix") /\ c.signed /\ ~NotShifted(c, X) /\ ~ZeroOverlooked(c, X) =>
       (~FitsOutput(c, X) => FP2Fix(c, X) = IF Sign(c.f, X) = 1 THEN most ELSE most - 1)

-----------------------------------------------------------------------------
\* The IEEE adder gives the correctly rounded sum of all numbers, with
\* subnormals on either side, signed zeros, infinities and NaNs.
IEEEAddIsCorrect ==
  Tested("IEEEAdd") => IEEEEqual(unit.c, IEEEAdd(unit.c, X, Y), IEEESum(unit.c, X, Y))

Z == inputs[3]
FMARuns(negateC) == [hardware |-> IEEEFMA(unit.c, unit.negateAB, negateC, X, Y, Z),
                     emulated |-> FusedMultiplyAdd(unit.c, unit.negateAB, negateC, X, Y, Z)]
FMAAgrees == LET r == FMARuns(unit.negateC) IN IEEEEqual(unit.c, r.hardware, r.emulated)

\* The five kinds of operands for which the fused multiply-add is wrong, or may be:
\* an infinity times zero; two infinities of which the parameters negate one;
\* an infinity and a finite number of the opposite sign; a product half way
\* between two numbers, with an addend of the opposite sign that is so small
\* that it is shifted out; and a normal addend from which a much smaller
\* product is subtracted, so that the sum is subnormal.
InvalidProduct ==
  (IsInf(unit.c, X) /\ IsZero(unit.c, Y)) \/ (IsZero(unit.c, X) /\ IsInf(unit.c, Y))
ProductIsInf == IsInf(unit.c, X) \/ IsInf(unit.c, Y)
SignsDiffer == (IEEESign(unit.c, X) + IEEESign(unit.c, Y) + unit.negateAB
                  + IEEESign(unit.c, Z) + unit.negateC) % 2 = 1
NegatedInfinity == ProductIsInf /\ IsInf(unit.c, Z) /\ unit.negateAB # unit.negateC
OppositeInfinity == SignsDiffer /\ ProductIsInf # IsInf(unit.c, Z)
LostAddend ==
  LET product == AbsOf(IEEEUlps(unit.c, X) * IEEEUlps(unit.c, Y))
      addend == AbsOf(IEEEUlps(unit.c, Z)) * 2 ^ (-MinQuantum(unit.c))
  IN /\ SignsDiffer
     /\ product > addend * 2 ^ (2 * Precision(unit.c))
     /\ FMARuns(unit.negateC).emulated # FMARuns(1 - unit.negateC).emulated
SubnormalFromAddend ==
  /\ SignsDiffer
  /\ Unbiased(unit.c, Z) - Unbiased(unit.c, X) - Unbiased(unit.c, Y) >= 3
  /\ IEEEExponent(unit.c, Z) = 1

\* Otherwise A*B+C is rounded once, whether the sum is anchored at the product or at
\* the addend, with cancellations, overflows and subnormals on all sides.
FMAIsCorrect ==
  Tested("IEEEFMA") =>
    \/ FMAAgrees
    \/ InvalidProduct \/ NegatedInfinity \/ OppositeInfinity \/ SubnormalFromAddend \/ LostAddend

\* What emulate() expects when subtracting a small product from a normal addend
\* ends with a subnormal number.
FMARoundsToSubnormal == Tested("IEEEFMA") => (SubnormalFromAddend => FMAAgrees)

-----------------------------------------------------------------------------
\* A posit decoded to PIF and encoded again is itself, NaR and zero included.
PositRoundTrip == Tested("Posit2Posit") => Posit2Posit(unit.c, X) = X

\* The floating-point number of a posit is its exact value.
PositToFloatIsExact ==
  Tested("Posit2FP") => X = NaR(unit.c) \/ Posit2FP(unit.c, X) = FloatOfPosit(unit.c, X)

\* The exact sum of two posits is larger than the largest posit.
BeyondMaxPosit(c, x, y) ==
  NaR(c) \notin {x, y} /\ AbsOf(PositValue[c][x] + PositValue[c][y]) > PositValue[c][NaR(c) - 1]

\* A sum of posits is the posit nearest to the exact sum, unless that is beyond
\* the largest posit, where emulate() saturates and the hardware may not.
PositSumIsCorrect ==
  Tested("PositAdd") =>
    BeyondMaxPosit(unit.c, X, Y) \/ PositAdd(unit.c, X, Y) = PositSum(unit.c, X, Y)
=============================================================================
