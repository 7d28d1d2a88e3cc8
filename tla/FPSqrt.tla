------------------------------ MODULE FPSqrt ------------------------------
(***************************************************************************)
(* The floating-point square root (src/src/FPDivSqrt/FPSqrt.cpp): one bit  *)
(* of the root per step, by the restoring recurrence (method 0) or the     *)
(* non-restoring one (method 1).  A behaviour is the unrolled hardware     *)
(* seen through one operand, one step for each of its stages.              *)
(***************************************************************************)
EXTENDS FPNumber

CONSTANTS
  SqrtFormats,  \* formats [wE, wF] of the operators
  SqrtMethods   \* values of the parameter method

\* The bias is written as two zeros and wE-2 ones.
ASSUME FPSqrtAssumption ==
  /\ SqrtMethods \subseteq {0, 1}
  /\ \A f \in SqrtFormats : f.wE \in Nat \ {0, 1} /\ f.wF \in Nat \ {0}

VARIABLES
  rooter,   \* [method, f]: the generated operator
  radicand, \* the input X
  stage,    \* the digits found
  T,        \* the partial remainder: R_i of method 0, T_(i+1) of method 1
  S,        \* the root so far, S_i
  rootOut   \* the output R, -1 before the end

sqrtVars == <<rooter, radicand, stage, T, S, rootOut>>

rootFormat == rooter.f
rootWF == rootFormat.wF
SqrtIdle == rooter = <<>>

\* The significand, doubled when the exponent is odd, with wF+2 bits after the point.
Normed == Significand(rootFormat, radicand) * (IF BitOf(radicand, rootWF) = 1 THEN 4 ELSE 8)

SqrtInit ==
  /\ rooter = <<>> /\ radicand = 0 /\ stage = 0 /\ T = 0 /\ S = 0 /\ rootOut = -1

\* What R0 holds: the significand minus 1, with wF+1 bits after the point.
R0(f, x) ==
  IF BitOf(x, f.wF) = 1 THEN 2 * Fraction(f, x)
  ELSE LET top == BitOf(x, f.wF - 1)
       IN Cat(Cat(Cat(top, 1, 1 - top), f.wF - 1, Bits(x, f.wF - 2, 0)), 2, 0)

\* T1: 1.5^2 is subtracted, by an addition to the four leading bits.
T1(f, x) ==
  LET normed == Significand(f, x) * (IF BitOf(x, f.wF) = 1 THEN 4 ELSE 8)
  IN Cat((7 + normed \div Pow2[f.wF]) % 16, f.wF, Bits(normed, f.wF - 1, 0))

\* A number enters the operator.
Root(method, f, x) ==
  /\ SqrtIdle
  /\ rooter' = [method |-> method, f |-> f]
  /\ radicand' = x
  /\ T' = IF method = 0 THEN R0(f, x) ELSE T1(f, x)
  /\ S' = 1
  /\ UNCHANGED <<stage, rootOut>>

-----------------------------------------------------------------------------
\* Step i of method 0 looks at the i+3 leading bits of the doubled remainder,
\* and keeps the difference when it is not negative.
RestoringStage ==
  /\ ~SqrtIdle /\ rooter.method = 0 /\ stage <= rootWF
  /\ LET i == stage + 1
         subsize == i + 3
         high == Bits(2 * T, rootWF + 3, rootWF + 4 - subsize)
         low == Bits(2 * T, rootWF + 3 - subsize, 0)
         tentative == (high - Cat(S, 2, 1)) % Pow2[subsize]
         d == 1 - BitOf(tentative, subsize - 1)
     IN /\ T' = Cat(Bits(IF d = 1 THEN tentative ELSE high, subsize - 2, 0),
                    rootWF + 4 - subsize, low)
        /\ S' = Cat(S, 1, d)
  /\ stage' = stage + 1
  /\ UNCHANGED <<rooter, radicand, rootOut>>

\* A wrong variant of NonRestoringU, for a mutation run: the digit stays in.
NonRestoringUPlain(s, d) == Cat(Cat(s, 2, Cat(d, 1, 0)), 1, 1)

\* What a digit subtracts, or adds: S & d & not d & "1".
NonRestoringU(s, d) == Cat(Cat(s, 2, Cat(d, 1, 1 - d)), 1, 1)

\* Step i of method 1 adds or subtracts after the sign of the remainder.
NonRestoringStage ==
  /\ ~SqrtIdle /\ rooter.method = 1 /\ stage < rootWF
  /\ LET i == stage + 3
         d == 1 - BitOf(T, rootWF + 3)
         high == Bits(2 * T, rootWF + 4, rootWF + 2 - i)
         low == Bits(2 * T, rootWF + 1 - i, 0)
         U == NonRestoringU(S, d)
         next == (IF d = 1 THEN high - U ELSE high + U) % Pow2[i + 3]
     IN /\ T' = Cat(Bits(next, i + 1, 0), rootWF + 2 - i, low)
        /\ S' = Cat(S, 1, d)
  /\ stage' = stage + 1
  /\ UNCHANGED <<rooter, radicand, rootOut>>

-----------------------------------------------------------------------------
\* The exponent is halved, with the bias; its wE bits keep the carry of X(wF) in.
RootExponent ==
  (Exponent(rootFormat, radicand) \div 2 + Ones(rootFormat.wE - 2) + BitOf(radicand, rootWF))
    % Pow2[rootFormat.wE]

\* The exception bits and the sign: only -0 has a root among the negative numbers.
XsR(exn, sign) ==
  IF (sign = 0 /\ exn # NaNExn) \/ exn = ZeroExn THEN Cat(exn, 1, sign) ELSE Cat(NaNExn, 1, 0)

\* The end: the last digit rounds.  Method 1 has one more, the sign of its last remainder.
RootDone ==
  /\ ~SqrtIdle /\ rootOut = -1
  /\ stage = IF rooter.method = 0 THEN rootWF + 1 ELSE rootWF
  /\ LET f == rootFormat
         mR == IF rooter.method = 0 THEN S ELSE Cat(S, 1, 1 - BitOf(T, rootWF + 3))
         fRrnd == (Bits(mR, f.wF, 1) + BitOf(mR, 0)) % Pow2[f.wF]
     IN rootOut' = Cat(Cat(XsR(Exn(f, radicand), Sign(f, radicand)), f.wE, RootExponent),
                       f.wF, fRrnd)
  /\ UNCHANGED <<rooter, radicand, stage, T, S>>

-----------------------------------------------------------------------------
(***************************************************************************)
(* What the recurrences promise.                                           *)
(***************************************************************************)
\* Although each stage keeps a few leading bits only, the remainder holds what
\* is left of the radicand.  The root is S in method 0, S and a half in method 1.
RootRemainderIsExact ==
  ~SqrtIdle =>
    IF rooter.method = 0
    THEN 2 * T * Pow2[stage] = Normed * Pow2[2 * stage] - S * S * Pow2[rootWF + 2]
    ELSE Signed(rootWF + 4, T) * Pow2[stage] = Normed * Pow2[2 * stage] - (2 * S + 1) * (2 * S + 1) * Pow2[rootWF]

\* At every stage the digits so far are the leading digits of the square root.
RootDigitsAreExact ==
  ~SqrtIdle =>
    /\ S * S * Pow2[rootWF + 2] <= Normed * Pow2[2 * stage]
    /\ Normed * Pow2[2 * stage] < (S + 1) * (S + 1) * Pow2[rootWF + 2]

\* The rounded root, which "never changes exponents", is the nearest number.
SquareRootIsCorrect ==
  rootOut # -1 => FPEqual(rootFormat, rootOut, SquareRoot(rootFormat, radicand))
=============================================================================
