----------------------------- MODULE Arithmetic -----------------------------
(***************************************************************************)
(* The arithmetic operators composed: a behaviour tests one of them, a     *)
(* combinational one in a step for each input (Datapaths), a digit         *)
(* recurrence in a step for each row of its hardware (FPDiv, FPSqrt,       *)
(* IntConstDiv), or a multiplier in a step for each tile of its generator  *)
(* (IntMultiplier).                                                        *)
(***************************************************************************)
EXTENDS Datapaths, FPDiv, FPSqrt, IntConstDiv, IntMultiplier

vars == <<unitVars, divVars, sqrtVars, constDivVars, multiplierVars>>

Init == UnitInit /\ DivInit /\ SqrtInit /\ CDInit /\ MultiplierInit
AllIdle == unit.op = "none" /\ DivIdle /\ SqrtIdle /\ CDIdle /\ MultiplierIdle

Combinational ==
  /\ DivIdle /\ SqrtIdle /\ CDIdle /\ MultiplierIdle
  /\ UnitNext
  /\ UNCHANGED <<divVars, sqrtVars, constDivVars, multiplierVars>>

StartDivision ==
  /\ AllIdle
  /\ \E srt \in DivRadix, f \in DivFormats : \E x, y \in DivSample(f) : Divide(srt, f, x, y)
  /\ UNCHANGED <<unitVars, sqrtVars, constDivVars, multiplierVars>>
DivisionStep ==
  /\ SRTRow \/ LastRow
  /\ UNCHANGED <<unitVars, sqrtVars, constDivVars, multiplierVars>>

StartRoot ==
  /\ AllIdle
  /\ \E method \in SqrtMethods, f \in SqrtFormats : \E x \in CanonicalNumbers(f) : Root(method, f, x)
  /\ UNCHANGED <<unitVars, divVars, constDivVars, multiplierVars>>
RootStep ==
  /\ RestoringStage \/ NonRestoringStage \/ RootDone
  /\ UNCHANGED <<unitVars, divVars, constDivVars, multiplierVars>>

StartConstantDivision ==
  /\ AllIdle
  /\ \E c \in ConstDividers : \E x \in 0..Ones(c.wIn) : DivideByConstant(c, x)
  /\ UNCHANGED <<unitVars, divVars, sqrtVars, multiplierVars>>
ConstantDivisionStep ==
  /\ LinearDigit \/ MergeLevel \/ Multiply \/ Output
  /\ UNCHANGED <<unitVars, divVars, sqrtVars, multiplierVars>>

StartMultiplier ==
  /\ AllIdle
  /\ \E m \in Multipliers : NewMultiplier(m)
  /\ UNCHANGED <<unitVars, divVars, sqrtVars, constDivVars>>
MultiplierStep ==
  /\ ~MultiplierIdle
  /\ \/ PlaceBlock \/ TileBox \/ FinishTiling
     \/ \E x \in 0..Ones(multiplier.wX), y \in 0..Ones(multiplier.wY) : MultiplyIntegers(x, y)
  /\ UNCHANGED <<unitVars, divVars, sqrtVars, constDivVars>>

Next ==
  \/ Combinational
  \/ StartDivision
  \/ DivisionStep
  \/ StartRoot
  \/ RootStep
  \/ StartConstantDivision
  \/ ConstantDivisionStep
  \/ StartMultiplier
  \/ MultiplierStep

Spec == Init /\ [][Next]_vars

-----------------------------------------------------------------------------
\* What the other operators are built on: shifters, normalizers and counters of
\* leading zeros move and count every bit that they are given, as emulate() does
\* (except for the count of a normalizer that only gets zeros, see CountIsExact).
ShiftersAreExact == ShiftIsExact /\ CountIsExact

\* Both architectures of the floating-point adder return the rounded sum.
FPAddIsCorrect == DualPathIsCorrect /\ SinglePathIsCorrect

\* The converters from and to IEEE formats round, flush and overflow as their
\* emulate() does, and undo each other.  The converter to integers truncates as its
\* emulate() does what fits its output; beyond, where emulate() does not, it saturates.
ConvertersAreCorrect ==
  InputIEEEIsCorrect /\ OutputIEEEIsCorrect /\ IEEERoundTrip /\ FP2FixIsCorrect /\ FP2FixSaturates

\* The operators on IEEE formats, the adder and the fused multiply-add, return
\* the rounded result, infinities, subnormals and signs of zeros included.
IEEEOperatorsAreCorrect == IEEEAddIsCorrect /\ FMAIsCorrect

\* Posits are decoded, encoded, added and converted as their emulate() expects.
PositsAreCorrect == PositRoundTrip /\ PositSumIsCorrect /\ PositToFloatIsExact

\* The division, row by row: the remainder is exact and stays within the bounds
\* of the selection tables, and so the quotient rounds to the nearest number.
FPDivIsCorrect == RemainderIsExact /\ RemainderIsBounded /\ DivisionIsCorrect

\* The square root, row by row: the remainder and the digits so far are exact,
\* whichever method computes them, and the root rounds to the nearest number.
FPSqrtIsCorrect == RootRemainderIsExact /\ RootDigitsAreExact /\ SquareRootIsCorrect

\* The division by a constant: chunk by chunk, level by level, and at the outputs.
IntConstDivIsCorrect == ChunksAreDivided /\ ConstantDivisionIsCorrect

\* The integer multiplier: its tiles cover what is kept once, and whatever is
\* left out, pruned and recentred, the result is faithful.
IntMultiplierIsFaithful == TilingIsExact /\ ProductIsFaithful
=============================================================================
