SPECIFICATION Spec
CONSTANTS
  Outputs = {r, s}
  Synchronized = TRUE
  MaxDepth = 5
  MaxTests = 9
  Widths <- SmallWidths
INVARIANTS TypeOK NoFalseError EveryTestCompared ExhaustiveTestIsExhaustive ResetIsClocked
CHECK_DEADLOCK FALSE
