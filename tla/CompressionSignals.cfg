SPECIFICATION Spec
CONSTANTS
  Msb = 2
  Formats <- SomeFormats
  Shifts <- DownShift
  Weights = {0, 1, 2, 3}
  Constants <- SomeConstants
  MaxHeight = 3
  MaxConstant = 12
  Methods = {"heuristicMaxEff", "heuristicPA"}
  MaxPlaced = 10
INVARIANTS HeapIsExact ResultIsSum
CHECK_DEADLOCK FALSE
