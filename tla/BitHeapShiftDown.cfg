SPECIFICATION HeapSpec
CONSTANTS
  Msb = 2
  Formats <- SignedFractions
  Shifts <- DownShift
  Weights = {}
  Constants = {}
  MaxHeight = 2
  MaxConstant = 12
INVARIANT HeapIsExact
CHECK_DEADLOCK FALSE
