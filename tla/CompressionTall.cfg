SPECIFICATION Spec
CONSTANTS
  Msb = 1
  Formats = {}
  Shifts = {}
  Weights = {0, 1}
  Constants = {}
  MaxHeight = 8
  MaxConstant = 1
  Methods = {"heuristicMaxEff", "heuristicPA"}
  MaxPlaced = 10
INVARIANTS TypeOK PlanIsFollowed ValueIsPreserved
PROPERTY Terminates
CHECK_DEADLOCK FALSE
