SPECIFICATION Spec
CONSTANTS
  x = x
  a = a
  b = b
  r = r
  z = z
  Signals <- AllSignals
  Inputs = {x}
  Outputs = {r}
  Datapaths <- AllDatapaths
  FunctionalSets = {{z}}
  MaxCycle = 2
  FunctionalCycle = 0
  IsSequential = TRUE
INVARIANTS TypeOK WavesAligned NoUndeclaredRegister
PROPERTIES DataFlows
