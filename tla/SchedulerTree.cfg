SPECIFICATION Spec
CONSTANTS
  x = x
  r = r
  a = a
  b = b
  bb = bb
  rr = rr
  op = op
  ip = ip
  ow = ow
  or = or
  Root = Root
  Signals <- TreeSignals
  Inputs = {x, ip}
  Outputs = {r, or}
  Operators = {Root, op}
  Owner <- TreeOwner
  Contributions = {5}
  Period = 2
  IsShared = FALSE
  SharedInstances = {}
  Disciplined = TRUE
  Reads <- TreeReads
INVARIANTS TypeOK FitsPeriod Causal AsSoonAsPossible LifeSpanCoversDelays PortsAligned ConstructionInv
PROPERTIES ImplementsTimedGraph ScheduleIsComplete
