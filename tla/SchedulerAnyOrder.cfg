SPECIFICATION Spec
CONSTANTS
  x = x
  r = r
  a = a
  b = b
  bb = bb
  rr = rr
  op = op
  ip = ip
  ow = ow
  or = or
  Root = Root
  Signals <- SmallSignals
  Inputs = {x}
  Outputs = {}
  Operators = {Root}
  Owner <- SmallOwner
  Contributions = {3}
  Period = 2
  IsShared = FALSE
  SharedInstances <- SmallShared
  Disciplined = FALSE
  Reads <- CyclicReads
INVARIANTS PortsAligned
PROPERTIES TimingIsFinal ScheduleReturns
