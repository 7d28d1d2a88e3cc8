SPECIFICATION Spec
CONSTANTS
  ShifterSizes <- SomeShifters
  NormalizerSizes <- SomeNormalizers
  LZOCWidths = {4, 5, 7, 8}
  LZOC3Sizes <- SomeLZOC3s
  AdderFormats <- SomeAdders
  MultFormats <- SomeMultipliers
  IEEEConversions <- SomeConversions
  FixConversions <- SomeFixConversions
  IEEEAddFormats <- SomeIEEEAdders
  FMAFormats <- SomeFMAs
  FMASample <- SomeFactors
  DivSample <- SomeOperands
  PositFormats <- SomePosits
  FloatPosits <- SomeFloatPosits
  PositSample <- EveryFifth
  DivFormats <- SomeDividers
  DivRadix = {42, 43, 87}
  SqrtFormats <- SomeRoots
  SqrtMethods = {0, 1}
  ConstDividers <- SomeConstDividers
  Multipliers <- SomeMultipliersInUse
INVARIANTS
  ShiftersAreExact FPAddIsCorrect ProductIsCorrect ConvertersAreCorrect
  IEEEOperatorsAreCorrect PositsAreCorrect
  FPDivIsCorrect FPSqrtIsCorrect IntConstDivIsCorrect
  IntMultiplierIsFaithful
CHECK_DEADLOCK FALSE
