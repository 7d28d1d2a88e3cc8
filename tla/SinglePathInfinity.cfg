SPECIFICATION Spec
CONSTANTS
  ShifterSizes = {}
  NormalizerSizes = {}
  LZOCWidths = {}
  LZOC3Sizes = {}
  AdderFormats <- SomeAdders
  MultFormats = {}
  IEEEConversions = {}
  FixConversions = {}
  IEEEAddFormats = {}
  FMAFormats = {}
  FMASample <- SomeFactors
  DivSample <- SomeOperands
  PositFormats = {}
  FloatPosits = {}
  PositSample <- EveryFifth
  DivFormats = {}
  DivRadix = {}
  SqrtFormats = {}
  SqrtMethods = {}
  ConstDividers = {}
  Multipliers = {}
INVARIANT SinglePathHandlesInfinity
CHECK_DEADLOCK FALSE
