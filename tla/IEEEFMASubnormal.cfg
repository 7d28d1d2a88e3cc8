SPECIFICATION Spec
CONSTANTS
  ShifterSizes = {}
  NormalizerSizes = {}
  LZOCWidths = {}
  LZOC3Sizes = {}
  AdderFormats = {}
  MultFormats = {}
  IEEEConversions = {}
  FixConversions = {}
  IEEEAddFormats = {}
  FMAFormats <- SomeFMAs
  FMASample <- SomeFactors
  DivSample <- SomeOperands
  PositFormats = {}
  FloatPosits = {}
  PositSample <- EveryFifth
  DivFormats = {}
  DivRadix = {}
  SqrtFormats = {}
  SqrtMethods = {}
  ConstDividers = {}
  Multipliers = {}
INVARIANT FMARoundsToSubnormal
CHECK_DEADLOCK FALSE
