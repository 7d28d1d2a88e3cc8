SPECIFICATION Spec
CONSTANTS
  ShifterSizes = {}
  NormalizerSizes = {}
  LZOCWidths = {}
  LZOC3Sizes = {}
  AdderFormats = {}
  MultFormats = {}
  IEEEConversions <- SomeConversions
  FixConversions = {}
  IEEEAddFormats = {}
  FMAFormats = {}
  FMASample <- SomeFactors
  DivSample <- SomeOperands
  PositFormats = {}
  FloatPosits = {}
  PositSample <- EveryFifth
  DivFormats = {}
  DivRadix = {}
  SqrtFormats = {}
  SqrtMethods = {}
  ConstDividers = {}
  Multipliers = {}
INVARIANT TinyNumbersStaySmall
CHECK_DEADLOCK FALSE
