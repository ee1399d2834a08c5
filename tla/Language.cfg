CONSTANTS
  Goals <- MCGoals
  Procedures <- MCProcedures
  MaxHeap = 24
  Written <- MCWritten
  MaxTerms = 2
  Solutions = {"x", "y"}
  MaxDepth = 2
  MaxSolutions = 2
  MaxRecords = 7
  LONG_MAX = 7
  Literals <- MCLiterals
  Ratios <- MCRatios
  Magnitude = 16
  Codes = {65, 233, 2048, 8364, 65535}
  BufferSize = 4
  MaxCodes = 3
SPECIFICATION LanguageSpec
INVARIANTS
  CallsAreInstances
  FailsRightly
  NoFrameReferences
  ReadsWhatWasWritten
  OwnSolutions
  RecordsAreOwned
  ArithmeticIsExact
  ComparesAsValues
  FitsMeansLong
  WrittenReadsBack
  PeekIsNext
PROPERTY CollectingEnds
