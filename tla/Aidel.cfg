SPECIFICATION FairSpec
CONSTANTS
  WordBits = 9
  Key <- SomeKeys
  MaxKey = 110
  LearningStep = 2
  LogBins = 4
  MaxError = 1
  MaxScan = 2
  MaxNodes = 12
INVARIANTS SearchBoundHolds KeysFindTheirModel ScanIsExact BuildersAgree LevelsFind
PROPERTY CallsEnd
CHECK_DEADLOCK FALSE
