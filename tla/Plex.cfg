SPECIFICATION FairSpec
CONSTANTS
  WordBits = 8
  Key <- SomeKeys
  MaxKey = 108
  Errors = {0, 1}
  MaxRadixBits = 30
  MaxLogBins = 20
  MaxTreeError = 9
  FewPoints = 2
  MaxNodes = 14
INVARIANTS SplineWithinError SegmentIsRight PredictIsRight RadixSplineFinds SegmentsFit
PROPERTY BuildEnds
CHECK_DEADLOCK FALSE
