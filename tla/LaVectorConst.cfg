SPECIFICATION Spec
CONSTANTS
  Datasets <- MCDatasets
  Steps <- MCSteps
  HeightSets = {{0, 1, 2, 13, 14, 27, 28, 30, 31}, {4, 5, 7, 9, 10, 12, 14, 15}}
  MinKeys = 1
  MaxKeys = 8
  TBpc = 3
  KeyBits = 6
  SignificandBits = 4
  ExponentBits = 5
  Density = 2
  LinearThreshold = 1
  WordBits = 8
  TopLevelCap = 4
  Chunks = {1, 2}
  StackLimit = 4
  SegmentBits = 4
INVARIANTS TypeOK EveryElementDecodes CorrectionsApart OverflowOnlyTooSteep LowerBoundIsExact IteratorOnItsSegment
CHECK_DEADLOCK FALSE
