SPECIFICATION Spec
CONSTANTS
  Datasets <- MCDatasets
  Steps <- MCSteps
  HeightSets = {{1, 4, 5, 10, 11, 13}, {0, 6, 7, 22, 23, 25}, {20, 24, 27, 32, 35}}
  Sought = {0, 1, 12, 23, 40}
  MinKeys = 1
  MaxKeys = 7
  TBpcs = {0, 4}
  Slopes = {4, 9}
  KeyBits = 10
  Density = 2
  LinearThreshold = 2
  TopLevelCap = 2
  Chunks = {1, 2}
  SegmentBits = 12
INVARIANTS TypeOK CorrectionsFit EveryElementDecodes DecodesAboveEpsilon PathIsShortest
INVARIANTS LowerBoundFindsWithinReach IteratorOnItsSegment
CHECK_DEADLOCK FALSE
