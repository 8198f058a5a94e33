SPECIFICATION BuildSpec
CONSTANTS
  Datasets <- MCDatasets
  Steps <- MCSteps
  HeightSets = {{0, 1, 2, 3, 5, 8, 12, 13, 15}}
  MinKeys = 1
  MaxKeys = 8
  TBpc = 0
  KeyBits = 6
  SignificandBits = 4
  ExponentBits = 5
  Density = 1
  LinearThreshold = 2
  WordBits = 8
  TopLevelCap = 2
  Chunks = {1}
  StackLimit = 4
  SegmentBits = 10
INVARIANTS EveryElementDecodes
CHECK_DEADLOCK FALSE
