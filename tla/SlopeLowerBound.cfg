SPECIFICATION BuildSpec
CONSTANTS
  Datasets <- MCDatasets
  Steps <- MCSteps
  HeightSets = {{10, 12, 14, 17, 18, 20, 23, 24, 26, 28}}
  Sought = {0}
  MinKeys = 8
  MaxKeys = 10
  TBpcs = {2}
  Slopes = {4}
  KeyBits = 10
  Density = 1024
  LinearThreshold = 256
  TopLevelCap = 2
  Chunks = {1}
  SegmentBits = 12
INVARIANTS LowerBoundIsExact
CHECK_DEADLOCK FALSE
