SPECIFICATION BuildSpec
CONSTANTS
  Datasets <- MCDatasets
  Steps <- MCSteps
  HeightSets = {{1, 2, 4, 5, 7, 8, 10, 11}}
  Sought = {0}
  MinKeys = 4
  MaxKeys = 8
  TBpcs = {2}
  Slopes = {4}
  KeyBits = 10
  Density = 1024
  LinearThreshold = 256
  TopLevelCap = 2
  Chunks = {1}
  SegmentBits = 12
INVARIANTS DecodeGivesElements
CHECK_DEADLOCK FALSE
