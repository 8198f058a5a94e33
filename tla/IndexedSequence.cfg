CONSTANTS
  Hybrids = {0, 1, 2}
  SegmentBpcs = {0, 2, 3}
  MaxUniverse = 9
  MaxRepeated = 4
  MaxSize = 6
  Inputs <- MCInputs
  EfLogSampling0 = 2
  EfLogSampling1 = 2
  RbLogRank1Sampling = 2
  RbLogSampling1 = 2
  LinearScanThreshold = 1
SPECIFICATION Spec
INVARIANTS
  ReaderInStep
  PrevValueIsPredecessor
  SegmentDecodes
  SegmentSearchFinds
PROPERTY SequenceCursorSpec
