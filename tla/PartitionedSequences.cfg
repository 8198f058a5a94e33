CONSTANTS
  Hybrids = {0, 1}
  MaxUniverse = 7
  MaxSize = 5
  MaxRun = 3
  RunGap = 9
  Inputs <- MCInputs
  EfLogSampling0 = 1
  EfLogSampling1 = 1
  RbLogRank1Sampling = 2
  RbLogSampling1 = 1
  LinearScanThreshold = 1
  LogPartitionSize = 1
  FixCost = 4
  Eps1 <- MCEps1
  Eps2 <- MCEps2
SPECIFICATION Spec
INVARIANTS
  CursorInItsPartition
  PrevValueIsPredecessor
  PartitionsNearCheapest
PROPERTY SequenceCursorSpec
