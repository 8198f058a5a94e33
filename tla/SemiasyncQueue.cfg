CONSTANTS
  ThreadCounts = {0, 1, 2, 3}
  Works = {1, 2, 3}
  WorkPerThread = 4
  MaxJobs = 8
SPECIFICATION Spec
INVARIANT TypeOK
PROPERTIES
  OrderedCommitSpec
  CommitsOnlyFinishedBatches
  CompleteLeavesNothing
  CallsReturn
