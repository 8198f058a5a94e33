CONSTANTS
  Epsilons = {0, 1, 2}
  XMax = 5
  YMax = 4
  Xs <- MCXs
  Ys <- MCYs
SPECIFICATION Spec
INVARIANTS
  TypeOK
  SlopesWellFormed
  ExtremeLinesFit
  ExtremeSlopesExact
PROPERTY RefusesOnlyInfeasible
CHECK_DEADLOCK FALSE
