CONSTANTS
  NMax = 6
  MaxRepeats = 2
  Heights = {0, 1, 6}
  Inputs <- MCInputs
  Epsilons = {0, 1}
  Parallelisms = {2, 3}
  SequentialBelow = 5
SPECIFICATION Spec
INVARIANTS
  TypeOK
  EveryPointFits
  AtMostOneMorePerBoundary
PROPERTY Returns
CHECK_DEADLOCK FALSE
