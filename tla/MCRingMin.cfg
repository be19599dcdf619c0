CONSTANTS
  Threads = {t1, t2, t3}
  cap = 2
  M = 6
  Requests <- MCRequests
  FinishEmpty = FALSE
SPECIFICATION Spec
SYMMETRY Symmetry
PROPERTIES MinReadsAreServed
