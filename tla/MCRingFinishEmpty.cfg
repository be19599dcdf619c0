CONSTANTS
  Threads = {t1, t2, t3}
  cap = 2
  M = 6
  Requests <- MCRequests
  FinishEmpty = TRUE
SPECIFICATION Spec
SYMMETRY Symmetry
PROPERTIES TailsNeverMoveBack
