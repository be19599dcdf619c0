CONSTANTS
  Threads = {t1, t2, t3}
  Items = {a, b, c}
  root = root
  NULL = NULL
SPECIFICATION FairSpec
INVARIANTS MutualExclusion ListIsTheSequence
PROPERTIES StarvedOnlyByOthers
