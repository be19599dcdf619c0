CONSTANTS
  k1 = k1
  k2 = k2
  k3 = k3
  v1 = v1
  w1 = w1
  v2 = v2
  w2 = w2
  v3 = v3
  Keys = {k1, k2, k3}
  Vals = {v1, w1, v2, w2, v3}
  KeyOf <- MCKeyOf
  Hashes <- MCHashes
  AllocSizes = {1, 3}
  MaxCap = 16
  NULL = NULL
SPECIFICATION FairSpec
INVARIANTS NoHoles ProbesEnd LenCounts
PROPERTIES  RemovalsEnd
