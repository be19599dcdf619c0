CONSTANTS
  Producers = {p1, p2}
  Consumers = {c1, c2}
  Items = {x}
  NoItem = NoItem
  cap = 2
  M = 4
SPECIFICATION FairSpec
PROPERTIES ClaimsComplete LockFree
