CONSTANTS
  Producers = {p1}
  Consumers = {c1}
  Items = {x}
  NoItem = NoItem
  cap = 2
  M = 8
SPECIFICATION Spec
INVARIANTS AddReportsACount
