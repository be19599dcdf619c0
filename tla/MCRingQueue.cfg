CONSTANTS
  Producers = {p1, p2}
  Consumers = {c1, c2}
  Items = {x, y}
  NoItem = NoItem
  cap = 2
  M = 6
SPECIFICATION Spec
SYMMETRY Symmetry
INVARIANTS TypeOK RegionsFit SlotsExclusive
PROPERTIES ImplementsFifo
