SPECIFICATION Spec
CONSTANTS
  Data = {d1, d2, d3}
  Node = {n1, n2, n3, n4, n5, n6}
  NULL = NULL
  Junk = Junk
  Capacity = 3
SYMMETRY Addresses
INVARIANTS
  WellLinked
PROPERTY ImplementsFifo
