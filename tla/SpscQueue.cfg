SPECIFICATION Spec
CONSTANTS
  Values = {v1, v2}
  Capacity = 4
  Room = 3
  MaxItems = 7
INVARIANTS
  TypeOK
  SlotsDisjoint
  IndicesInRange
PROPERTIES
  ImplementsBoundedFifo
