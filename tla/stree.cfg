\* Every tree of up to five nodes, two records.
CONSTANTS
  MaxKey = 5
  Keys = {1, 2, 3, 4, 5}
  Records = {1, 2}
SPECIFICATION Spec
CHECK_DEADLOCK FALSE
INVARIANTS
  TypeOK
  ParentsExact
  SearchOrder
PROPERTIES
  ImplementsOrderedMap
