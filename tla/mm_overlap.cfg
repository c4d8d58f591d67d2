\* A client that makes a stranded heap grow.
CONSTANTS
  SizeMod = 4096
  Ids = {1, 2}
  Sizes = {16, 64}
  InitPage = 96
  Page = 96
  MaxHeap = 320
  Fill <- Junk
  MaxInits = 1
SPECIFICATION Spec
CHECK_DEADLOCK FALSE
INVARIANTS
  PayloadsDisjoint
