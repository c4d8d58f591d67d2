\* Three allocations of mixed sizes, a careful client, two passes.
CONSTANTS
  SizeMod = 4096
  Ids = {1, 2, 3}
  Sizes = {0, 16, 56}
  InitPage = 96
  Page = 80
  MaxHeap = 288
  Fill <- Junk
  MaxInits = 2
SPECIFICATION ReadSpec
VIEW Readable
CHECK_DEADLOCK FALSE
INVARIANTS
  TypeOK
  HeapWellFormed
  LiveAreAllocated
  ContentIntact
  CallocZeroes
PROPERTIES
  GrowsOnlyAsNeeded
  ImplementsBlockHeap
