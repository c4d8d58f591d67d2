\* Eight smallest blocks: every shape of the free list at a merge, any client.
CONSTANTS
  SizeMod = 4096
  Ids = {1, 2, 3, 4, 5, 6, 7, 8}
  Sizes = {16}
  InitPage = 224
  Page = 32
  MaxHeap = 288
  Fill <- Junk
  MaxInits = 1
SPECIFICATION Spec
VIEW Readable
CHECK_DEADLOCK FALSE
INVARIANTS
  FullyCoalesced
  FreeListExact
  NeverStranded
