\* A request so large that adding the tags wraps around; a size_t has 9 bits.
CONSTANTS
  InitPage = 64
  Page = 64
  MaxHeap = 160
  SizeMod = 512
  Ids = {1}
  Sizes = {16, 504}
  Fill <- Junk
  MaxInits = 1
SPECIFICATION Spec
CHECK_DEADLOCK FALSE
INVARIANTS
  RoomForRequest
