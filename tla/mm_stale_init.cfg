\* A client whose data is all ones, and a second pass.
CONSTANTS
  SizeMod = 4096
  Ids = {1}
  Sizes = {16}
  InitPage = 64
  Page = 64
  MaxHeap = 224
  Fill <- AllOnes
  MaxInits = 2
SPECIFICATION Spec
CHECK_DEADLOCK FALSE
INVARIANTS
  InitFailsOnlyOnError
