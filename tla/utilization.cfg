\* Blocks of any sizes; the counters wrap at 1024, beyond any total on this heap.
CONSTANTS
  First = 48
  InitPage = 64
  Page = 48
  Limit = 288
  Requests = {16, 24, 40, 72}
  SizeMod = 1024
SPECIFICATION UtilSpec
CHECK_DEADLOCK FALSE
INVARIANTS
  TypeOK
  Tiled
  Coalesced
  Exact
  Top
  TotalExact
  AtMostOne
PROPERTIES
  ImplementsAllocator
