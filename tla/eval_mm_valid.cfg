\* Any allocator at all, unaligned and outside addresses too, two passes; sizes
\* below maxfill, up to twice it and beyond.
CONSTANTS
  HeapLo = 8
  HeapHi = 27
  ALIGNMENT = 4
  Addrs = {4, 8, 10, 12, 16, 20}
  Sizes = {2, 7, 9}
  maxfill = 4
  Offsets = {1, 6}
  MaxPasses = 2
SPECIFICATION Spec
CHECK_DEADLOCK FALSE
INVARIANTS
  TypeOK
  LinksMutual
  NoFalseAlarm
  RecordsExact
  ListComplete
  RisingDetected
  OverlapDoomed
PROPERTIES
  DamageReported
