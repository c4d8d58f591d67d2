\* A payload below all the others, over one of them.
CONSTANTS
  HeapLo = 32
  HeapHi = 127
  ALIGNMENT = 16
  Addrs = {32, 48, 64, 80, 96, 112}
  Sizes = {16, 32, 48}
  maxfill = 1024
  Offsets = {}
  MaxPasses = 1
SPECIFICATION Spec
CHECK_DEADLOCK FALSE
INVARIANTS
  OverlapsDetected
