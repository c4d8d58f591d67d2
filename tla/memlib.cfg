\* Words of two bytes in a mapping of eight: copies of no word, one and two,
\* with and without a rest.
SPECIFICATION Spec
CONSTANTS
  W = 2
  Size = 8
  Byte = {b0, b1}
  Zero = b0
  Increments <- SomeIncrements
INVARIANTS
  TypeOK
  MemcpyExact
  MemsetExact
