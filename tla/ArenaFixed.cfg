\* Arenas over a caller's buffer of every size from none to PTRDIFF_MAX + 1, and over
\* the parent, asked for products and sizes up to SIZE_MAX (4 bits).
SPECIFICATION Spec
CONSTANTS
  Blocks = {b1}
  NULL = NULL
  Hdr = 1
  FixedOverhead = 2
  BlockAlign = 2
  MinDefault = 3
  MaxDefault = 3
  DefaultAlign = 2
  MaxAlign = 2
  AlignFloor = 1
  Redzone = 0
  Half = 4
  PtrMax = 7
  Skews = {0, 1}
  SizedArgs = {}
  BufferSizes = {0, 1, 2, 5, 8}
  Counts = {1, 5}
  Sizes = {0, 1, 3, 7}
  Aligns = {0, 1}
  MaxDepth = 1
  MaxGeneration = 1
INVARIANTS TypeOK RegionsSafe UsedExact
PROPERTIES ServedExactly
