\* Two allocations, the second one padded, freed in the opposite order.
SPECIFICATION LifoSpec
CONSTANTS
  Blocks = {b1}
  NULL = NULL
  Hdr = 2
  FixedOverhead = 3
  BlockAlign = 2
  MinDefault = 7
  MaxDefault = 7
  DefaultAlign = 2
  MaxAlign = 2
  AlignFloor = 1
  Redzone = 0
  Half = 8
  PtrMax = 31
  Skews = {0}
  SizedArgs = {}
  BufferSizes = {}
  Counts = {}
  Sizes = {1, 3}
  Aligns = {1, 2}
  MaxDepth = 0
  MaxGeneration = 0
INVARIANT LifoCostsOnlyPadding
