\* Small regions in the layout of a checking build (redzones, an alignment floor)
\* over misaligned blocks: nested scopes, rollbacks, moves and reuse.
SPECIFICATION Spec
CONSTANTS
  Blocks = {b1, b2}
  NULL = NULL
  Hdr = 2
  FixedOverhead = 3
  BlockAlign = 2
  MinDefault = 5
  MaxDefault = 7
  DefaultAlign = 1
  MaxAlign = 4
  AlignFloor = 2
  Redzone = 1
  Half = 8
  PtrMax = 31
  Skews = {1}
  SizedArgs <- MCSizedArgs
  BufferSizes = {}
  Counts = {}
  Sizes = {1, 2}
  Aligns = {4}
  MaxDepth = 2
  MaxGeneration = 1
SYMMETRY Symmetry
INVARIANTS RegionsSafe UsedExact ShadowExact ScopesUsed NoAbort
PROPERTIES TempEndRestores ImplementsAlloc
