\* Three blocks of one or two regions: free list order, first fit, oversize
\* blocks between normal ones, in scopes, resets, trims and deinits.
SPECIFICATION Spec
CONSTANTS
  Blocks = {b1, b2, b3}
  NULL = NULL
  Hdr = 2
  FixedOverhead = 3
  BlockAlign = 2
  MinDefault = 4
  MaxDefault = 5
  DefaultAlign = 1
  MaxAlign = 1
  AlignFloor = 1
  Redzone = 0
  Half = 8
  PtrMax = 31
  Skews = {0}
  SizedArgs <- MCSizedArgs
  BufferSizes = {}
  Counts = {}
  Sizes = {2, 4}
  Aligns = {}
  MaxDepth = 2
  MaxGeneration = 1
SYMMETRY Symmetry
INVARIANTS BlocksAccounted FreeListClean ScopesConsistent NoAbort
