\* Three chunks, sizes up to one past PTRDIFF_MAX, alignments up to twice the largest.
SPECIFICATION Spec
CONSTANTS
  Chunks = {1, 2, 3}
  NULL = NULL
  MaxAlignT = 2
  PtrMax = 3
  Sizes = {0, 1, 2, 4}
  Aligns = {0, 1, 2, 3, 4}
INVARIANTS ChunksAccounted ShrinkServed
PROPERTIES ImplementsAlloc
