SPECIFICATION Spec
CONSTANTS
  Bytes = {1, 2}
  MaxNeedle = 6
  MaxHaystack = 8
  SizeMax = 8
INVARIANTS
  TypeOK
  SearchExact
  MemoryMatches
  WalkCompletes
  FactorCritical
CHECK_DEADLOCK FALSE
