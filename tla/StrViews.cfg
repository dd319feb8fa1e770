SPECIFICATION Spec
CONSTANTS
  Bytes = {0, 32, 200}
  Whitespace = {32}
  StringLen = 3
  SizeMax = 4
  MaxCap = 3
  NULL = NULL
INVARIANTS
  AnswersExact
  SubviewsExact
  SplitExact
CHECK_DEADLOCK FALSE
