SPECIFICATION Spec
CONSTANTS
  Strings = {s}
  Nul = Nul
  a = a
  Bytes <- MCBytes
  SizeMax = 5
  CallerSpans <- MCSpans
  NoString = NoString
  Junk = Junk
  MinCap = 2
  FormatStack = 2
  MaxDetached = 1
VIEW MCView
INVARIANTS
  TypeOK
  BufferSound
PROPERTIES
  ImplementsStrValue
  FailureAtomic
  ReservedNeverFails
  CapacityKept
