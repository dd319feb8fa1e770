SPECIFICATION PairSpec
CONSTANTS
  Strings = {s, t}
  Nul = Nul
  a = a
  Bytes <- MCBytes
  SizeMax = 3
  CallerSpans <- MCOneSpan
  NoString = NoString
  Junk = Junk
  MinCap = 2
  FormatStack = 2
  MaxDetached = 1
VIEW MCView
SYMMETRY MCSymmetry
INVARIANTS
  OneOwner
PROPERTIES
  ImplementsStrValue
