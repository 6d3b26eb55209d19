SPECIFICATION ValueSpec
CONSTANTS
  Base = 4
  U32Max = 31
  UsizeMax = 63
  HeaderSize = 2
  Inputs <- MCInputs
INVARIANTS Canonical DecodesWritten
