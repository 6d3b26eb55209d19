SPECIFICATION Spec
CONSTANTS
  g = g
  b1 = b1
  b2 = b2
  c1 = c1
  c2 = c2
  zero = zero
  meta = meta
  U32Max = 255
  Databases <- MCDatabases
INVARIANTS IndexIsChain PanicOnlyOnGap HashHeightInverse AvailableForQuery
