SPECIFICATION Spec
CONSTANTS
  g = g
  a = a
  b = b
  c = c
  d = d
  e = e
  x = x
  y = y
  s = s
  n = n
  Txids = {g, a, b, c, d, e, x, y, s, n}
  GenesisTxid = g
  NullOutPoint = NullOutPoint
  None = None
  Pending = Pending
  IoErrors = TRUE
  Records <- MCRecords
  Disk <- MCDisk
  TxIndex <- MCTxIndex
INVARIANTS ConnectedExactly MissingOnlyIfUnresolved HeightHasTx FindsTransaction FormatsAgree
