SPECIFICATION Spec
CONSTANTS
  a = a
  b = b
  c = c
  d = d
  e = e
  f = f
  g = g
  Null = Null
  Txids = {a, b, c, d, e, f, g}
  NullOutPoint = Null
  Count = 4
  Blocks <- BadChain
  End = 4
  Updaters = {u1, u2}
  Connectors = {v1, v2}
  Ahead = 3
  IoErrors = FALSE
  NoTx = NoTx
  NoOut = NoOut
INVARIANTS TypeOK NoSpuriousErr SpentOnce
PROPERTIES IsConnectedStream
