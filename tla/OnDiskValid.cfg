SPECIFICATION Spec
CONSTANTS
  a = a
  b = b
  c = c
  d = d
  e = e
  f = f
  g = g
  Null = Null
  Txids = {a, b, c, d, e, f, g}
  NullOutPoint = Null
  Count = 4
  Blocks <- ValidChain
  End = 5
  Updaters = {u1, u2}
  Connectors = {v1, v2}
  Ahead = 2
  IoErrors = FALSE
  StoreErrors = TRUE
  NoOut = NoOut
INVARIANTS TypeOK NoSpuriousErr StoreIsUtxoSet
PROPERTIES IsConnectedStream
