SPECIFICATION FairSpec
CONSTANTS
  a = a
  b = b
  c = c
  d = d
  e = e
  f = f
  g = g
  Null = Null
  Txids = {a, b, c, d, e, f, g}
  NullOutPoint = Null
  Count = 4
  Blocks <- ValidChain
  End = 5
  Updaters = {u1, u2}
  Connectors = {v1, v2}
  Ahead = 3
  IoErrors = TRUE
  NoTx = NoTx
  NoOut = NoOut
INVARIANTS CacheIsUtxoSet
PROPERTIES IsConnectedStream Terminates
