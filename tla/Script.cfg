SPECIFICATION ScriptSpec
CONSTANTS
  k1 = k1
  k2 = k2
  nokey = nokey
  hash = hash
  Scripts <- MCScripts
  Keys <- MCKeys
INVARIANTS NoPanic MostSpecific AddressesOfPattern
