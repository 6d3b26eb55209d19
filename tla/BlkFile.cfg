SPECIFICATION ReadSpec
CONSTANTS
  f0 = f0
  f1 = f1
  f2 = f2
  gone = gone
  NoIndex = NoIndex
  MaxPos = 24
  MaskLen = 3
  BufLen = 4
  HEADER_SIZE = 2
  Dirs <- MCDirs
  Contents <- MCContents
  Requests <- MCRequests
INVARIANTS AllFilesIndexed ReadsBack Transparent PosSynchronous
PROPERTIES ReaderProtocol EveryCallReturns
